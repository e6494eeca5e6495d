--------------------------- MODULE FactExtraction ---------------------------
(***************************************************************************)
(* What the import pipeline reads out of a page of the Seeed wiki:         *)
(* imports/pipeline/extractors (markdown.py, seeed.py) and the checks of   *)
(* models/extracted_facts.py.                                              *)
(*                                                                         *)
(* A page is a sequence of lines.  A line has a form and the parts that    *)
(* the regular expressions pick from it; texts are opaque.  A position in  *)
(* the page is a line number, so a piece of evidence is the lines it cites *)
(* and the method that read them.                                          *)
(***************************************************************************)
EXTENDS Naturals, SequencesExt

CONSTANTS
  NoText,         \* an empty text, or no text at all
  KindOfHeading,  \* the section kind a heading is an alias of, or "none"
  KindOfLabel,    \* the meaning of the label of a key-value line, or "none"
  Casefold,       \* a text without its letter case
  LongTexts       \* texts longer than an identifier may be

Line(form, text) ==
  [form |-> form, text |-> text, label |-> NoText, part |-> NoText,
   level |-> 0, cells |-> << >>, link |-> NoText, jsx |-> FALSE]

-----------------------------------------------------------------------------
(* markdown.py                                                             *)

Positions(page, Test(_)) == SelectSeq([n \in 1..Len(page) |-> n], Test)

\* The line that closes the front matter; 0 without one.
Closing(page) ==
  LET rest == {n \in 2..Len(page) : page[n].form = "delimiter"} IN
  IF page # << >> /\ page[1].form = "delimiter" /\ rest # {} THEN Min(rest) ELSE 0

\* _frontmatter: entries without a colon, without a value or with YAML syntax
\* are passed over with a warning.
Metadata(page) ==
  Positions(page, LAMBDA n : 1 < n /\ n < Closing(page) /\ page[n].form = "entry")

Fenced(page, n) ==
  Cardinality({m \in Closing(page) + 1..n - 1 : page[m].form = "fence"}) % 2 = 1

\* A mutant of Safe: only the fences are left out, not what they fence.
SafeWithCode(page) ==
  Positions(page, LAMBDA n : n > Closing(page) /\ page[n].form \notin {"fence", "import"})

\* _safe_lines: code, imports and exports are left out.
Safe(page) ==
  Positions(page, LAMBDA n :
    n > Closing(page) /\ page[n].form \notin {"fence", "import"} /\ ~ Fenced(page, n))

\* parse_markdown: the document, with the heading over each line (0 for the
\* preamble) and the lines under each heading.
Document(page) ==
  LET safe == Safe(page)
      headings == SelectSeq(safe, LAMBDA n : page[n].form = "heading")
      over == [n \in ToSet(safe) |-> Max({0} \cup {h \in ToSet(headings) : h <= n})]
  IN
  [lines |-> page, metadata |-> Metadata(page), safe |-> safe, headings |-> headings,
   over |-> over,
   under |-> [h \in {0} \cup ToSet(headings) |->
                SelectSeq(safe, LAMBDA n : page[n].form # "heading" /\ over[n] = h)]]

ParseWarnings(page) ==
  LET body == {n \in 1..Len(page) : n > Closing(page)}
      safe == ToSet(Safe(page))
      front == {n \in 2..Closing(page) - 1 : page[n].form \notin {"entry", "blank"}}
  IN
  (IF page # << >> /\ page[1].form = "delimiter" /\ Closing(page) = 0
     THEN {"frontmatter_unterminated"} ELSE {})
  \cup (IF front # {} THEN {"frontmatter_entry_ignored"} ELSE {})
  \cup (IF \E n \in body : n \notin safe \/ page[n].jsx
          THEN {"executable_construct_ignored"} ELSE {})

Prose == {"prose", "entry", "delimiter"}

\* paragraphs: runs of prose; a line that was left out does not part them.
Paragraphs(doc, lines) ==
  LET Add(acc, n) ==
        IF doc.lines[n].form \notin Prose THEN [acc EXCEPT !.open = FALSE]
        ELSE IF acc.open
          THEN [acc EXCEPT !.found[Len(acc.found)].lines = Append(@, n),
                           !.found[Len(acc.found)].value = Append(@, doc.lines[n].text)]
          ELSE [open |-> TRUE,
                found |-> Append(acc.found, [lines |-> <<n>>, value |-> <<doc.lines[n].text>>])]
  IN FoldLeft(Add, [open |-> FALSE, found |-> << >>], lines).found

ListItems(doc, lines) ==
  LET items == SelectSeq(lines, LAMBDA n : doc.lines[n].form = "item") IN
  [i \in DOMAIN items |-> [lines |-> <<items[i]>>, value |-> <<doc.lines[items[i]].text>>]]

TableRows(doc, lines) == SelectSeq(lines, LAMBDA n : doc.lines[n].form = "row")

\* key_values: labelled lines, then the rows of the table without its header.
KeyValues(doc, lines) ==
  LET labelled == SelectSeq(lines, LAMBDA n :
        doc.lines[n].form # "row" /\ doc.lines[n].label # NoText /\ doc.lines[n].text # NoText)
      rows == TableRows(doc, lines)
      isHeader == rows # << >>
                  /\ \E c \in ToSet(doc.lines[rows[1]].cells) : KindOfLabel[c] = "header"
      filled == SelectSeq(IF isHeader THEN Tail(rows) ELSE rows, LAMBDA n :
        Len(doc.lines[n].cells) >= 2 /\ NoText \notin {doc.lines[n].cells[1], doc.lines[n].cells[2]})
  IN
  [i \in DOMAIN labelled |->
     [line |-> labelled[i], label |-> doc.lines[labelled[i]].label,
      value |-> doc.lines[labelled[i]].text]]
  \o [i \in DOMAIN filled |->
     [line |-> filled[i], label |-> doc.lines[filled[i]].cells[1],
      value |-> doc.lines[filled[i]].cells[2]]]

-----------------------------------------------------------------------------
(* seeed.py                                                                *)

Field(value, lines, method) ==
  [value |-> value, evidence |-> <<[lines |-> lines, method |-> method]>>]

\* The sequence without later copies of an element (dict.fromkeys).
Once(s) == FoldLeft(LAMBDA t, x : IF Contains(t, x) THEN t ELSE Append(t, x), << >>, s)

\* _merge_fields: one field for each value, with all of its evidence.
MergeFields(fields) ==
  LET Add(acc, f) ==
        LET same == {k \in DOMAIN acc : acc[k].value = f.value} IN
        IF same = {} THEN Append(acc, f)
        ELSE [acc EXCEPT ![Min(same)].evidence = Once(@ \o f.evidence)]
  IN FoldLeft(Add, << >>, fields)

SectionsOf(doc, kind) ==
  SelectSeq(doc.headings, LAMBDA h :
    doc.lines[h].level > 1 /\ KindOfHeading[doc.lines[h].text] = kind)

Gather(doc, sections, Read(_)) ==
  FlattenSeq([i \in DOMAIN sections |-> Read(doc.under[sections[i]])])

TopHeadings(doc) == SelectSeq(doc.headings, LAMBDA h : doc.lines[h].level = 1)

Entries(doc, kind) ==
  SelectSeq(doc.metadata, LAMBDA n : KindOfLabel[doc.lines[n].label] = kind)

FieldsAt(doc, lines, method) ==
  [i \in DOMAIN lines |-> Field(doc.lines[lines[i]].text, <<lines[i]>>, method)]

Titles(doc) ==
  MergeFields(FieldsAt(doc, Entries(doc, "title"), "frontmatter")
              \o FieldsAt(doc, TopHeadings(doc), "heading"))

\* _summaries: the description of the front matter, or else the first
\* paragraph under the title.
Summaries(doc) ==
  LET described == Entries(doc, "description")
      top == TopHeadings(doc)
      intro == Paragraphs(doc, doc.under[IF top = << >> THEN 0 ELSE top[1]])
  IN
  IF described # << >>
    THEN MergeFields([i \in DOMAIN described |->
                        Field(<<doc.lines[described[i]].text>>, <<described[i]>>, "frontmatter")])
  ELSE [i \in 1..IF intro = << >> THEN 0 ELSE 1 |->
          Field(intro[1].value, intro[1].lines, "paragraph")]

OrElse(s, t) == IF s # << >> THEN s ELSE t

\* _text_sections: one field for each section.
TextSections(doc, kind) ==
  LET Read(lines) ==
        LET parts == OrElse(Paragraphs(doc, lines), ListItems(doc, lines)) IN
        IF parts = << >> THEN << >>
        ELSE <<Field(FlattenSeq([i \in DOMAIN parts |-> parts[i].value]),
                     FlattenSeq([i \in DOMAIN parts |-> parts[i].lines]), "section")>>
  IN Gather(doc, SectionsOf(doc, kind), Read)

ListFacts(doc, kind) ==
  LET Read(lines) ==
        LET parts == OrElse(ListItems(doc, lines), Paragraphs(doc, lines)) IN
        [i \in DOMAIN parts |-> Field(parts[i].value, parts[i].lines, "list")]
  IN Gather(doc, SectionsOf(doc, kind), Read)

SpecFields(doc) ==
  LET Read(lines) ==
        LET kv == KeyValues(doc, lines) IN
        [i \in DOMAIN kv |->
           Field([label |-> kv[i].label, value |-> kv[i].value], <<kv[i].line>>, "key-value")]
  IN Gather(doc, SectionsOf(doc, "specifications") \o SectionsOf(doc, "hardware")
                  \o SectionsOf(doc, "features"), Read)

\* _pin: the first two cells of a row without a header, or the cells under
\* "number", "name" and "function".  An empty cell is refused by ModulePin.
Pin(cells, header) ==
  LET under(kind) ==
        LET at == {i \in DOMAIN cells \cap DOMAIN header :
                     header[i] = kind /\ cells[i] # NoText}
        IN IF at = {} THEN NoText ELSE cells[Min(at)]
  IN
  IF header = << >>
    THEN [id |-> cells[1], function |-> cells[2]]
    ELSE [id |-> IF under("number") # NoText THEN under("number") ELSE under("name"),
          function |-> IF under("function") # NoText THEN under("function")
                       ELSE Last(cells)]

Pins(doc) ==
  LET Read(lines) ==
        LET rows == TableRows(doc, lines)
            labels(n) == [i \in DOMAIN doc.lines[n].cells |-> KindOfLabel[doc.lines[n].cells[i]]]
            headed == rows # << >>
                      /\ \E k \in ToSet(labels(rows[1])) : k \in {"number", "name", "function"}
            header == IF headed THEN labels(rows[1]) ELSE << >>
            wide == SelectSeq(IF headed THEN Tail(rows) ELSE rows, LAMBDA n :
                      Len(doc.lines[n].cells) >= 2)
            kv == KeyValues(doc, lines)
        IN
        OrElse([i \in DOMAIN wide |->
                  Field(Pin(doc.lines[wide[i]].cells, header), <<wide[i]>>, "pin-table")],
               [i \in DOMAIN kv |->
                  Field([id |-> kv[i].label, function |-> kv[i].value],
                        <<kv[i].line>>, "pin-key-value")])
  IN Gather(doc, SectionsOf(doc, "pinout"), Read)

Resources(doc) ==
  LET Read(lines) ==
        LET linked == SelectSeq(lines, LAMBDA n : doc.lines[n].link # NoText) IN
        [i \in DOMAIN linked |-> Field(doc.lines[linked[i]].link, <<linked[i]>>, "link")]
  IN Gather(doc, SectionsOf(doc, "resources"), Read)

\* _images: of the preamble and of every section, all_lines.
Images(doc) ==
  LET pictures == SelectSeq(doc.safe, LAMBDA n : doc.lines[n].form = "image") IN
  FieldsAt(doc, pictures, "image")

\* The key-value lines of all sections (all_key_values).
Labelled(doc, kind) ==
  SelectSeq(FlattenSeq([i \in DOMAIN doc.headings |->
                          KeyValues(doc, doc.under[doc.headings[i]])]),
            LAMBDA kv : KindOfLabel[kv.label] = kind)

LabelFields(doc, kind, method) ==
  LET kv == Labelled(doc, kind) IN
  [i \in DOMAIN kv |-> Field(kv[i].value, <<kv[i].line>>, method)]

LabelFacts(doc, kind) == MergeFields(LabelFields(doc, kind, "label"))

Identifiers(doc, kind) ==
  MergeFields(FieldsAt(doc, Entries(doc, kind), "frontmatter")
              \o LabelFields(doc, kind, "identity"))

\* _primary_ics: labelled, or mentioned ("based on the ...") in any section.
PrimaryIcs(doc) ==
  LET mentions == SelectSeq(doc.safe, LAMBDA n :
        doc.lines[n].form # "heading" /\ doc.over[n] # 0 /\ doc.lines[n].part # NoText)
  IN
  MergeFields(LabelFields(doc, "primary-ic", "primary-ic")
              \o [i \in DOMAIN mentions |->
                    Field(doc.lines[mentions[i]].part, <<mentions[i]>>, "mention")])

Filled(doc, h) ==
  SelectSeq(doc.under[h], LAMBDA n : doc.lines[n].form \notin {"blank", "image", "rule"})

\* _unmapped_sections: the text of a section of no known kind is kept whole.
Unmapped(doc) ==
  LET unknown == SelectSeq(SectionsOf(doc, "none"), LAMBDA h : Filled(doc, h) # << >>) IN
  [i \in DOMAIN unknown |->
     Field([k \in DOMAIN Filled(doc, unknown[i]) |-> doc.lines[Filled(doc, unknown[i])[k]].text],
           Filled(doc, unknown[i]), "unmapped")]

\* The checks of ExtractedFacts on what was read: an identifier of 300
\* characters at most, pins with an identity and a function.  A failure is an
\* error of the stage: one row loses the page.
Refused(facts) ==
  \/ \E k \in {"model", "part_number", "primary_ics"} :
       \E f \in ToSet(facts[k]) : f.value \in LongTexts
  \/ \E f \in ToSet(facts.pins) : NoText \in {f.value.id, f.value.function}

\* _extract
Facts(doc) ==
  [titles |-> Titles(doc), summaries |-> Summaries(doc),
   descriptions |-> TextSections(doc, "description"),
   usage |-> TextSections(doc, "usage"),
   features |-> ListFacts(doc, "features"),
   applications |-> ListFacts(doc, "applications"),
   specifications |-> SpecFields(doc), pins |-> Pins(doc),
   resources |-> Resources(doc), images |-> Images(doc),
   model |-> Identifiers(doc, "model"),
   part_number |-> Identifiers(doc, "part_number"),
   manufacturers |-> LabelFacts(doc, "manufacturer"),
   interfaces |-> LabelFacts(doc, "interface"),
   primary_ics |-> PrimaryIcs(doc), unmapped |-> Unmapped(doc)]

\* Titles that differ in more than letter case.
Ambiguous(facts) == Cardinality({Casefold[f.value] : f \in ToSet(facts.titles)}) > 1

ExtractWarnings(doc, facts) ==
  LET when(test, code) == IF test THEN {code} ELSE {} IN
  ParseWarnings(doc.lines)
  \cup when(Ambiguous(facts), "ambiguous_title")
  \cup when(facts.summaries = << >>, "summary_missing")
  \cup when(facts.descriptions = << >>, "description_missing")
  \cup when(facts.specifications = << >>, "specifications_missing")
  \cup when(facts.pins = << >>, "module_pinout_missing")
  \cup when(facts.unmapped # << >>, "unknown_section")

\* extract: a page without a title and a page with a fact the model refuses
\* end the run.
ExtractError(doc) ==
  IF Titles(doc) = << >> THEN "seeed_title_missing"
  ELSE IF Refused(Facts(doc)) THEN "invalid_fact"
  ELSE "none"
=============================================================================
