---------------------------- MODULE MCAlgorithms ----------------------------
(***************************************************************************)
(* The pure algorithms of the system, each on every input of a small       *)
(* space: the stages of the pipeline and the KiCad index (MCCards), the    *)
(* plan of a legacy bundle (LegacyPlan) and the scores of duplicate        *)
(* candidates (DuplicateScores).  `input` is the input under               *)
(* examination; a step goes from the start to any of them.  What an        *)
(* algorithm promises is stated against a reference definition, or between *)
(* two of its results.                                                     *)
(*                                                                         *)
(* Texts of a bundle: a title, the same title spelt otherwise, a title     *)
(* naming one model, one naming another, one naming both.                  *)
(***************************************************************************)
EXTENDS MCCards

CONSTANTS plain, plainer, one, two, both, m1, m2

LegacyTitles == {plain, plainer, one, two, both}
LegacyTexts == LegacyTitles \cup {NoText, m1, m2}
NormalForms == [t \in LegacyTexts |-> IF t = plainer THEN plain ELSE t]
ModelsOf == [t \in LegacyTexts |-> CASE t \in {one, m1} -> {m1} [] t \in {two, m2} -> {m2}
                               [] t = both -> {m1, m2} [] OTHER -> {}]
Likeness ==
  [t \in LegacyTitles |-> [f \in LegacyTitles |->
     IF NormalForms[t] = NormalForms[f] THEN 100
     ELSE IF {t, f} = {one, two} THEN 97
     ELSE IF both \in {t, f} THEN 92
     ELSE 85]]
CategoryRows == [c \in {"parts", "boards"} |-> IF c = "parts" THEN {2, 3} ELSE {4}]

\* Texts of the scores: their words, and the likeness of two by trigrams.
TextWords == [t \in LegacyTexts |->
  CASE t \in {plain, plainer} -> {"p"} [] t = one -> {"p", "1"} [] t = two -> {"p", "2"}
    [] t = both -> {"p", "1", "2"} [] OTHER -> {}]
Trigrams == [t \in LegacyTexts |-> [u \in LegacyTexts |->
  IF NoText \in {t, u} THEN 0
  ELSE IF NormalForms[t] = NormalForms[u] THEN 20160
  ELSE IF {t, u} = {one, two} THEN 3024
  ELSE IF {t, u} = {plain, both} THEN 2016 ELSE 12096]]
HashBits == [x \in {"s1", "s2", "s3"} |->
  [y \in {"s1", "s2", "s3"} |-> IF x = y THEN 0 ELSE 16]]

LegacyBounds == [specs |-> 2, aliases |-> 2, images |-> 3, bytes |-> 5, offered |-> 2]

Plan == INSTANCE LegacyPlan WITH
  Words <- TextWords, Trigram <- Trigrams, Distance <- HashBits, Limit <- 1,
  Normal <- NormalForms, Models <- ModelsOf, Ratio <- Likeness,
  CategoryRange <- CategoryRows,
  CategoryKey <- [c \in DOMAIN CategoryRows |-> c], MaxMembers <- 2, MaxUnpacked <- 4,
  MaxMember <- 3, MaxRatio <- 2, MaxText <- 2, MaxDocument <- 2,
  MaxSpecs <- LegacyBounds.specs,
  MaxAliases <- LegacyBounds.aliases, MaxImages <- LegacyBounds.images,
  MaxImageBytes <- LegacyBounds.bytes, MaxImage <- 2, MaxSource <- 2,
  Considered <- 20, Offered <- LegacyBounds.offered

Pictures == [sha : {"s1", "s2"}, size : {1, 2}, decodes : BOOLEAN]
Picture(h) == [sha |-> h, size |-> 1, decodes |-> TRUE]
RowInputs ==
  {<<[row |-> 2, title |-> a, images |-> s], [row |-> 3, title |-> b, images |-> t],
     [row |-> 4, title |-> a, images |-> <<Picture("s1")>>]>> :
     a \in {plain, one}, b \in {plain, plainer, two},
     s \in {<< >>, <<Picture("s1")>>}, t \in {<<Picture("s1"), Picture("s2")>>, << >>}}

LegacySpecs == [label : {plain, plainer, one}, value : {"v", "w"}, unit : {NoText}]
LegacyDraft(d, as, ss) == [title |-> one, description |-> d, aliases |-> as,
                     specifications |-> ss]
LegacyIncoming(d, ss) == [title |-> two, description |-> d, aliases |-> <<plainer>>,
                    specifications |-> ss]
Short(S) == UNION {[1..n -> S] : n \in 0..2}

\* Documents: a text and a table of specifications, a caption and a table that
\* compares, a table longer than a card.
Value(l, v) == [label |-> l, value |-> v, unit |-> NoText]
TextOf(t, caption) == [kind |-> "text", text |-> t, caption |-> caption]
TableOf(rows, header) ==
  [kind |-> "table", rows |-> rows, merged |-> FALSE, width |-> 2, header |-> header,
   unitHeader |-> FALSE, numeric |-> FALSE]
Documents ==
  {<<TextOf(one, FALSE), TableOf(<<Value(two, "h"), Value(plain, "v"), Value(plainer, "w")>>, "value")>>,
   <<TextOf(two, TRUE), TableOf(<<Value(plain, "v"), Value(one, "w")>>, "none")>>,
   <<TableOf(<<Value(two, "h"), Value(plain, "v"), Value(one, "w"), Value(two, "w")>>, "value")>>}

Member(name, kind, category, folder) ==
  [name |-> name, kind |-> kind, plain |-> TRUE, project |-> FALSE, size |-> 2, packed |-> 1,
   folder |-> [category |-> category, name |-> folder],
   image |-> [sha |-> "s2", size |-> 2, decodes |-> TRUE], document |-> << >>]
Photo == Member("p", "image", "parts", plain)
DocumentAt(name, f, d) == [Member(name, "docx", "parts", f) EXCEPT !.document = d]
Members ==
  {Photo, [Photo EXCEPT !.project = TRUE], [Photo EXCEPT !.plain = FALSE],
   [Photo EXCEPT !.size = 3], [Photo EXCEPT !.name = "d"], [Photo EXCEPT !.image.size = 3],
   Member("q", "image", "boards", plain)}
  \cup {DocumentAt("d", f, d) : f \in {plain, one}, d \in Documents}
  \cup {DocumentAt("e", plain, d) : d \in Documents}
Relationships == {{}, {[id |-> 1, external |-> TRUE, inside |-> FALSE, target |-> "t"],
                       [id |-> 2, external |-> FALSE, inside |-> TRUE, target |-> "t"]},
                  {[id |-> 1, external |-> FALSE, inside |-> FALSE, target |-> "t"]}}
Sheet(t, n, u) ==
  <<[row |-> 2, title |-> t, images |-> <<Picture("s1")>>], [row |-> n, title |-> u, images |-> << >>]>>
Books ==
  [members : {<<Photo>>}, relations : {{}},
   rows : {Sheet(t, n, u) : n \in {3, 4, 5}, t \in {plain, one}, u \in {plainer, both}}]
  \cup [members : {<<Photo>>, <<Photo, Photo>>}, relations : Relationships,
        rows : {Sheet(plain, 4, both)}]

\* Cards an item could be merged into.
OfferCard(c, t, o, as, ps, p) ==
  [category |-> c, status |-> "draft", published |-> p]
  @@ [title |-> t, maker |-> NoText, model |-> o, aliases |-> as, specs |-> << >>, texts |-> {},
      pictures |-> ps, hashes |-> ps, archived |-> FALSE]
OfferCards ==
  {OfferCard(c, t, o, as, ps, p) : c \in {"parts", "boards"}, t \in {plain, one, both},
     o \in {NoText, m1, m2}, as \in {{}, {plainer}}, ps \in {{}, {"s1"}}, p \in BOOLEAN}
Rivals == {OfferCard("parts", plain, NoText, {}, {"s2"}, FALSE),
           OfferCard("parts", one, m1, {}, {"s1"}, FALSE),
           OfferCard("boards", both, m2, {plainer}, {}, FALSE)}

LegacyInputs ==
  [kind : {"workbook"}, rows : RowInputs]
  \cup [kind : {"folder"}, title : LegacyTitles, folders : SUBSET LegacyTitles]
  \cup {[kind |-> "merge", draft |-> LegacyDraft(d, al, ss), incoming |-> LegacyIncoming(e, ts)] :
          d \in {NoText, plain}, e \in {one}, al \in {<< >>, <<plain>>, <<both>>},
          ss \in [1..1 -> LegacySpecs], ts \in Short(LegacySpecs)}
  \cup [kind : {"images"}, had : Short(Pictures), refs : Short(Pictures)]
  \cup [kind : {"bundle"}, book : Books,
        archive : [1..1 -> Members] \cup [1..2 -> Members] \cup {<<Photo, Photo, Photo>>}]
  \cup {[kind |-> "offer", target |-> Plan!NewTarget([row |-> 2, title |-> t, images |-> s]),
          active |-> cs, cards |-> <<c, d, e>>] :
           t \in {plain, plainer, one}, s \in {<< >>, <<Picture("s1")>>},
           cs \in {{"parts"}, {"boards"}}, c \in OfferCards, d \in Rivals, e \in Rivals}

Scores == INSTANCE DuplicateScores WITH
  Normal <- NormalForms, Words <- TextWords, Trigram <- Trigrams,
  Distance <- HashBits, Limit <- 1

ScoredCard(t, m, o, ss, ps, gone) ==
  [title |-> t, maker |-> m, model |-> o, aliases |-> {}, specs |-> ss,
   texts |-> {NormalForms[t]}, pictures |-> ps, hashes |-> ps, archived |-> gone]
SpecLists == {<< >>, <<<<plain, one>>>>, <<<<plainer, two>>, <<one, two>>>>,
              <<<<plain, two>>, <<plainer, one>>>>}
ScoredCards ==
  {ScoredCard(t, m, NoText, ss, ps, FALSE) : t \in {plain, two}, m \in {NoText, one, two},
     ss \in SpecLists, ps \in {{}, {"s1"}, {"s1", "s2"}}}
Shelf ==
  {ScoredCard(t, NoText, o, << >>, {}, gone) :
     t \in {one, two}, o \in {NoText, plain, plainer}, gone \in BOOLEAN}

ScoreInputs ==
  [kind : {"pair"}, a : ScoredCards, b : ScoredCards]
  \cup {[kind |-> "shelf", cards |-> <<c, d, e>>, open |-> o] :
           c \in Shelf, d \in Shelf, e \in Shelf,
           o \in {<< >>, [p \in {{1, 2}} |-> 8000]}}

ExamineScores ==
  /\ input.kind = "none"
  /\ input' \in ScoreInputs
  /\ UNCHANGED <<outcome, indexerVars>>

ExamineLegacy ==
  /\ input.kind = "none"
  /\ input' \in LegacyInputs
  /\ UNCHANGED <<outcome, indexerVars>>

AlgorithmsNext == Next \/ ExamineLegacy \/ ExamineScores
AlgorithmsSpec == Init /\ [][AlgorithmsNext]_<<input, outcome, indexerVars>>

\* The folder of a target, if one was taken.
FromFolder(m, t) ==
  /\ t.match = "auto" /\ ~ m.project
  /\ m.folder = [category |-> t.identity[1], name |-> t.folder]

\* The analysis loses nothing of the workbook and guesses nothing: every row
\* and every picture is in the one target of its category and title; a folder
\* is taken unasked only if it names no other model and no other folder comes
\* near it; what else a target says comes from that folder, a folder gives all
\* its texts, and a card is created unasked only if it can hold every
\* specification (workbook_targets, rank_folders, enrich, save_analysis).
AnalysisKeepsTheWorkbook ==
  /\ input.kind = "workbook" => Plan!RowsAreKept(input.rows)
  /\ input.kind = "folder" =>
       LET m == Plan!Match(input.title, input.folders)
           score(f) == Plan!FolderScore(input.title, f)
       IN
       m.match = "auto" =>
         /\ {} \in {ModelsOf[input.title], ModelsOf[m.folder]}
            \/ ModelsOf[input.title] = ModelsOf[m.folder]
         /\ \A f \in input.folders \ {m.folder} :
              \/ score(m.folder) >= score(f) + 10
              \/ score(m.folder) = 100 /\ score(f) < 100
  /\ input.kind = "bundle" /\ ~ Plan!Refused(input.book, input.archive) =>
       \A t \in ToSet(Plan!Analyzed(input.book.rows, input.archive)) :
         LET folder == {m \in ToSet(input.archive) : FromFolder(m, t)}
             parts == UNION {ToSet(m.document) : m \in folder}
             listed == UNION {ToSet(e.rows) : e \in {x \in parts : x.kind = "table"}}
             draft == Plan!DraftData(t)
         IN
         /\ ToSet(t.specifications) \subseteq listed
         /\ {i.sha : i \in ToSet(t.images)} \subseteq
              {"s1"} \cup {m.image.sha : m \in {x \in folder : x.kind = "image"}}
         /\ \A e \in parts : e.kind = "text" /\ ~ e.caption => e \in ToSet(t.description)
         /\ Plan!Decision(t, << >>, FALSE) = "create" =>
              /\ t.match # "review"
              /\ Len(draft.specifications) <= LegacyBounds.specs
              /\ \A s \in ToSet(t.specifications) :
                   \E d \in ToSet(draft.specifications) : Plan!SpecKey(d) = Plan!SpecKey(s)

\* Applying an item adds to a card and takes nothing from it: what the draft
\* says stays, merging the same item again changes nothing, and a card gets no
\* picture twice and never more than it may hold (merge_data, ingest_images).
\* And it is not applied beside a card that is there: a card of that title in
\* the category, of the model or with the picture is offered for the merge,
\* unless as many with a better score are; and of two items that name different
\* models a card that names one takes at most one (candidates).
ApplyingOnlyAdds ==
  /\ input.kind = "merge" => Plan!MergeOnlyAdds(input.draft, input.incoming)
  /\ input.kind = "images" => Plan!ImagesFit(input.had, input.refs)
  /\ input.kind = "offer" /\ Plan!CategoryId(input.target, input.active) # NoText =>
       LET t == input.target
           category == Plan!CategoryId(t, input.active)
           offers == Plan!Candidates(t, category, input.cards)
           same(c) ==
             \/ c.category = category /\ NormalForms[c.title] = NormalForms[t.title]
             \/ c.model \in ModelsOf[t.title]
             \/ c.pictures \cap Plan!Shas(t) # {}
       IN
       /\ \A k \in DOMAIN input.cards :
            same(input.cards[k]) =>
              \/ k \in DOMAIN offers
              \/ /\ Cardinality(DOMAIN offers) = LegacyBounds.offered
                 /\ \A o \in DOMAIN offers :
                      offers[o].score >= Plan!CandidateScore(t, input.cards[k])
       /\ LET others == Plan!Candidates([t EXCEPT !.title = two], category, input.cards) IN
          \A k \in DOMAIN offers \cap DOMAIN others :
            /\ offers[k].merge_allowed /\ others[k].merge_allowed
            /\ t.title = one
            => input.cards[k].model = NoText /\ ModelsOf[input.cards[k].title] = {}

\* A pair of cards has one score whichever of them was the new one: the score
\* is the same from both sides, whole for a copy, not lowered by a picture put
\* on both cards when both have pictures or neither has, and a generation from
\* the other side leaves every row as it found or wrote it, none for a card
\* that is archived (score_pair, FuzzyCandidateService.generate).
ScoresAgree ==
  /\ input.kind = "pair" =>
       LET a == input.a
           b == input.b
           alike == Scores!Similarity(a, b)
           with(c) == [c EXCEPT !.pictures = @ \cup {"s3"}, !.hashes = @ \cup {"s3"}]
       IN
       /\ Scores!ScorePair(a, b, alike) = Scores!ScorePair(b, a, alike)
       /\ a = b => Scores!ScorePair(a, b, alike) = Scores!Scale
       /\ (a.pictures = {}) = (b.pictures = {}) =>
            Scores!ScorePair(with(a), with(b), alike) >= Scores!ScorePair(a, b, alike)
  /\ input.kind = "shelf" => Scores!GenerationsAgree(input.open, input.cards, 1, 2)
=============================================================================
