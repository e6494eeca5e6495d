----------------------------- MODULE LegacyPlan -----------------------------
(***************************************************************************)
(* What the analysis of a legacy bundle reads out of the workbook and the  *)
(* archive, and what is made of it (legacy/parser.py, legacy/planning.py,  *)
(* ingest_images of legacy/processor.py).  Pure functions: texts are model *)
(* values compared by their normal form, a digest is the value it is taken *)
(* of, the text similarity of two titles is a parameter.                   *)
(***************************************************************************)
EXTENDS Naturals, FiniteSets, Sequences, SequencesExt

CONSTANTS
  Words, Trigram, Distance, Limit,                 \* of DuplicateScores
  Normal,          \* normalize: the normal form of a text
  Models,          \* the model numbers in a text
  Ratio,           \* SequenceMatcher.ratio of two titles, in percent
  CategoryRange,   \* CATEGORY_RANGES: the rows of a category
  CategoryKey,     \* CATEGORY_KEYS: the category of the catalogue
  NoText,          \* an empty text, an absent unit
  MaxMembers, MaxUnpacked, MaxMember, MaxRatio,    \* validate_archive
  MaxText,         \* texts of a description: 30000 characters
  MaxDocument,     \* specifications of a document: 200
  MaxSpecs,        \* specifications of a card: 50
  MaxAliases,      \* aliases of a card: 20
  MaxImages,       \* images of a card: 12
  MaxImageBytes,   \* their bytes: 600 MiB
  MaxImage,        \* bytes of one image: 8 MiB
  MaxSource,       \* bytes of one image of the bundle: 16 MiB
  Considered,      \* cards scored for a target: 20
  Offered          \* cards offered for a target: 5

Scores == INSTANCE DuplicateScores

Sum(f, s) == FoldLeft(LAMBDA n, x : n + f[x], 0, s)

\* Appended unless an element with the same key is there already.
AppendNew(s, x, key(_)) ==
  IF \E k \in DOMAIN s : key(s[k]) = key(x) THEN s ELSE Append(s, x)

DistinctBy(s, key(_)) == FoldLeft(LAMBDA t, x : AppendNew(t, x, key), << >>, s)

\* The values of a Python dict filled in order: a key keeps its first place
\* and takes its last value.
PutBy(s, x, key(_)) ==
  LET same == {k \in DOMAIN s : key(s[k]) = key(x)} IN
  IF same = {} THEN Append(s, x) ELSE [s EXCEPT ![CHOOSE k \in same : TRUE] = x]

DictBy(s, key(_)) == FoldLeft(LAMBDA t, x : PutBy(t, x, key), << >>, s)

-----------------------------------------------------------------------------
(* Archives and the relationships of their parts.                          *)

\* validate_archive: bounded in number and size, every member plain (no
\* absolute or climbing path, no link, not encrypted), no name twice.
ArchiveAccepted(members) ==
  /\ Len(members) <= MaxMembers
  /\ Sum([m \in ToSet(members) |-> m.size], members) <= MaxUnpacked
  /\ \A k \in DOMAIN members :
       LET m == members[k] IN
       /\ m.plain
       /\ \A n \in 1..(k - 1) : members[n].name # m.name
       /\ m.size <= MaxMember
       /\ m.size <= MaxRatio * (IF m.packed > 1 THEN m.packed ELSE 1)

\* relationships: where the internal links of a part lead; one that leads out
\* of the archive refuses the bundle.
RelationsAccepted(rels) == \A r \in rels : r.external \/ r.inside
Relations(rels) ==
  LET internal == {r \in rels : ~ r.external} IN
  [i \in {r.id : r \in internal} |->
     (CHOOSE r \in internal : r.id = i).target]

-----------------------------------------------------------------------------
(* The workbook: one target for every category and title.                  *)

CategoriesOf(n) == {c \in DOMAIN CategoryRange : n \in CategoryRange[c]}

\* Every row is of the layout the parser knows.
WorkbookAccepted(rows) == \A k \in DOMAIN rows : CategoriesOf(rows[k].row) # {}

Identity(r) ==
  <<CHOOSE c \in CategoriesOf(r.row) : TRUE, Normal[r.title]>>

Sha(image) == image.sha

\* The images of a repeated row join those of the first, each checksum once.
JoinImages(previous, images) == DictBy(previous \o images, Sha)

NewTarget(r) ==
  [identity |-> Identity(r), title |-> r.title, rows |-> <<r.row>>,
   images |-> DictBy(r.images, Sha), description |-> << >>,
   specifications |-> << >>, warnings |-> {"license_unknown"}]

AddRow(targets, r) ==
  LET same == {k \in DOMAIN targets : targets[k].identity = Identity(r)} IN
  IF same = {} THEN Append(targets, NewTarget(r))
  ELSE LET k == CHOOSE x \in same : TRUE
           target == targets[k]
       IN [targets EXCEPT ![k] = [target EXCEPT !.rows = Append(@, r.row),
                                                !.images = JoinImages(@, r.images)]]

\* workbook_targets: rows in the order of the sheet.
WorkbookTargets(rows) == FoldLeft(AddRow, << >>, rows)

-----------------------------------------------------------------------------
(* The folder of a target.                                                 *)

\* folder_index: pictures and documents by folder, projects left out.
FolderIndex(members) ==
  LET kept == SelectSeq(members, LAMBDA m : m.kind # "other" /\ ~ m.project) IN
  [f \in {m.folder : m \in ToSet(kept)} |->
     SelectSeq(kept, LAMBDA m : m.folder = f)]

\* Mutant: other models of the same board count as that board.
FolderScoreByText(title, folder) ==
  IF Normal[title] = Normal[folder] THEN 100 ELSE Ratio[title][folder]

Larger(m, n) == IF m > n THEN m ELSE n
Smaller(m, n) == IF m < n THEN m ELSE n

\* The models named on both sides decide before the text does.
FolderScore(title, folder) ==
  LET wanted == Models[title]
      found == Models[folder]
  IN
  IF Normal[title] = Normal[folder] THEN 100
  ELSE IF wanted # {} /\ found # {} /\ wanted \cap found = {} THEN 0
  ELSE IF wanted # {} /\ wanted = found THEN Larger(Ratio[title][folder], 95)
  ELSE IF wanted # {} /\ found # {} THEN Smaller(Ratio[title][folder], 79)
  ELSE Ratio[title][folder]

\* rank_folders: the likely folders of the target's category, best first.
\* (The cut to five is left out: there are never that many here.)
RankFolders(title, folders) ==
  LET score(f) == FolderScore(title, f) IN
  SetToSortSeq({f \in folders : score(f) >= 60},
               LAMBDA f, g : score(f) > score(g))

\* Taken without asking when it is good and alone, far ahead, or exact.
Automatic(title, ranked) ==
  LET score(k) == FolderScore(title, ranked[k]) IN
  /\ Len(ranked) >= 1 /\ score(1) >= 90
  /\ \/ Len(ranked) = 1
     \/ score(1) >= score(2) + 10
     \/ score(1) = 100 /\ score(2) < 100

Match(title, folders) ==
  LET ranked == RankFolders(title, folders) IN
  IF Automatic(title, ranked) THEN [match |-> "auto", folder |-> ranked[1]]
  ELSE [match |-> IF ranked = << >> THEN "unmatched" ELSE "review",
        folder |-> NoText]

\* read_docx on a table: specifications only if it is plainly one, two columns
\* headed by a value or all numeric, three if the last is a unit.
PlainTable(t) ==
  /\ t.rows # << >> /\ ~ t.merged
  /\ t.width = 2 \/ (t.width = 3 /\ t.header = "value" /\ t.unitHeader)
  /\ t.header = "value" \/ (t.header = "none" /\ t.numeric /\ t.width = 2)

TableSpecifications(t) ==
  IF ~ PlainTable(t) THEN << >>
  ELSE SelectSeq(IF t.header = "none" THEN t.rows ELSE Tail(t.rows),
                 LAMBDA s : s.label # NoText /\ s.value # NoText)

\* read_docx: texts and tables in order; a caption is left out, and a table
\* that is no list of specifications stays as a text.
ReadDocx(document) ==
  LET kept == SelectSeq(document,
                LAMBDA e : IF e.kind = "text" THEN e.text # NoText /\ ~ e.caption
                           ELSE e.rows # << >>)
      tables == SelectSeq(kept, LAMBDA e : e.kind = "table")
  IN
  [description |-> kept,
   specifications |-> FoldLeft(LAMBDA s, t : s \o TableSpecifications(t), << >>, tables),
   warnings |-> IF \A t \in ToSet(tables) : PlainTable(t) THEN {}
                ELSE {"complex_table_preserved"}]

\* enrich: what the documents and pictures of the folder add to a target.
AddMember(target, member) ==
  IF member.kind = "image"
    THEN [target EXCEPT !.images = JoinImages(@, <<member.image>>)]
  ELSE
    LET read == ReadDocx(member.document) IN
    [target EXCEPT !.description = @ \o read.description,
                   !.specifications = @ \o read.specifications,
                   !.warnings = @ \cup read.warnings]

Enrich(target, members) ==
  LET full == FoldLeft(AddMember, target, members) IN
  [full EXCEPT
     !.warnings = @ \cup (IF Len(full.images) > MaxImages
                            THEN {"image_card_limit_review_required"} ELSE {})
                   \cup (IF full.description = << >>
                            THEN {"description_missing"} ELSE {})]

\* analyze: every target with what its folder adds, if one is taken.
Analyzed(rows, archive) ==
  LET folders == FolderIndex(archive)
      analyzed(t) ==
        LET m == Match(t.title, {f.name : f \in {g \in DOMAIN folders :
                                                   g.category = t.identity[1]}})
            folder == [category |-> t.identity[1], name |-> m.folder]
        IN Enrich(t, IF m.match = "auto" THEN folders[folder] ELSE << >>) @@ m
  IN [k \in DOMAIN WorkbookTargets(rows) |-> analyzed(WorkbookTargets(rows)[k])]

\* What refuses the whole bundle; book is the workbook.
Refused(book, archive) ==
  \/ ~ ArchiveAccepted(book.members) \/ ~ ArchiveAccepted(archive)
  \/ ~ RelationsAccepted(book.relations) \/ ~ WorkbookAccepted(book.rows)
  \/ \E t \in ToSet(Analyzed(book.rows, archive)) :
       \/ \E i \in ToSet(t.images) : i.size > MaxSource
       \/ t.match = "auto" /\ \E m \in ToSet(archive) :
            /\ m.kind = "docx" /\ ~ m.project
            /\ m.folder = [category |-> t.identity[1], name |-> t.folder]
            /\ Len(ReadDocx(m.document).specifications) > MaxDocument

-----------------------------------------------------------------------------
(* From a plan to a draft.                                                 *)

\* draft_data: one specification for each label and unit.
SpecKey(s) == <<Normal[s.label], Normal[s.unit]>>
DraftSpecs(specs) == DistinctBy(specs, SpecKey)

ExceedsDraftLimits(target) ==
  Len(target.description) > MaxText \/ Len(target.specifications) > MaxSpecs

DraftData(target) ==
  [title |-> target.title, aliases |-> << >>,
   description |-> IF target.description = << >> THEN NoText ELSE target.description,
   specifications |-> DraftSpecs(target.specifications)]

\* Mutant: the incoming value of a label that is there already wins.
MergeSpecOver(specs, s) ==
  LET same == {k \in DOMAIN specs :
                 Normal[specs[k].label] = Normal[s.label]} IN
  IF same = {} THEN Append(specs, s)
  ELSE [specs EXCEPT ![CHOOSE k \in same : TRUE] = s]

\* merge_data on one specification: a label the draft has keeps its value.
MergeSpec(specs, s) ==
  IF \/ \E k \in DOMAIN specs : Normal[specs[k].label] = Normal[s.label]
     \/ Len(specs) >= MaxSpecs
  THEN specs ELSE Append(specs, s)

MergeAlias(title, aliases, a) ==
  IF Normal[a] \in {Normal[b] : b \in ToSet(aliases) \cup {title}}
     \/ Len(aliases) >= MaxAliases
  THEN aliases ELSE Append(aliases, a)

MergeSpecs(specs, new) == FoldLeft(MergeSpec, specs, new)
MergeAliases(title, aliases, names) ==
  FoldLeft(LAMBDA s, a : MergeAlias(title, s, a), aliases, names)

KeepText(existing, incoming) == IF existing = NoText THEN incoming ELSE existing

MergeData(existing, incoming) ==
  [existing EXCEPT
     !.description = KeepText(@, incoming.description),
     !.aliases = MergeAliases(existing.title, @, incoming.aliases \o <<incoming.title>>),
     !.specifications = MergeSpecs(@, incoming.specifications)]

-----------------------------------------------------------------------------
(* The cards a target could be merged into.                                *)

Shas(target) == {i.sha : i \in ToSet(target.images)}

\* category_id: without an active category there is no plan for the bundle.
CategoryId(target, active) ==
  IF CategoryKey[target.identity[1]] \in active THEN CategoryKey[target.identity[1]]
  ELSE NoText

\* The scorer's view of a target.
SignalsOf(target) ==
  [title |-> target.title, maker |-> NoText, model |-> NoText, aliases |-> {},
   specs |-> [n \in DOMAIN target.specifications |->
                <<target.specifications[n].label, target.specifications[n].value>>],
   texts |-> IF target.description = << >> THEN {} ELSE {target.description},
   pictures |-> Shas(target), hashes |-> {}]

SameModel(target, card) == card.model \in Models[target.title]
SharesImage(target, card) == Shas(target) \cap card.pictures # {}

\* The order of the query: same model, same alias, same picture, similarity.
QueryRank(target, card) ==
  LET points(test, n) == IF test THEN n ELSE 0 IN
  (points(SameModel(target, card), 4) + points(target.title \in card.aliases, 2)
    + points(SharesImage(target, card), 1)) * (Scores!Scale + 1)
  + Trigram[card.title][target.title]

Queried(target, category, cards) ==
  LET found == {c \in DOMAIN cards :
        \/ /\ cards[c].category = category
           /\ Trigram[cards[c].title][target.title] >= Scores!Percent(15)
        \/ SameModel(target, cards[c]) \/ target.title \in cards[c].aliases
        \/ SharesImage(target, cards[c])}
      rank(c) == QueryRank(target, cards[c])
      above(c) == {d \in found : rank(d) > rank(c) \/ (rank(d) = rank(c) /\ d < c)}
  IN {c \in found : Cardinality(above(c)) < Considered}

CandidateScore(target, card) ==
  Scores!ScorePair(SignalsOf(target), card, Scores!Percent(Ratio[target.title][card.title]))

ModelConflict(target, card) ==
  LET found == Models[card.title] \cup Models[card.model] IN
  {} \notin {Models[target.title], found} /\ Models[target.title] # found

\* A title, a model or an alias it shares makes a card a candidate whatever
\* its score.
StrongIdentity(target, card) ==
  \/ Normal[card.model] \in Models[target.title]
  \/ Normal[target.title] \in {Normal[a] : a \in card.aliases}

IsCandidate(target, card) ==
  \/ CandidateScore(target, card) >= Scores!Percent(35)
  \/ Normal[target.title] = Normal[card.title]
  \/ StrongIdentity(target, card)
  \/ SharesImage(target, card)

\* candidates: the best five, and whether the item may be merged into each.
Candidates(target, category, cards) ==
  LET found == {c \in Queried(target, category, cards) : IsCandidate(target, cards[c])}
      score(c) == CandidateScore(target, cards[c])
      above(c) == {d \in found : score(d) > score(c) \/ (score(d) = score(c) /\ d < c)}
  IN [c \in {d \in found : Cardinality(above(d)) < Offered} |->
        [score |-> score(c),
         merge_allowed |-> /\ cards[c].status = "draft" /\ ~ cards[c].published
                           /\ cards[c].category = category
                           /\ ~ ModelConflict(target, cards[c])]]

\* save_analysis: what is planned for a target; `known` says that its identity
\* has a card.  Only a "review" item waits for a decision.
Decision(target, matches, known) ==
  CASE known -> "skip"
    [] ~ known /\ (matches # << >> \/ target.match = "review" \/ ExceedsDraftLimits(target))
         -> "review"
    [] OTHER -> "create"

-----------------------------------------------------------------------------
(* The pictures of an item.                                                *)

Bytes(s) == FoldLeft(LAMBDA n, i : n + i.size, 0, s)

\* May the image be attached to a card that has `had` and is given `s`?
Fits(had, s, image) ==
  /\ Len(had) + Len(s) < MaxImages
  /\ Bytes(had) + Bytes(s) + image.size <= MaxImageBytes
  /\ image.size <= MaxImage

\* ingest_images: the images of the plan the card does not have and has room
\* for, in order; an image that cannot be decoded is left out.
Attach(had, s, image) ==
  IF image.sha \in {i.sha : i \in ToSet(had \o s)} \/ ~ Fits(had, s, image)
     \/ ~ image.decodes
  THEN s ELSE Append(s, image)

IngestImages(had, refs) == FoldLeft(LAMBDA s, i : Attach(had, s, i), << >>, refs)

-----------------------------------------------------------------------------
(* What the plan promises of the workbook and of the cards it goes into.   *)

\* Every row is in the one target of its category and title, which has each
\* of its pictures once (workbook_targets).
RowsAreKept(rows) ==
  LET targets == WorkbookTargets(rows) IN
  \A k \in DOMAIN rows :
    /\ \E t \in ToSet(targets) :
         /\ rows[k].row \in ToSet(t.rows) /\ t.identity = Identity(rows[k])
         /\ \A i \in ToSet(rows[k].images) : i.sha \in Shas(t)
         /\ IsInjective([n \in DOMAIN t.images |-> t.images[n].sha])
    /\ \A m, n \in DOMAIN targets :
         /\ rows[k].row \in ToSet(targets[m].rows)
         /\ rows[k].row \in ToSet(targets[n].rows)
         => m = n

\* What a draft says stays, within the limits of a card, and merging the same
\* item again changes nothing (merge_data).
MergeOnlyAdds(existing, incoming) ==
  LET merged == MergeData(existing, incoming) IN
  /\ IsPrefix(existing.specifications, merged.specifications)
  /\ IsPrefix(existing.aliases, merged.aliases)
  /\ existing.description \in {NoText, merged.description}
  /\ Len(merged.specifications) <= MaxSpecs
  /\ Len(merged.aliases) <= MaxAliases
  /\ MergeData(merged, incoming) = merged

\* A card gets no picture twice and never more than it may hold
\* (ingest_images).
ImagesFit(had, refs) ==
  LET given == IngestImages(had, refs) IN
  /\ given # << >> => /\ Len(had) + Len(given) <= MaxImages
                       /\ Bytes(had) + Bytes(given) <= MaxImageBytes
  /\ IsInjective([n \in DOMAIN given |-> given[n].sha])
  /\ {i.sha : i \in ToSet(given)} \cap {i.sha : i \in ToSet(had)} = {}
=============================================================================
