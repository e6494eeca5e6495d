------------------------- MODULE Algorithms_proofs -------------------------
(***************************************************************************)
(* Theorems about the pure algorithms: the plan of a legacy bundle and     *)
(* what it adds to a card (LegacyPlan), the scores of duplicates           *)
(* (DuplicateScores), the KiCad index (KicadIndexer) and the route of a      *)
(* draft (CardComposition), for inputs of any length.  A fold over an      *)
(* input is an instance of FoldTheorems: what its step keeps the fold      *)
(* keeps, what its step takes in the fold takes in.                        *)
(***************************************************************************)
EXTENDS LegacyPlan, KicadIndexer, Integers, SequenceTheorems, FiniteSetTheorems, TLAPS

CONSTANTS
  title, had,          \* of the card a plan is applied to
  KindOfHeading, KindOfLabel, Casefold, LongTexts, Registry, ProfileTokens, CategoryRules,
  KindRules, Alphabet, Key, CanonicalPart, ManufacturerOf, InterfacesIn, Reading, UnitAt,
  ExactKey, SheetOf, NumberIn, OnboardWords, HintWords, PathKinds, RejectBelow, ReadyFrom
                       \* of the cards of the pipeline

-----------------------------------------------------------------------------
(* Sequences that are only ever appended to.                               *)

Extends(s, t) == Len(s) <= Len(t) /\ \A k \in 1 .. Len(s) : t[k] = s[k]

LEMMA ExtendsItself == ASSUME NEW X, NEW s \in Seq(X)  PROVE  Extends(s, s)
BY DEF Extends

LEMMA ExtendsOn ==
  ASSUME NEW X, NEW s \in Seq(X), NEW t \in Seq(X), NEW x \in X, Extends(s, t)
  PROVE  Extends(s, Append(t, x))
BY DEF Extends

LEMMA ExtendsPrefix ==
  ASSUME NEW X, NEW s \in Seq(X), NEW t \in Seq(X), Extends(s, t)
  PROVE  IsPrefix(s, t)
BY DEF Extends, IsPrefix

-----------------------------------------------------------------------------
(* Merging specifications and aliases.                                     *)

MergingSpecs == INSTANCE FoldTheorems WITH Op <- MergeSpec

IntoAliases(s, a) == MergeAlias(title, s, a)
MergingAliases == INSTANCE FoldTheorems WITH Op <- IntoAliases

\* What merging makes of the specifications of a card.
SpecsOver(Specs, base) == {t \in Seq(Specs) : Extends(base, t) /\ Len(t) <= MaxSpecs}
AliasesOver(Texts, base) == {t \in Seq(Texts) : Extends(base, t) /\ Len(t) <= MaxAliases}

\* A specification that merging leaves out.
SpecRests(t, s) ==
  Len(t) >= MaxSpecs \/ \E k \in DOMAIN t : Normal[t[k].label] = Normal[s.label]
AliasRests(t, a) ==
  Len(t) >= MaxAliases \/ Normal[a] \in {Normal[b] : b \in ToSet(t) \cup {title}}

LEMMA SpecStep ==
  ASSUME NEW Specs, NEW base \in Seq(Specs), MaxSpecs \in Nat,
         NEW t \in SpecsOver(Specs, base), NEW s \in Specs
  PROVE  MergeSpec(t, s) \in SpecsOver(Specs, base) /\ SpecRests(MergeSpec(t, s), s)
<1>1. t \in Seq(Specs) /\ Extends(base, t) /\ Len(t) <= MaxSpecs /\ Len(t) \in Nat
  BY DEF SpecsOver
<1>2. CASE SpecRests(t, s)
  <2>1. MergeSpec(t, s) = t
    BY <1>1, <1>2 DEF MergeSpec, SpecRests
  <2>2. QED BY <1>2, <2>1
<1>3. CASE ~ SpecRests(t, s)
  <2>1. MergeSpec(t, s) = Append(t, s) /\ Len(t) < MaxSpecs
    BY <1>1, <1>3 DEF MergeSpec, SpecRests
  <2>2. /\ Append(t, s) \in Seq(Specs) /\ Len(Append(t, s)) = Len(t) + 1
        /\ Append(t, s)[Len(t) + 1] = s /\ Len(t) + 1 \in DOMAIN Append(t, s)
    BY <1>1
  <2>3. Extends(base, Append(t, s))
    BY <1>1, ExtendsOn
  <2>4. Append(t, s) \in SpecsOver(Specs, base)
    BY <1>1, <2>1, <2>2, <2>3 DEF SpecsOver
  <2>5. SpecRests(Append(t, s), s)
    BY <2>2 DEF SpecRests
  <2>6. QED BY <2>1, <2>4, <2>5
<1>4. QED BY <1>2, <1>3

LEMMA SpecRestsOn ==
  ASSUME NEW Specs, NEW base \in Seq(Specs), MaxSpecs \in Nat,
         NEW t \in SpecsOver(Specs, base), NEW s \in Specs, NEW r \in Specs, SpecRests(t, r)
  PROVE  SpecRests(MergeSpec(t, s), r)
<1>1. t \in Seq(Specs) /\ Len(t) \in Nat
  BY DEF SpecsOver
<1>2. /\ Len(Append(t, s)) = Len(t) + 1
      /\ \A k \in DOMAIN t : k \in DOMAIN Append(t, s) /\ Append(t, s)[k] = t[k]
  BY <1>1
<1>3. SpecRests(Append(t, s), r)
  BY <1>1, <1>2 DEF SpecRests
<1>4. MergeSpec(t, s) \in {t, Append(t, s)}
  BY DEF MergeSpec
<1>5. QED BY <1>3, <1>4

LEMMA SpecsMerged ==
  ASSUME NEW Specs, NEW base \in Seq(Specs), NEW new \in Seq(Specs), MaxSpecs \in Nat,
         Len(base) <= MaxSpecs
  PROVE  LET merged == MergeSpecs(base, new) IN
         merged \in SpecsOver(Specs, base) /\ MergeSpecs(merged, new) = merged
<1> DEFINE A == SpecsOver(Specs, base)
           R == {p \in A \X Specs : SpecRests(p[1], p[2])}
           merged == MergingSpecs!Folded(base, new)
<1>1. base \in A
  BY ExtendsItself DEF SpecsOver
<1>2. \A t \in A, s \in Specs : MergeSpec(t, s) \in A
  BY SpecStep
<1>3. \A t \in A, s \in Specs : <<MergeSpec(t, s), s>> \in R
  BY <1>2, SpecStep
<1>4. \A t \in A, s \in Specs, r \in Specs : <<t, r>> \in R => <<MergeSpec(t, s), r>> \in R
  BY <1>2, SpecRestsOn
<1>5. merged \in A
  <2> HIDE DEF A, merged
  <2>1. QED BY <1>1, <1>2, MergingSpecs!FoldLeftKeeps DEF merged
<1>6. \A k \in DOMAIN new : <<merged, new[k]>> \in R
  <2> HIDE DEF A, R
  <2>1. QED BY <1>1, <1>2, <1>3, <1>4, MergingSpecs!FoldLeftTakes, SMTT(40)
<1>7. \A k \in DOMAIN new : MergeSpec(merged, new[k]) = merged
  <2> HIDE DEF merged
  <2>1. merged \in Seq(Specs) /\ Len(merged) \in Nat
    BY <1>5 DEF SpecsOver
  <2>2. QED BY <1>6, <2>1 DEF MergeSpec, SpecRests
<1>8. MergingSpecs!Folded(merged, new) = merged
  <2> HIDE DEF merged
  <2>1. QED BY <1>7, MergingSpecs!FoldLeftRests
<1>9. \A t : MergeSpecs(t, new) = MergingSpecs!Folded(t, new)
  BY Zenon DEF MergeSpecs, FoldLeft, MapThenFoldSet, Max, MergingSpecs!Folded, MergingSpecs!FoldLeft,
               MergingSpecs!MapThenFoldSet, MergingSpecs!Max
<1>10. QED BY <1>5, <1>8, <1>9, Zenon

LEMMA AliasStep ==
  ASSUME NEW Texts, NEW base \in Seq(Texts), MaxAliases \in Nat,
         NEW t \in AliasesOver(Texts, base), NEW a \in Texts
  PROVE  IntoAliases(t, a) \in AliasesOver(Texts, base) /\ AliasRests(IntoAliases(t, a), a)
<1>1. t \in Seq(Texts) /\ Extends(base, t) /\ Len(t) <= MaxAliases /\ Len(t) \in Nat
  BY DEF AliasesOver
<1>2. CASE AliasRests(t, a)
  <2>1. IntoAliases(t, a) = t
    BY <1>1, <1>2 DEF IntoAliases, MergeAlias, AliasRests
  <2>2. QED BY <1>2, <2>1
<1>3. CASE ~ AliasRests(t, a)
  <2>1. IntoAliases(t, a) = Append(t, a) /\ Len(t) < MaxAliases
    BY <1>1, <1>3 DEF IntoAliases, MergeAlias, AliasRests
  <2>2. /\ Append(t, a) \in Seq(Texts) /\ Len(Append(t, a)) = Len(t) + 1
        /\ Append(t, a)[Len(t) + 1] = a /\ Len(t) + 1 \in DOMAIN Append(t, a)
    BY <1>1
  <2>3. Extends(base, Append(t, a))
    BY <1>1, ExtendsOn
  <2>4. Append(t, a) \in AliasesOver(Texts, base)
    BY <1>1, <2>1, <2>2, <2>3 DEF AliasesOver
  <2>5. a \in ToSet(Append(t, a))
    BY <2>2 DEF ToSet
  <2>6. AliasRests(Append(t, a), a)
    BY <2>5 DEF AliasRests
  <2>7. QED BY <2>1, <2>4, <2>6
<1>4. QED BY <1>2, <1>3

LEMMA AliasRestsOn ==
  ASSUME NEW Texts, NEW base \in Seq(Texts), MaxAliases \in Nat,
         NEW t \in AliasesOver(Texts, base), NEW a \in Texts, NEW b \in Texts,
         AliasRests(t, b)
  PROVE  AliasRests(IntoAliases(t, a), b)
<1>1. t \in Seq(Texts) /\ Len(t) \in Nat
  BY DEF AliasesOver
<1>2. /\ Len(Append(t, a)) = Len(t) + 1
      /\ \A k \in DOMAIN t : k \in DOMAIN Append(t, a) /\ Append(t, a)[k] = t[k]
  BY <1>1
<1>3. ToSet(t) \subseteq ToSet(Append(t, a))
  BY <1>2 DEF ToSet
<1>4. AliasRests(Append(t, a), b)
  BY <1>1, <1>2, <1>3 DEF AliasRests
<1>5. IntoAliases(t, a) \in {t, Append(t, a)}
  BY DEF IntoAliases, MergeAlias
<1>6. QED BY <1>4, <1>5

LEMMA AliasesMerged ==
  ASSUME NEW Texts, NEW base \in Seq(Texts), NEW new \in Seq(Texts), MaxAliases \in Nat,
         Len(base) <= MaxAliases
  PROVE  LET merged == MergeAliases(title, base, new) IN
         merged \in AliasesOver(Texts, base) /\ MergeAliases(title, merged, new) = merged
<1> DEFINE A == AliasesOver(Texts, base)
           R == {p \in A \X Texts : AliasRests(p[1], p[2])}
           merged == MergingAliases!Folded(base, new)
<1>1. base \in A
  BY ExtendsItself DEF AliasesOver
<1>2. \A t \in A, a \in Texts : IntoAliases(t, a) \in A
  BY AliasStep
<1>3. \A t \in A, a \in Texts : <<IntoAliases(t, a), a>> \in R
  BY <1>2, AliasStep
<1>4. \A t \in A, a \in Texts, b \in Texts : <<t, b>> \in R => <<IntoAliases(t, a), b>> \in R
  BY <1>2, AliasRestsOn
<1>5. merged \in A
  <2> HIDE DEF A, merged
  <2>1. QED BY <1>1, <1>2, MergingAliases!FoldLeftKeeps DEF merged
<1>6. \A k \in DOMAIN new : <<merged, new[k]>> \in R
  <2> HIDE DEF A, R
  <2>1. QED BY <1>1, <1>2, <1>3, <1>4, MergingAliases!FoldLeftTakes, SMTT(40)
<1>7. \A k \in DOMAIN new : IntoAliases(merged, new[k]) = merged
  <2> HIDE DEF merged
  <2>1. merged \in Seq(Texts) /\ Len(merged) \in Nat
    BY <1>5 DEF AliasesOver
  <2>2. QED BY <1>6, <2>1 DEF IntoAliases, MergeAlias, AliasRests
<1>8. MergingAliases!Folded(merged, new) = merged
  <2> HIDE DEF merged
  <2>1. QED BY <1>7, MergingAliases!FoldLeftRests
<1>9. \A t : MergeAliases(title, t, new) = MergingAliases!Folded(t, new)
  BY Zenon DEF MergeAliases, FoldLeft, MapThenFoldSet, Max, MergingAliases!Folded, MergingAliases!FoldLeft,
               MergingAliases!MapThenFoldSet, MergingAliases!Max, IntoAliases
<1>10. QED BY <1>5, <1>8, <1>9, Zenon

Drafts(Texts, Specs) ==
  [title : Texts, description : Texts, aliases : Seq(Texts), specifications : Seq(Specs)]

\* Merging an item into a draft within its limits takes nothing from the draft
\* and keeps the limits, and a second merge adds nothing (merge_data), for
\* items of any length.
THEOREM MergeAdds ==
  ASSUME NEW Texts, NEW Specs, MaxSpecs \in Nat, MaxAliases \in Nat,
         NEW existing \in Drafts(Texts, Specs), NEW incoming \in Drafts(Texts, Specs),
         existing.title = title, Len(existing.specifications) <= MaxSpecs,
         Len(existing.aliases) <= MaxAliases
  PROVE  MergeOnlyAdds(existing, incoming)
<1> DEFINE specs == MergeSpecs(existing.specifications, incoming.specifications)
           names == incoming.aliases \o <<incoming.title>>
           aliases == MergeAliases(title, existing.aliases, names)
           text == KeepText(existing.description, incoming.description)
           merged == MergeData(existing, incoming)
<1>1. /\ existing.specifications \in Seq(Specs) /\ incoming.specifications \in Seq(Specs)
      /\ existing.aliases \in Seq(Texts) /\ names \in Seq(Texts)
      /\ existing.description \in Texts /\ incoming.description \in Texts
  BY DEF Drafts
<1>2. /\ specs \in SpecsOver(Specs, existing.specifications)
      /\ MergeSpecs(specs, incoming.specifications) = specs
  BY <1>1, SpecsMerged
<1>3. /\ aliases \in AliasesOver(Texts, existing.aliases)
      /\ MergeAliases(title, aliases, names) = aliases
  BY <1>1, AliasesMerged
<1>4. merged = [existing EXCEPT !.description = text, !.aliases = aliases,
                                !.specifications = specs]
  BY DEF MergeData
<1> HIDE DEF specs, aliases, text
<1>5. /\ merged.title = title /\ merged.description = text
      /\ merged.aliases = aliases /\ merged.specifications = specs
      /\ merged \in [title : Texts, description : {text}, aliases : {aliases},
                     specifications : {specs}]
  BY <1>4 DEF Drafts
<1>6. MergeData(merged, incoming) = merged
  <2>1. KeepText(text, incoming.description) = text
    BY DEF KeepText, text
  <2> HIDE DEF merged
  <2>2. MergeData(merged, incoming) =
          [merged EXCEPT !.description = text, !.aliases = aliases, !.specifications = specs]
    BY <1>2, <1>3, <1>5, <2>1 DEF MergeData
  <2>3. QED BY <1>5, <2>2
<1>7. existing.description \in {NoText, merged.description}
  BY <1>5 DEF KeepText, text
<1>8. /\ IsPrefix(existing.specifications, specs) /\ Len(specs) <= MaxSpecs
      /\ IsPrefix(existing.aliases, aliases) /\ Len(aliases) <= MaxAliases
  <2>1. /\ specs \in Seq(Specs) /\ Extends(existing.specifications, specs)
        /\ aliases \in Seq(Texts) /\ Extends(existing.aliases, aliases)
        /\ Len(specs) <= MaxSpecs /\ Len(aliases) <= MaxAliases
    BY <1>2, <1>3 DEF SpecsOver, AliasesOver
  <2>2. QED BY <1>1, <2>1, ExtendsPrefix
<1> HIDE DEF merged
<1>9. QED BY <1>5, <1>6, <1>7, <1>8 DEF MergeOnlyAdds, merged

-----------------------------------------------------------------------------
(* The pictures a card is given.                                           *)

AddSize(n, i) == n + i.size
AddingSizes == INSTANCE FoldTheorems WITH Op <- AddSize

Given(s, i) == Attach(had, s, i)
Giving == INSTANCE FoldTheorems WITH Op <- Given

LEMMA BytesAdd ==
  ASSUME NEW Images, \A i \in Images : i.size \in Nat, NEW s \in Seq(Images), NEW i \in Images
  PROVE  /\ Bytes(s) \in Nat
         /\ Bytes(Append(s, i)) = Bytes(s) + i.size
<1>1. \A n \in Nat, x \in Images : AddSize(n, x) \in Nat
  BY DEF AddSize
<1>2. \A t : Bytes(t) = AddingSizes!Folded(0, t)
  BY Zenon DEF Bytes, AddSize, FoldLeft, MapThenFoldSet, Max, AddingSizes!Folded,
               AddingSizes!FoldLeft, AddingSizes!MapThenFoldSet, AddingSizes!Max
<1>3. AddingSizes!Folded(0, s) \in Nat
  BY <1>1, AddingSizes!FoldLeftKeeps
<1>4. AddingSizes!Folded(0, Append(s, i)) = AddSize(AddingSizes!Folded(0, s), i)
  <2> DEFINE A == Nat
  <2>1. 0 \in A /\ \A n \in A, x \in Images : AddSize(n, x) \in A
    BY <1>1
  <2> HIDE DEF A
  <2>2. QED BY <2>1, AddingSizes!FoldLeftAppend
<1>5. QED BY <1>2, <1>3, <1>4 DEF AddSize

\* What a card may be given beside what it has.
GivenImages(Images) ==
  {t \in Seq(Images) :
     /\ t # << >> => Len(had) + Len(t) <= MaxImages /\ Bytes(had) + Bytes(t) <= MaxImageBytes
     /\ \A m, n \in DOMAIN t : t[m].sha = t[n].sha => m = n
     /\ \A n \in DOMAIN t : t[n].sha \notin {i.sha : i \in ToSet(had)}}

LEMMA GivenStep ==
  ASSUME NEW Images, \A i \in Images : i.size \in Nat, had \in Seq(Images),
         MaxImages \in Nat, MaxImageBytes \in Nat,
         NEW t \in GivenImages(Images), NEW x \in Images
  PROVE  Given(t, x) \in GivenImages(Images)
<1>1. CASE Given(t, x) = t
  BY <1>1
<1>2. CASE Given(t, x) # t
  <2> DEFINE u == Append(t, x)
             taken == {i.sha : i \in ToSet(had \o t)}
  <2>1. Given(t, x) = u /\ Fits(had, t, x) /\ x.sha \notin taken
    BY <1>2 DEF Given, Attach
  <2>2. /\ t \in Seq(Images) /\ u \in Seq(Images) /\ Len(t) \in Nat /\ Len(had) \in Nat
        /\ Len(u) = Len(t) + 1 /\ DOMAIN t = 1 .. Len(t) /\ DOMAIN u = 1 .. Len(t) + 1
        /\ u[Len(t) + 1] = x /\ \A n \in 1 .. Len(t) : u[n] = t[n]
    BY DEF GivenImages
  <2>3. Bytes(had) \in Nat /\ Bytes(t) \in Nat /\ Bytes(u) = Bytes(t) + x.size /\ x.size \in Nat
    BY <2>2, BytesAdd
  <2>4. /\ \A n \in DOMAIN t : t[n].sha \in taken
        /\ \A n \in DOMAIN had : had[n].sha \in taken
    <3>1. \A n \in DOMAIN t : Len(had) + n \in DOMAIN (had \o t) /\ (had \o t)[Len(had) + n] = t[n]
      BY <2>2
    <3>2. \A n \in DOMAIN had : n \in DOMAIN (had \o t) /\ (had \o t)[n] = had[n]
      BY <2>2
    <3>3. QED BY <3>1, <3>2 DEF ToSet
  <2>5. Len(had) + Len(u) <= MaxImages /\ Bytes(had) + Bytes(u) <= MaxImageBytes
    BY <2>1, <2>2, <2>3 DEF Fits
  <2>6. \A m, n \in DOMAIN u : u[m].sha = u[n].sha => m = n
    <3>1. \A m, n \in DOMAIN t : t[m].sha = t[n].sha => m = n
      BY DEF GivenImages
    <3>2. \A n \in DOMAIN t : u[n].sha # x.sha
      BY <2>1, <2>2, <2>4
    <3>3. \A n \in DOMAIN u : n \in DOMAIN t \/ n = Len(t) + 1
      BY <2>2
    <3>4. QED BY <2>2, <3>1, <3>2, <3>3
  <2>7. \A n \in DOMAIN u : u[n].sha \notin {i.sha : i \in ToSet(had)}
    <3>1. \A n \in DOMAIN t : t[n].sha \notin {i.sha : i \in ToSet(had)}
      BY DEF GivenImages
    <3>2. x.sha \notin {i.sha : i \in ToSet(had)}
      BY <2>1, <2>4 DEF ToSet
    <3>3. QED BY <2>2, <3>1, <3>2
  <2> HIDE DEF u
  <2>8. QED BY <2>1, <2>2, <2>5, <2>6, <2>7 DEF GivenImages
<1>3. QED BY <1>1, <1>2

\* However many pictures a plan refers to, a card gets none that it has, none
\* twice and never more or larger ones than it may hold (ingest_images).
THEOREM ImagesGiven ==
  ASSUME NEW Images, \A i \in Images : i.size \in Nat, had \in Seq(Images),
         MaxImages \in Nat, MaxImageBytes \in Nat, NEW refs \in Seq(Images)
  PROVE  ImagesFit(had, refs)
<1> DEFINE A == GivenImages(Images)
           given == IngestImages(had, refs)
<1>1. << >> \in A
  BY DEF GivenImages
<1>2. \A t \in A, x \in Images : Given(t, x) \in A
  BY GivenStep
<1>3. given = Giving!Folded(<< >>, refs)
  BY Zenon DEF IngestImages, Given, FoldLeft, MapThenFoldSet, Max, Giving!Folded,
               Giving!FoldLeft, Giving!MapThenFoldSet, Giving!Max
<1>4. given \in A
  <2> HIDE DEF A, given
  <2>1. QED BY <1>1, <1>2, <1>3, Giving!FoldLeftKeeps
<1> HIDE DEF given
<1>5. IsInjective([n \in DOMAIN given |-> given[n].sha])
  BY <1>4 DEF GivenImages, IsInjective
<1>6. {i.sha : i \in ToSet(given)} \cap {i.sha : i \in ToSet(had)} = {}
  BY <1>4 DEF GivenImages, ToSet
<1>7. given # << >> => Len(had) + Len(given) <= MaxImages /\ Bytes(had) + Bytes(given) <= MaxImageBytes
  BY <1>4 DEF GivenImages
<1>8. QED BY <1>5, <1>6, <1>7 DEF ImagesFit, given

-----------------------------------------------------------------------------
(* The targets of a workbook.                                              *)

PutImage(s, i) == PutBy(s, i, Sha)
Putting == INSTANCE FoldTheorems WITH Op <- PutImage
AddingRows == INSTANCE FoldTheorems WITH Op <- AddRow

ShasIn(s) == {i.sha : i \in ToSet(s)}
Distinct(s) == \A m, n \in DOMAIN s : s[m].sha = s[n].sha => m = n
ImageSets(Images) == {s \in Seq(Images) : Distinct(s)}

LEMMA PutStep ==
  ASSUME NEW Images, NEW s \in ImageSets(Images), NEW i \in Images
  PROVE  /\ PutImage(s, i) \in ImageSets(Images)
         /\ i.sha \in ShasIn(PutImage(s, i)) /\ ShasIn(s) \subseteq ShasIn(PutImage(s, i))
<1> DEFINE same == {k \in DOMAIN s : s[k].sha = i.sha}
           k == CHOOSE x \in same : TRUE
           t == PutImage(s, i)
<1>1. s \in Seq(Images) /\ Distinct(s) /\ Len(s) \in Nat /\ DOMAIN s = 1 .. Len(s)
  BY DEF ImageSets
<1>2. t = IF same = {} THEN Append(s, i) ELSE [s EXCEPT ![k] = i]
  BY DEF PutImage, PutBy, Sha
<1> HIDE DEF t
<1>3. CASE same = {}
  <2>1. /\ t \in Seq(Images) /\ DOMAIN t = 1 .. Len(s) + 1 /\ t[Len(s) + 1] = i
        /\ \A n \in 1 .. Len(s) : t[n] = s[n]
    BY <1>1, <1>2, <1>3
  <2>2. \A n \in 1 .. Len(s) : t[n].sha # i.sha
    BY <1>1, <1>3, <2>1
  <2>3. \A n \in 1 .. Len(s) + 1 : n \in 1 .. Len(s) \/ n = Len(s) + 1
    BY <1>1
  <2>4. Distinct(t)
    BY <1>1, <2>1, <2>2, <2>3 DEF Distinct
  <2>5. \A n \in 1 .. Len(s) : n \in DOMAIN t
    BY <1>1, <2>1
  <2>6. Len(s) + 1 \in DOMAIN t
    BY <1>1, <2>1
  <2>7. i.sha \in ShasIn(t) /\ ShasIn(s) \subseteq ShasIn(t)
    BY <1>1, <2>1, <2>5, <2>6 DEF ShasIn, ToSet
  <2>8. QED BY <2>1, <2>4, <2>7 DEF ImageSets, t
<1>4. CASE same # {}
  <2>1. k \in DOMAIN s /\ s[k].sha = i.sha
    BY <1>4
  <2> HIDE DEF k
  <2>2. /\ t \in Seq(Images) /\ DOMAIN t = DOMAIN s /\ t[k] = i
        /\ \A n \in DOMAIN s : t[n].sha = s[n].sha
    BY <1>1, <1>2, <1>4, <2>1
  <2>3. Distinct(t)
    BY <1>1, <2>2 DEF Distinct
  <2>4. i.sha \in ShasIn(t) /\ ShasIn(s) \subseteq ShasIn(t)
    BY <2>1, <2>2 DEF ShasIn, ToSet
  <2>5. QED BY <2>2, <2>3, <2>4 DEF ImageSets, t
<1>5. QED BY <1>3, <1>4

LEMMA ImagesDistinct ==
  ASSUME NEW Images, NEW s \in Seq(Images)
  PROVE  DictBy(s, Sha) \in ImageSets(Images) /\ ShasIn(s) \subseteq ShasIn(DictBy(s, Sha))
<1> DEFINE A == ImageSets(Images)
           R == {p \in A \X Images : p[2].sha \in ShasIn(p[1])}
           d == Putting!Folded(<< >>, s)
<1>1. << >> \in A
  BY DEF ImageSets, Distinct
<1>2. \A t \in A, i \in Images : PutImage(t, i) \in A
  BY PutStep
<1>3. \A t \in A, i \in Images : <<PutImage(t, i), i>> \in R
  BY <1>2, PutStep
<1>4. \A t \in A, i \in Images, j \in Images : <<t, j>> \in R => <<PutImage(t, i), j>> \in R
  BY <1>2, PutStep
<1>5. d \in A
  <2> HIDE DEF A, d
  <2>1. QED BY <1>1, <1>2, Putting!FoldLeftKeeps DEF d
<1>6. \A n \in DOMAIN s : <<d, s[n]>> \in R
  <2> HIDE DEF A, R
  <2>1. QED BY <1>1, <1>2, <1>3, <1>4, Putting!FoldLeftTakes
<1>7. DictBy(s, Sha) = d
  BY Zenon DEF DictBy, PutImage, FoldLeft, MapThenFoldSet, Max, Putting!Folded,
               Putting!FoldLeft, Putting!MapThenFoldSet, Putting!Max
<1>8. ShasIn(s) \subseteq ShasIn(d)
  <2> HIDE DEF d
  <2>1. \A n \in DOMAIN s : s[n].sha \in ShasIn(d)
    BY <1>6
  <2>2. QED BY <2>1 DEF ShasIn, ToSet
<1>9. QED BY <1>5, <1>7, <1>8, Zenon

\* What the parser makes of a sheet: rows with pictures.
RowsWith(N, Titles, Images) == [row : N, title : Titles, images : Seq(Images)]
Sheets(N, Titles, Images) == Seq(RowsWith(N, Titles, Images))

TargetsWith(N, Images, rows) ==
  [identity : {Identity(rows[k]) : k \in DOMAIN rows},
   title : {rows[k].title : k \in DOMAIN rows}, rows : Seq(N),
   images : ImageSets(Images), description : {<< >>},
   specifications : {<< >>}, warnings : {{"license_unknown"}}]

\* The targets of some of the rows: one for an identity, of rows that have it.
OneEach(t) == \A m, n \in DOMAIN t : t[m].identity = t[n].identity => m = n
FromRows(t, rows) ==
  \A m \in DOMAIN t : \A x \in ToSet(t[m].rows) :
    \E k \in DOMAIN rows : rows[k].row = x /\ Identity(rows[k]) = t[m].identity
TargetsOf(N, Images, rows) ==
  {t \in Seq(TargetsWith(N, Images, rows)) : OneEach(t) /\ FromRows(t, rows)}

\* A row is in its target with all its pictures.
HasRow(targets, r) ==
  \E m \in DOMAIN targets :
    /\ targets[m].identity = Identity(r) /\ r.row \in ToSet(targets[m].rows)
    /\ ShasIn(r.images) \subseteq ShasIn(targets[m].images)

LEMMA ShasJoin ==
  ASSUME NEW Images, NEW s \in Seq(Images), NEW t \in Seq(Images)
  PROVE  ShasIn(s) \cup ShasIn(t) \subseteq ShasIn(s \o t)
<1>1. /\ Len(s) \in Nat /\ Len(t) \in Nat /\ Len(s \o t) = Len(s) + Len(t)
      /\ \A n \in DOMAIN s : n \in DOMAIN (s \o t) /\ (s \o t)[n] = s[n]
  OBVIOUS
<1>2. \A n \in DOMAIN t : Len(s) + n \in DOMAIN (s \o t) /\ (s \o t)[Len(s) + n] = t[n]
  OBVIOUS
<1>3. \A x \in ToSet(s) \cup ToSet(t) : x \in ToSet(s \o t)
  BY <1>1, <1>2 DEF ToSet
<1>4. QED BY <1>3, Zenon DEF ShasIn

LEMMA ElementsAppend ==
  ASSUME NEW X, NEW s \in Seq(X), NEW x \in X
  PROVE  Append(s, x) \in Seq(X) /\ ToSet(Append(s, x)) = ToSet(s) \cup {x}
<1> DEFINE t == Append(s, x)
<1>1. /\ t \in Seq(X) /\ DOMAIN t = 1 .. Len(s) + 1 /\ DOMAIN s = 1 .. Len(s)
      /\ Len(s) \in Nat /\ t[Len(s) + 1] = x /\ \A n \in 1 .. Len(s) : t[n] = s[n]
  OBVIOUS
<1> HIDE DEF t
<1>2. \A n \in DOMAIN t : n \in DOMAIN s \/ n = Len(s) + 1
  BY <1>1
<1>3. Len(s) + 1 \in DOMAIN t /\ \A n \in DOMAIN s : n \in DOMAIN t
  BY <1>1
<1>4. ToSet(t) = ToSet(s) \cup {x}
  BY <1>1, <1>2, <1>3 DEF ToSet
<1>5. QED BY <1>1, <1>4 DEF t

LEMMA RowStep ==
  ASSUME NEW N, NEW Titles, NEW Images, NEW rows \in Sheets(N, Titles, Images),
         NEW t \in TargetsOf(N, Images, rows), NEW x \in DOMAIN rows
  PROVE  /\ AddRow(t, rows[x]) \in TargetsOf(N, Images, rows)
         /\ HasRow(AddRow(t, rows[x]), rows[x])
         /\ \A y \in DOMAIN rows : HasRow(t, rows[y]) => HasRow(AddRow(t, rows[x]), rows[y])
<1> DEFINE r == rows[x]
           Target == TargetsWith(N, Images, rows)
           same == {k \in DOMAIN t : t[k].identity = Identity(r)}
           k == CHOOSE n \in same : TRUE
           u == AddRow(t, r)
<1>1. r.row \in N /\ r.title \in Titles /\ r.images \in Seq(Images)
  <2>1. r \in RowsWith(N, Titles, Images)
    BY DEF Sheets
  <2>2. QED BY <2>1 DEF RowsWith
<1>2. /\ t \in Seq(Target) /\ Len(t) \in Nat /\ DOMAIN t = 1 .. Len(t)
      /\ OneEach(t) /\ FromRows(t, rows)
  BY DEF TargetsOf
<1>3. r = rows[x]
  OBVIOUS
<1> HIDE DEF r
<1>4. CASE same = {}
  <2> DEFINE new == NewTarget(r)
  <2>1. /\ new \in Target /\ new.identity = Identity(r) /\ new.rows = <<r.row>>
        /\ ShasIn(r.images) \subseteq ShasIn(new.images)
    <3>1. DictBy(r.images, Sha) \in ImageSets(Images)
          /\ ShasIn(r.images) \subseteq ShasIn(DictBy(r.images, Sha))
      BY <1>1, ImagesDistinct
    <3>2. Identity(r) \in {Identity(rows[n]) : n \in DOMAIN rows}
          /\ r.title \in {rows[n].title : n \in DOMAIN rows}
      BY <1>3
    <3>3. <<r.row>> \in Seq(N)
      BY <1>1
    <3>4. QED BY <3>1, <3>2, <3>3 DEF NewTarget, TargetsWith
  <2> HIDE DEF new
  <2>2. u = Append(t, new)
    BY <1>4 DEF AddRow, new
  <2> HIDE DEF u, Target
  <2>3. /\ u \in Seq(Target) /\ DOMAIN u = 1 .. Len(t) + 1 /\ u[Len(t) + 1] = new
        /\ \A n \in 1 .. Len(t) : u[n] = t[n] /\ n \in DOMAIN u
        /\ Len(t) + 1 \in DOMAIN u
        /\ \A n \in DOMAIN u : n \in 1 .. Len(t) \/ n = Len(t) + 1
    BY <1>2, <2>1, <2>2
  <2>4. \A n \in 1 .. Len(t) : t[n].identity # new.identity
    BY <1>2, <1>4, <2>1
  <2>5. OneEach(u)
    BY <1>2, <2>3, <2>4 DEF OneEach
  <2>6. ToSet(new.rows) = {r.row}
    BY <2>1 DEF ToSet
  <2>7. FromRows(u, rows)
    <3>1. \A m \in DOMAIN u : m # Len(t) + 1 => m \in DOMAIN t /\ u[m] = t[m]
      BY <1>2, <2>3
    <3>2. \A v \in ToSet(new.rows) : v = rows[x].row /\ Identity(rows[x]) = new.identity
      BY <1>3, <2>1, <2>6
    <3>3. ASSUME NEW m \in DOMAIN u, NEW v \in ToSet(u[m].rows)
          PROVE  \E n \in DOMAIN rows : rows[n].row = v /\ Identity(rows[n]) = u[m].identity
      <4>1. CASE m = Len(t) + 1
        BY <2>3, <3>2, <4>1
      <4>2. CASE m # Len(t) + 1
        BY <1>2, <3>1, <4>2 DEF FromRows
      <4>3. QED BY <4>1, <4>2
    <3>4. QED BY <3>3 DEF FromRows
  <2>8. u \in TargetsOf(N, Images, rows)
    BY <2>3, <2>5, <2>7 DEF TargetsOf, Target
  <2>9. HasRow(u, r)
    BY <2>1, <2>3, <2>6 DEF HasRow
  <2>10. \A y \in DOMAIN rows : HasRow(t, rows[y]) => HasRow(u, rows[y])
    BY <1>2, <2>3 DEF HasRow
  <2>11. QED BY <1>3, <2>8, <2>9, <2>10 DEF u
<1>5. CASE same # {}
  <2>1. k \in DOMAIN t /\ t[k].identity = Identity(r)
    BY <1>5
  <2>2. u = [t EXCEPT ![k] = [t[k] EXCEPT !.rows = Append(@, r.row),
                                          !.images = JoinImages(@, r.images)]]
    BY <1>5 DEF AddRow
  <2> HIDE DEF k, u, same
  <2> DEFINE joined == JoinImages(t[k].images, r.images)
             longer == Append(t[k].rows, r.row)
  <2>3. t[k] \in Target /\ t[k].images \in Seq(Images) /\ t[k].rows \in Seq(N)
    <3>1. t[k] \in Target
      BY <1>2, <2>1
    <3>2. t[k].images \in ImageSets(Images) /\ t[k].rows \in Seq(N)
      BY <3>1 DEF TargetsWith
    <3>3. QED BY <3>1, <3>2 DEF ImageSets
  <2>4. /\ joined \in ImageSets(Images)
        /\ ShasIn(t[k].images) \subseteq ShasIn(joined) /\ ShasIn(r.images) \subseteq ShasIn(joined)
    <3>1. t[k].images \o r.images \in Seq(Images)
      BY <1>1, <2>3
    <3>2. ShasIn(t[k].images) \cup ShasIn(r.images) \subseteq ShasIn(t[k].images \o r.images)
      BY <1>1, <2>3, ShasJoin
    <3>3. QED BY <3>1, <3>2, ImagesDistinct DEF JoinImages
  <2>5. longer \in Seq(N) /\ ToSet(longer) = ToSet(t[k].rows) \cup {r.row}
    BY <1>1, <2>3, ElementsAppend
  <2> HIDE DEF joined, longer
  <2>6. /\ u = [t EXCEPT ![k] = [t[k] EXCEPT !.rows = longer, !.images = joined]]
        /\ [t[k] EXCEPT !.rows = longer, !.images = joined] \in Target
        /\ DOMAIN u = DOMAIN t
    <3>1. u = [t EXCEPT ![k] = [t[k] EXCEPT !.rows = longer, !.images = joined]]
      BY <2>2, Zenon DEF joined, longer
    <3>2. [t[k] EXCEPT !.rows = longer, !.images = joined] \in Target
      BY <2>3, <2>4, <2>5 DEF TargetsWith
    <3>3. QED BY <3>1, <3>2
  <2>7. /\ u \in Seq(Target)
        /\ \A n \in DOMAIN t : n # k => u[n] = t[n]
        /\ \A n \in DOMAIN t : u[n].identity = t[n].identity
        /\ u[k].rows = longer /\ u[k].images = joined
    BY <1>2, <2>1, <2>3, <2>6
  <2>8. FromRows(u, rows)
    <3>1. \A m \in DOMAIN t : ToSet(u[m].rows) \subseteq
            ToSet(t[m].rows) \cup (IF m = k THEN {r.row} ELSE {})
      BY <2>5, <2>7
    <3>2. ASSUME NEW m \in DOMAIN u, NEW v \in ToSet(u[m].rows)
          PROVE  \E n \in DOMAIN rows : rows[n].row = v /\ Identity(rows[n]) = u[m].identity
      <4>1. m \in DOMAIN t /\ u[m].identity = t[m].identity
        BY <2>6, <2>7
      <4>2. v \in ToSet(t[m].rows) \/ (m = k /\ v = r.row)
        BY <3>1, <3>2, <4>1
      <4>3. CASE v \in ToSet(t[m].rows)
        <5>1. PICK n \in DOMAIN rows : rows[n].row = v /\ Identity(rows[n]) = t[m].identity
          BY <1>2, <4>1, <4>3 DEF FromRows
        <5>2. QED BY <4>1, <5>1
      <4>4. CASE m = k /\ v = r.row
        BY <1>3, <2>1, <4>1, <4>4
      <4>5. QED BY <4>2, <4>3, <4>4
    <3>3. QED BY <3>2 DEF FromRows
  <2>9. OneEach(u)
    BY <1>2, <2>6, <2>7 DEF OneEach
  <2> HIDE DEF Target
  <2>10. u \in TargetsOf(N, Images, rows)
    BY <2>7, <2>8, <2>9 DEF TargetsOf, Target
  <2>11. HasRow(u, r)
    BY <2>1, <2>4, <2>5, <2>6, <2>7 DEF HasRow
  <2>12. \A y \in DOMAIN rows : HasRow(t, rows[y]) => HasRow(u, rows[y])
    <3>1. \A m \in DOMAIN t : /\ ToSet(t[m].rows) \subseteq ToSet(u[m].rows)
                              /\ ShasIn(t[m].images) \subseteq ShasIn(u[m].images)
      BY <2>4, <2>5, <2>7
    <3>2. QED BY <2>6, <2>7, <3>1 DEF HasRow
  <2>13. QED BY <1>3, <2>10, <2>11, <2>12 DEF u
<1>6. QED BY <1>4, <1>5

\* Every row of a sheet, of however many rows, is in the one target of its
\* category and title, with its pictures, each once (workbook_targets).
THEOREM RowsKept ==
  ASSUME NEW N, NEW Titles, NEW Images, NEW rows \in Sheets(N, Titles, Images),
         \A m, n \in DOMAIN rows : rows[m].row = rows[n].row => m = n
  PROVE  RowsAreKept(rows)
<1> DEFINE A == TargetsOf(N, Images, rows)
           X == {rows[k] : k \in DOMAIN rows}
           R == {p \in A \X X : HasRow(p[1], p[2])}
           targets == WorkbookTargets(rows)
<1>1. << >> \in A
  <2>1. << >> \in Seq(TargetsWith(N, Images, rows)) /\ DOMAIN << >> = {}
    OBVIOUS
  <2>2. QED BY <2>1 DEF TargetsOf, OneEach, FromRows
<1>2. rows \in Seq(X)
  <2>1. Len(rows) \in Nat /\ rows \in [1 .. Len(rows) -> X]
    BY DEF Sheets
  <2>2. QED BY <2>1, SeqDef
<1>3. \A t \in A, r \in X : AddRow(t, r) \in A
  BY RowStep
<1>4. \A t \in A, r \in X : <<AddRow(t, r), r>> \in R
  BY <1>3, RowStep
<1>5. \A t \in A, r \in X, q \in X : <<t, q>> \in R => <<AddRow(t, r), q>> \in R
  BY <1>3, RowStep
<1>6. targets = AddingRows!Folded(<< >>, rows)
  BY Zenon DEF WorkbookTargets, FoldLeft, MapThenFoldSet, Max, AddingRows!Folded,
               AddingRows!FoldLeft, AddingRows!MapThenFoldSet, AddingRows!Max
<1>7. targets \in A
  <2> HIDE DEF A, X, targets
  <2>1. QED BY <1>1, <1>2, <1>3, <1>6, AddingRows!FoldLeftKeeps
<1>8. \A k \in DOMAIN rows : HasRow(targets, rows[k])
  <2>1. \A k \in DOMAIN rows : <<targets, rows[k]>> \in R
    <3> HIDE DEF A, X, R, targets
    <3>1. QED BY <1>1, <1>2, <1>3, <1>4, <1>5, <1>6, AddingRows!FoldLeftTakes
  <2> HIDE DEF targets, A, X
  <2>2. QED BY <2>1
<1> HIDE DEF targets
<1>9. ASSUME NEW k \in DOMAIN rows
      PROVE  \E t \in ToSet(targets) :
               /\ rows[k].row \in ToSet(t.rows) /\ t.identity = Identity(rows[k])
               /\ \A i \in ToSet(rows[k].images) : i.sha \in Shas(t)
               /\ IsInjective([n \in DOMAIN t.images |-> t.images[n].sha])
  <2>1. PICK m \in DOMAIN targets :
          /\ targets[m].identity = Identity(rows[k]) /\ rows[k].row \in ToSet(targets[m].rows)
          /\ ShasIn(rows[k].images) \subseteq ShasIn(targets[m].images)
    BY <1>8 DEF HasRow
  <2>2. targets[m].images \in ImageSets(Images)
    <3>1. targets \in Seq(TargetsWith(N, Images, rows))
      BY <1>7 DEF TargetsOf
    <3>2. targets[m] \in TargetsWith(N, Images, rows)
      BY <3>1
    <3>3. QED BY <3>2 DEF TargetsWith
  <2>3. IsInjective([n \in DOMAIN targets[m].images |-> targets[m].images[n].sha])
    BY <2>2 DEF ImageSets, Distinct, IsInjective
  <2>4. \A i \in ToSet(rows[k].images) : i.sha \in Shas(targets[m])
    BY <2>1 DEF ShasIn, Shas
  <2>5. targets[m] \in ToSet(targets)
    BY DEF ToSet
  <2>6. QED BY <2>1, <2>3, <2>4, <2>5
<1>10. ASSUME NEW k \in DOMAIN rows, NEW m \in DOMAIN targets, NEW n \in DOMAIN targets,
              rows[k].row \in ToSet(targets[m].rows), rows[k].row \in ToSet(targets[n].rows)
       PROVE  m = n
  <2>1. \A j \in DOMAIN targets : rows[k].row \in ToSet(targets[j].rows) =>
          \E x \in DOMAIN rows : rows[x].row = rows[k].row
                                 /\ Identity(rows[x]) = targets[j].identity
    BY <1>7 DEF TargetsOf, FromRows
  <2>2. targets[m].identity = Identity(rows[k]) /\ targets[n].identity = Identity(rows[k])
    BY <1>10, <2>1
  <2>3. QED BY <1>7, <2>2 DEF TargetsOf, OneEach
<1>11. QED BY <1>9, <1>10 DEF RowsAreKept, targets

-----------------------------------------------------------------------------
(* Scores of duplicates.                                                   *)

\* What the scorer reads of a card.
ScoredCards(Texts, Hashes) ==
  [title : Texts, maker : Texts, model : Texts, aliases : SUBSET Texts,
   specs : Seq(Texts \X Texts), texts : SUBSET Texts, pictures : SUBSET Hashes,
   hashes : SUBSET Hashes, archived : BOOLEAN]

\* Likeness of texts by trigrams and distance of pictures have no direction.
Undirected(Texts, Hashes) ==
  /\ \A t, u \in Texts : Trigram[t][u] = Trigram[u][t]
  /\ \A x, y \in Hashes : Distance[x][y] = Distance[y][x]

LEMMA SameSets ==
  ASSUME NEW s, NEW t
  PROVE  Scores!Jaccard(s, t) = Scores!Jaccard(t, s)
<1>1. s \cap t = t \cap s /\ s \cup t = t \cup s
  OBVIOUS
<1>2. QED BY <1>1 DEF Scores!Jaccard

LEMMA SamePairs ==
  ASSUME NEW a, NEW b
  PROVE  /\ Scores!Compared(a, b) = Scores!Compared(b, a)
         /\ \A f : Scores!Agrees(a, b, f) <=> Scores!Agrees(b, a, f)
         /\ Scores!Identity(a, b) = Scores!Identity(b, a)
<1>1. Scores!Compared(a, b) = Scores!Compared(b, a)
  BY DEF Scores!Compared
<1>2. \A f : Scores!Agrees(a, b, f) <=> Scores!Agrees(b, a, f)
  BY DEF Scores!Agrees
<1>3. {f \in Scores!Compared(a, b) : Scores!Agrees(a, b, f)}
        = {f \in Scores!Compared(b, a) : Scores!Agrees(b, a, f)}
  BY <1>1, <1>2
<1>4. QED BY <1>1, <1>2, <1>3 DEF Scores!Identity

LEMMA SameConflicts ==
  ASSUME NEW a, NEW b
  PROVE  Scores!SpecConflicts(a, b) = Scores!SpecConflicts(b, a)
<1> DEFINE left == Scores!SpecValues(a.specs)
           right == Scores!SpecValues(b.specs)
<1> HIDE DEF left, right
<1>1. {k \in DOMAIN left \cap DOMAIN right : left[k] # right[k]}
        = {k \in DOMAIN right \cap DOMAIN left : right[k] # left[k]}
  OBVIOUS
<1>2. QED BY <1>1 DEF Scores!SpecConflicts, left, right

LEMMA SameDistance ==
  ASSUME NEW Hashes, \A x, y \in Hashes : Distance[x][y] = Distance[y][x],
         NEW s \in SUBSET Hashes, NEW t \in SUBSET Hashes
  PROVE  Scores!Closest(s, t) = Scores!Closest(t, s)
<1> DEFINE part(x, y) == ((64 - Distance[x][y]) * Scores!Scale) \div 64
<1>1. \A x, y \in Hashes : part(x, y) = part(y, x)
  OBVIOUS
<1> HIDE DEF part
<1> DEFINE there == {part(x, y) : x \in s, y \in t}
           back == {part(x, y) : x \in t, y \in s}
<1>2. there = back
  BY <1>1
<1>3. /\ Scores!Closest(s, t) = IF s = {} \/ t = {} THEN 0 ELSE Scores!Max(there)
      /\ Scores!Closest(t, s) = IF t = {} \/ s = {} THEN 0 ELSE Scores!Max(back)
  BY DEF Scores!Closest, part
<1> HIDE DEF there, back
<1>4. QED BY <1>2, <1>3

\* A pair of cards has one score, whichever of them was the new one
\* (score_pair).
THEOREM ScoreIsShared ==
  ASSUME NEW Texts, NEW Hashes, Undirected(Texts, Hashes),
         NEW a \in ScoredCards(Texts, Hashes), NEW b \in ScoredCards(Texts, Hashes)
  PROVE  Scores!ScorePair(a, b, Scores!Similarity(a, b))
           = Scores!ScorePair(b, a, Scores!Similarity(b, a))
<1>1. /\ a.title \in Texts /\ b.title \in Texts /\ a.model \in Texts /\ b.model \in Texts
      /\ a.hashes \in SUBSET Hashes /\ b.hashes \in SUBSET Hashes
  BY DEF ScoredCards
<1>2. Scores!Similarity(a, b) = Scores!Similarity(b, a)
  BY <1>1 DEF Scores!Similarity, Undirected
<1>3. Scores!Penalties(a, b) = Scores!Penalties(b, a)
  BY SamePairs, SameConflicts DEF Scores!Penalties
<1>4. \A n : Scores!Signals(a, b, n) = Scores!Signals(b, a, n)
  <2>1. Scores!Closest(a.hashes, b.hashes) = Scores!Closest(b.hashes, a.hashes)
    BY <1>1, SameDistance DEF Undirected
  <2>2. \A s, t : Scores!Both(s, t) = Scores!Both(t, s)
    BY DEF Scores!Both
  <2>3. (a.specs # << >> /\ b.specs # << >>) = (b.specs # << >> /\ a.specs # << >>)
    OBVIOUS
  <2>4. (Scores!Compared(a, b) # {}) = (Scores!Compared(b, a) # {})
    BY SamePairs
  <2>5. \A s, t : Scores!Jaccard(s, t) = Scores!Jaccard(t, s)
    BY SameSets
  <2>6. Scores!Identity(a, b) = Scores!Identity(b, a)
    BY SamePairs
  <2>7. QED BY <2>1, <2>2, <2>3, <2>4, <2>5, <2>6, Zenon DEF Scores!Signals
<1>5. QED BY <1>2, <1>3, <1>4 DEF Scores!ScorePair

\* The cards a generation finds alike.
Found(cards, source) ==
  {c \in Scores!Preselected(cards, source) :
     Scores!ScorePair(cards[source], cards[c], Scores!Similarity(cards[source], cards[c]))
       >= Scores!CandidateThreshold}
OtherOf(p, source) == CHOOSE c \in p : c # source
PairsOf(cards, source) == {{source, c} : c \in Found(cards, source)}
ScoreOf(cards, c, d) ==
  Scores!ScorePair(cards[c], cards[d], Scores!Similarity(cards[c], cards[d]))

\* What a generation writes: a row for each card it finds alike, and nothing else.
Written(left, open, cards, source) ==
  /\ DOMAIN left = DOMAIN open \cup PairsOf(cards, source)
  /\ \A p \in PairsOf(cards, source) : left[p] = ScoreOf(cards, source, OtherOf(p, source))
  /\ \A p \in DOMAIN open : p \notin PairsOf(cards, source) => left[p] = open[p]

LEMMA GenerationRows ==
  ASSUME NEW cards, NEW source, NEW open
  PROVE  Written(Scores!Generate(open, cards, source), open, cards, source)
<1> DEFINE left == Scores!Generate(open, cards, source)
<1>1. left = [p \in DOMAIN open \cup PairsOf(cards, source) |->
                IF \E c \in Found(cards, source) : p = {source, c}
                  THEN ScoreOf(cards, source, OtherOf(p, source)) ELSE open[p]]
  BY DEF Scores!Generate, PairsOf, Found, ScoreOf, OtherOf
<1> HIDE DEF left
<1>2. \A p : p \in PairsOf(cards, source) <=> \E c \in Found(cards, source) : p = {source, c}
  BY DEF PairsOf
<1>3. Written(left, open, cards, source)
  BY <1>1, <1>2 DEF Written
<1>4. QED BY <1>3 DEF left

LEMMA FoundCards ==
  ASSUME NEW cards, NEW source, NEW c \in Found(cards, source)
  PROVE  c \in DOMAIN cards /\ c # source /\ ~ cards[c].archived
<1>1. c \in Scores!Preselected(cards, source)
  BY DEF Found
<1>2. QED BY <1>1 DEF Scores!Preselected

\* A later generation, from whichever card, leaves every open candidate as it
\* found it or with the same score, and candidates are new only with cards that
\* are not archived (FuzzyCandidateService.generate), for any cards.
THEOREM GenerationsKeep ==
  ASSUME NEW Texts, NEW Hashes, Undirected(Texts, Hashes),
         NEW cards \in Seq(ScoredCards(Texts, Hashes)), NEW open,
         NEW first \in DOMAIN cards, NEW second \in DOMAIN cards
  PROVE  Scores!GenerationsAgree(open, cards, first, second)
<1> DEFINE left == Scores!Generate(open, cards, first)
           then == Scores!Generate(left, cards, second)
           pairs(source) == PairsOf(cards, source)
           score(c, d) == ScoreOf(cards, c, d)
<1>1. \A c \in DOMAIN cards, d \in DOMAIN cards : score(c, d) = score(d, c)
  <2>1. \A c \in DOMAIN cards : cards[c] \in ScoredCards(Texts, Hashes)
    OBVIOUS
  <2>2. QED BY <2>1, ScoreIsShared DEF ScoreOf
<1> HIDE DEF left, then, score
<1>2. Written(left, open, cards, first)
  BY GenerationRows, Zenon DEF left
<1>3. Written(then, left, cards, second)
  BY GenerationRows, Zenon DEF then
<1>4. /\ DOMAIN left = DOMAIN open \cup pairs(first)
      /\ \A p \in pairs(first) : left[p] = score(first, OtherOf(p, first))
      /\ \A p \in DOMAIN open : p \notin pairs(first) => left[p] = open[p]
  BY <1>2 DEF Written, score
<1>5. /\ DOMAIN then = DOMAIN left \cup pairs(second)
      /\ \A p \in pairs(second) : then[p] = score(second, OtherOf(p, second))
      /\ \A p \in DOMAIN left : p \notin pairs(second) => then[p] = left[p]
  BY <1>3 DEF Written, score
<1>6. ASSUME NEW p \in pairs(first), p \in pairs(second)
      PROVE  then[p] = left[p]
  <2>1. PICK c \in Found(cards, first) : p = {first, c}
    BY <1>6 DEF PairsOf
  <2>2. PICK d \in Found(cards, second) : p = {second, d}
    BY <1>6 DEF PairsOf
  <2>3. c # first /\ d # second
    BY FoundCards
  <2>4. OtherOf(p, first) = c /\ OtherOf(p, second) = d
    BY <2>1, <2>2, <2>3 DEF OtherOf
  <2>5. (first = second /\ c = d) \/ (c = second /\ d = first)
    BY <2>1, <2>2, <2>3
  <2>6. left[p] = score(first, c) /\ then[p] = score(second, d)
    BY <1>4, <1>5, <1>6, <2>4
  <2>7. QED BY <1>1, <2>5, <2>6
<1>7. \A p \in DOMAIN left : then[p] = left[p] \/ (p \in DOMAIN open /\ left[p] = open[p])
  <2> HIDE DEF pairs
  <2>1. QED BY <1>4, <1>5, <1>6
<1>8. \A p \in DOMAIN left \ DOMAIN open :
        first \in p /\ \A c \in p \ {first} : ~ cards[c].archived
  BY <1>4, FoundCards DEF PairsOf
<1>9. DOMAIN open \subseteq DOMAIN left
  BY <1>4
<1>10. QED BY <1>7, <1>8, <1>9 DEF Scores!GenerationsAgree, left, then

-----------------------------------------------------------------------------
(* The KiCad index.                                                        *)

\* A cache whose libraries are what parsing their contents gives.
Sound(cache) ==
  \A p \in DOMAIN cache.libraries :
    cache.libraries[p].symbols = Parsed[cache.libraries[p].content]

\* What a build leaves, whatever it started from.
Fresh(snapshot, revision) ==
  [revision |-> revision,
   libraries |-> [p \in DOMAIN snapshot |->
     [content |-> snapshot[p], symbols |-> Parsed[snapshot[p]]]]]

Caches(Symbols) ==
  [revision : Revisions \cup {0},
   libraries : UNION {[P -> [content : Contents, symbols : Symbols]] : P \in SUBSET Paths}]

LEMMA BuildIsFresh ==
  ASSUME NEW Symbols, NEW cache \in Caches(Symbols),
         Sound(cache), NEW P, NEW snapshot \in [P -> Contents], NEW revision
  PROVE  Rebuilt(cache, snapshot, revision) = Fresh(snapshot, revision)
<1> DEFINE kept == {p \in DOMAIN snapshot \cap DOMAIN cache.libraries :
                      cache.libraries[p].content = snapshot[p]}
           records(p) == IF p \in kept THEN cache.libraries[p].symbols ELSE Parsed[snapshot[p]]
           same == cache.revision = revision
                   /\ DOMAIN snapshot = DOMAIN cache.libraries /\ kept = DOMAIN snapshot
<1>1. PICK Q \in SUBSET Paths :
        cache \in [revision : Revisions \cup {0}, libraries : [Q -> [content : Contents, symbols : Symbols]]]
  BY DEF Caches
<1>2. \A p \in P : records(p) = Parsed[snapshot[p]]
  BY DEF Sound
<1>3. CASE same
  <2>1. Q = P /\ \A p \in P : cache.libraries[p] =
          [content |-> snapshot[p], symbols |-> Parsed[snapshot[p]]]
    <3>1. P = Q /\ \A p \in P : cache.libraries[p].content = snapshot[p]
      BY <1>1, <1>3
    <3>2. \A p \in P : cache.libraries[p] \in [content : Contents, symbols : Symbols]
      BY <1>1, <3>1
    <3>3. \A p \in P : cache.libraries[p].symbols = Parsed[snapshot[p]]
      BY <1>1, <3>1 DEF Sound
    <3>4. QED BY <3>1, <3>2, <3>3
  <2>2. cache.libraries = [p \in P |->
          [content |-> snapshot[p], symbols |-> Parsed[snapshot[p]]]]
    BY <1>1, <2>1
  <2>3. cache = Fresh(snapshot, revision)
    BY <1>1, <1>3, <2>2 DEF Fresh
  <2>4. Rebuilt(cache, snapshot, revision) = cache
    BY <1>3 DEF Rebuilt
  <2>5. QED BY <2>3, <2>4
<1>4. CASE ~ same
  <2>1. Rebuilt(cache, snapshot, revision) =
          [revision |-> revision,
           libraries |-> [p \in P |-> [content |-> snapshot[p], symbols |-> records(p)]]]
    BY <1>4 DEF Rebuilt
  <2> HIDE DEF records
  <2>2. [p \in P |-> [content |-> snapshot[p], symbols |-> records(p)]]
          = [p \in P |-> [content |-> snapshot[p], symbols |-> Parsed[snapshot[p]]]]
    BY <1>2
  <2>3. QED BY <2>1, <2>2 DEF Fresh
<1>5. QED BY <1>3, <1>4

\* A build from the cache of any earlier builds leaves what a build from
\* nothing leaves, for the builds after it too (KicadSymbolIndexer.build), for
\* snapshots of any size.
THEOREM BuildsAreFresh ==
  ASSUME NEW Symbols, NEW cache \in Caches(Symbols),
         Sound(cache), NEW P, NEW snapshot \in [P -> Contents], NEW revision
  PROVE  /\ Sound(Rebuilt(cache, snapshot, revision))
         /\ Rebuilt(cache, snapshot, revision) = Rebuilt(NoCache, snapshot, revision)
<1>1. Rebuilt(cache, snapshot, revision) = Fresh(snapshot, revision)
  BY BuildIsFresh
<1>2. Rebuilt(NoCache, snapshot, revision) = Fresh(snapshot, revision)
  <2>1. NoCache \in Caches(Symbols)
    <3>1. << >> \in [{} -> [content : Contents, symbols : Symbols]]
      OBVIOUS
    <3>2. QED BY <3>1 DEF Caches, NoCache
  <2>2. Sound(NoCache)
    BY DEF Sound, NoCache
  <2>3. QED BY <2>1, <2>2, BuildIsFresh
<1>3. Sound(Fresh(snapshot, revision))
  BY DEF Sound, Fresh
<1>4. QED BY <1>1, <1>2, <1>3

\* What an indexer keeps is sound, and it has given what a new one would give.
IndexerInv ==
  /\ indexCache \in Caches({Parsed[c] : c \in Contents}) /\ Sound(indexCache)
  /\ IncrementalIndexIsFresh

\* An indexer of any repository, of any number of files and revisions, gives at
\* every build what a new indexer would give (KicadSymbolIndexer.build).
THEOREM IndexStaysFresh == IndexerSpec => []IncrementalIndexIsFresh
<1> DEFINE Symbols == {Parsed[c] : c \in Contents}
<1>1. IndexerInit => IndexerInv
  <2>1. NoCache \in Caches(Symbols)
    <3>1. << >> \in [{} -> [content : Contents, symbols : Symbols]]
      OBVIOUS
    <3>2. QED BY <3>1 DEF Caches, NoCache
  <2>2. Sound(NoCache)
    BY DEF Sound, NoCache
  <2>3. Rebuilt(NoCache, Sources(<< >>), 0) = NoCache
    BY DEF Rebuilt, NoCache, Sources
  <2>4. QED BY <2>1, <2>2, <2>3 DEF IndexerInit, IndexerInv, IncrementalIndexIsFresh
<1>2. IndexerInv /\ [IndexerNext]_indexerVars => IndexerInv'
  <2> SUFFICES ASSUME IndexerInv, [IndexerNext]_indexerVars PROVE IndexerInv'
    OBVIOUS
  <2>1. CASE UNCHANGED indexerVars
    BY <2>1 DEF indexerVars, IndexerInv, IncrementalIndexIsFresh, Sound, Caches
  <2>2. ASSUME NEW files \in Snapshots, NEW revision \in Revisions, Build(files, revision)
        PROVE  IndexerInv'
    <3> DEFINE P == {p \in DOMAIN files : LibraryOf[p] \in Allowed}
               cache == Rebuilt(indexCache, Sources(files), revision)
    <3>1. P \in SUBSET Paths /\ Sources(files) \in [P -> Contents]
      BY DEF Snapshots, Sources
    <3>2. /\ Sound(cache)
          /\ cache = Rebuilt(NoCache, Sources(files), revision)
          /\ cache = Fresh(Sources(files), revision)
      BY <3>1, BuildIsFresh, BuildsAreFresh DEF IndexerInv
    <3>3. Fresh(Sources(files), revision) \in Caches(Symbols)
      BY <3>1 DEF Fresh, Caches
    <3>4. QED
      BY <2>2, <3>2, <3>3 DEF Build, IndexerInv, IncrementalIndexIsFresh
  <2>3. QED BY <2>1, <2>2 DEF IndexerNext
<1>3. IndexerInv => IncrementalIndexIsFresh
  BY DEF IndexerInv
<1>4. QED BY <1>1, <1>2, <1>3, PTL DEF IndexerSpec

-----------------------------------------------------------------------------
(* The route of a draft.                                                   *)

Cards == INSTANCE CardComposition

\* What the earlier stages say of a page: it has a title, each specification has
\* a path of the registry, and finitely many symbols were scored.
Judged(c, Titles, Specs, Fields) ==
  /\ c.facts.titles \in Seq(Titles) \ {<< >>}
  /\ c.norm.specifications \in Seq(Specs) /\ \A s \in Specs : s.path # "none"
  /\ c.norm.unmapped \in Seq(Fields)
  /\ IsFiniteSet(c.matched)

LEMMA SameCardinality == ASSUME NEW S  PROVE Cards!Cardinality(S) = Cardinality(S)
BY Zenon DEF Cardinality, Cards!Cardinality

LEMMA ReadyHasNoIssue ==
  ASSUME NEW c, Cards!Report(c).route = "ready_to_compose"
  PROVE  /\ \A part \in {Cards!Confident(c), Cards!Described(c), Cards!Covered(c),
                        Cards!PinsShown(c), Cards!Sourced(c), Cards!Doubts(c),
                        Cards!Enriched(c), Cards!Teaching(c)} :
              \A i \in part.issues : i.severity \notin {"blocking", "warning"}
<1> DEFINE found == Cards!IssuesIn(Cards!Dimensions(c))
           report == Cards!Report(c)
<1>1. report.route = Cards!Route(report.overall, report.issues) /\ found \subseteq report.issues
  BY DEF Cards!Report
<1> HIDE DEF report
<1>2. \A i \in found : i.severity \notin {"blocking", "warning"}
  <2> HIDE DEF found
  <2>1. report.route = "ready_to_compose"
    BY DEF report
  <2>2. \A i \in report.issues : i.severity \notin {"blocking", "warning"}
    BY <1>1, <2>1 DEF Cards!Route, Cards!OfSeverity
  <2>3. QED BY <1>1, <2>2
<1>3. \A k \in 1 .. 8 : \A i \in Cards!Dimensions(c)[k].part.issues : i \in found
  <2>1. DOMAIN Cards!Dimensions(c) = 1 .. 8
    BY DEF Cards!Dimensions
  <2>2. QED BY <2>1 DEF Cards!IssuesIn
<1> DEFINE part(k) == Cards!Dimensions(c)[k].part
<1>4. /\ Cards!Confident(c) = part(1) /\ Cards!Described(c) = part(2)
      /\ Cards!Covered(c) = part(3) /\ Cards!PinsShown(c) = part(4)
      /\ Cards!Sourced(c) = part(5) /\ Cards!Doubts(c) = part(6)
      /\ Cards!Enriched(c) = part(7) /\ Cards!Teaching(c) = part(8)
  BY DEF Cards!Dimensions
<1>5. \A k \in 1 .. 8 : \A i \in part(k).issues : i.severity \notin {"blocking", "warning"}
  BY <1>2, <1>3
<1> HIDE DEF part
<1>6. QED BY <1>4, <1>5

\* What each dimension asks of a draft that is ready.
LEMMA ReadyCase ==
  ASSUME NEW c, NEW Titles, NEW Specs, NEW Fields, Judged(c, Titles, Specs, Fields),
         Cards!Report(c).route = "ready_to_compose"
  PROVE  /\ c.identity.status = "auto_resolved"
         /\ ~ Cards!Ambiguous(c.facts)
         /\ c.norm.conflicts = {} /\ c.norm.unmapped = << >>
         /\ ~ (Cardinality(Cards!Accepted(c)) > 1)
         /\ Cards!Accepted(c) = {} => Cards!Proposed(c) = {}
<1>1. \A part \in {Cards!Confident(c), Cards!Covered(c), Cards!Doubts(c), Cards!Enriched(c)} :
        \A i \in part.issues : i.severity \notin {"blocking", "warning"}
  BY ReadyHasNoIssue
<1>2. c.identity.status = "auto_resolved"
  <2>1. CASE c.identity.status = "review_required"
    <3>1. Cards!Issue(<<"identity_review_required">>, "warning", ToSet(c.identity.name.evidence))
            \in Cards!Confident(c).issues
      BY <2>1 DEF Cards!Confident, Cards!Scale, Cards!ToSet, ToSet
    <3>2. QED BY <1>1, <3>1 DEF Cards!Issue
  <2>2. CASE c.identity.status \notin {"auto_resolved", "review_required"}
    <3>1. Cards!Issue(<<"identity_unresolved">>, "blocking", ToSet(c.identity.name.evidence))
            \in Cards!Confident(c).issues
      BY <2>2 DEF Cards!Confident, Cards!Scale, Cards!ToSet, ToSet
    <3>2. QED BY <1>1, <3>1 DEF Cards!Issue
  <2>3. QED BY <2>1, <2>2
<1>3. c.norm.conflicts = {}
  <2>1. SUFFICES ASSUME NEW x \in c.norm.conflicts  PROVE FALSE
    OBVIOUS
  <2>2. Cards!Issue(<<"conflict", x.path>>, "blocking", Cards!ToSet(x.evidence))
          \in Cards!Doubts(c).issues
    BY DEF Cards!Doubts, Cards!Scale
  <2>3. QED BY <1>1, <2>2 DEF Cards!Issue
<1>4. ~ Cards!Ambiguous(c.facts)
  <2>1. SUFFICES ASSUME Cards!Ambiguous(c.facts)  PROVE FALSE
    OBVIOUS
  <2>2. "ambiguous_title" \in Cards!ExtractWarnings(c.doc, c.facts)
    BY <2>1 DEF Cards!ExtractWarnings
  <2>3. Cards!Issue(<<"extraction", "ambiguous_title">>, "warning", {}) \in Cards!Doubts(c).issues
    BY <2>2 DEF Cards!Doubts, Cards!Scale
  <2>4. QED BY <1>1, <2>3 DEF Cards!Issue
<1>5. c.norm.unmapped = << >>
  <2>1. SUFFICES ASSUME c.norm.unmapped # << >>  PROVE FALSE
    OBVIOUS
  <2>2. Cards!Issue(<<"unmapped_specifications">>, "warning",
                    Cards!ToSet(Cards!EvidenceIn(c.norm.unmapped))) \in Cards!Covered(c).issues
    BY <2>1 DEF Cards!Covered, Cards!Scale
  <2>3. QED BY <1>1, <2>2 DEF Cards!Issue
<1>6. ~ (Cardinality(Cards!Accepted(c)) > 1)
  <2>1. SUFFICES ASSUME Cardinality(Cards!Accepted(c)) > 1  PROVE FALSE
    OBVIOUS
  <2>2. Cards!Issue(<<"multiple_accepted">>, "blocking", Cards!MatchedEvidence(Cards!Accepted(c)))
          \in Cards!Doubts(c).issues
    BY <2>1, SameCardinality, Zenon DEF Cards!Doubts, Cards!Scale
  <2>3. QED BY <1>1, <2>2 DEF Cards!Issue
<1>7. ASSUME Cards!Accepted(c) = {}  PROVE Cards!Proposed(c) = {}
  <2>1. SUFFICES ASSUME Cards!Proposed(c) # {}  PROVE FALSE
    OBVIOUS
  <2>2. Cards!Issue(<<"enrichment_review_required">>, "warning",
                    Cards!MatchedEvidence(Cards!Proposed(c))) \in Cards!Enriched(c).issues
    BY <1>7, <2>1 DEF Cards!Enriched, Cards!Scale
  <2>3. QED BY <1>1, <2>2 DEF Cards!Issue
<1>8. QED BY <1>2, <1>3, <1>4, <1>5, <1>6, <1>7

LEMMA OneOfFew ==
  ASSUME NEW S, IsFiniteSet(S), S # {}, ~ (Cardinality(S) > 1)
  PROVE  Cardinality(S) = 1 /\ \E x : S = {x}
<1>1. Cardinality(S) \in Nat /\ Cardinality(S) # 0
  BY FS_CardinalityType, FS_EmptySet
<1>2. Cardinality(S) = 1
  BY <1>1
<1>3. QED BY <1>2, FS_Singleton

\* A draft that the route calls ready leaves nothing open: one title, a sure
\* identity, every specification in the taxonomy and, among the symbols it
\* shows, just one that is accepted (_route, _compose), for pages and libraries
\* of any size.
THEOREM ReadyIsDecided ==
  ASSUME NEW c, NEW Titles, NEW Specs, NEW Fields, Judged(c, Titles, Specs, Fields)
  PROVE  Cards!ReadyIsSettled(c, Cards!Draft(c, Cards!Report(c)))
<1> DEFINE draft == Cards!Draft(c, Cards!Report(c))
           included == {Cards!Symbol(m) : m \in Cards!Accepted(c) \cup Cards!Proposed(c)}
           spellings == {Casefold[t.value] : t \in Cards!ToSet(c.facts.titles)}
           shown == {s \in included : s.status = "accepted"}
<1>1. /\ draft.route = Cards!Report(c).route /\ draft.symbols = included
      /\ draft.title.review = (c.identity.status # "auto_resolved")
      /\ draft.specifications = Cards!DraftSpecifications(c.norm)
  BY DEF Cards!Draft, Cards!Text
<1> HIDE DEF draft
<1>2. SUFFICES ASSUME Cards!Report(c).route = "ready_to_compose"
      PROVE  /\ ~ draft.title.review
             /\ Cards!Cardinality(spellings) = 1
             /\ "none" \notin {f.path : f \in Cards!ToSet(draft.specifications)}
             /\ Cards!Cardinality(shown) = (IF included = {} THEN 0 ELSE 1)
  BY <1>1, Zenon DEF Cards!ReadyIsSettled, draft
<1>3. /\ c.identity.status = "auto_resolved"
      /\ ~ Cards!Ambiguous(c.facts)
      /\ c.norm.conflicts = {} /\ c.norm.unmapped = << >>
      /\ ~ (Cardinality(Cards!Accepted(c)) > 1)
      /\ Cards!Accepted(c) = {} => Cards!Proposed(c) = {}
  BY <1>2, ReadyCase
<1>4. Cardinality(spellings) = 1
  <2> DEFINE titles == c.facts.titles
  <2>1. titles \in Seq(Titles) /\ titles # << >> /\ Len(titles) \in Nat /\ Len(titles) >= 1
    BY DEF Judged
  <2>2. spellings = {Casefold[titles[k].value] : k \in 1 .. Len(titles)}
    BY <2>1 DEF Cards!ToSet
  <2>3. IsFiniteSet(1 .. Len(titles))
    BY <2>1, FS_Interval
  <2>4. IsFiniteSet(spellings)
    <3> DEFINE spelling == [k \in 1 .. Len(titles) |-> Casefold[titles[k].value]]
    <3>1. spelling \in Surjection(1 .. Len(titles), spellings)
      BY <2>2 DEF Surjection
    <3>2. QED BY <2>3, <3>1, FS_Surjection
  <2>5. spellings # {}
    <3>1. 1 \in 1 .. Len(titles)
      BY <2>1
    <3>2. Casefold[titles[1].value] \in spellings
      BY <2>2, <3>1, Zenon
    <3>3. QED BY <3>2
  <2>6. ~ (Cardinality(spellings) > 1)
    BY <1>3, SameCardinality, Zenon DEF Cards!Ambiguous
  <2> HIDE DEF spellings
  <2>7. QED BY <2>4, <2>5, <2>6, OneOfFew
<1>5. "none" \notin {f.path : f \in Cards!ToSet(draft.specifications)}
  <2> DEFINE specs == c.norm.specifications
             placed == [k \in DOMAIN specs |->
                          [path |-> specs[k].path, value |-> specs[k].value,
                           evidence |-> specs[k].evidence,
                           review |-> specs[k].value.rule = "text"]]
  <2>1. draft.specifications = placed \o << >>
    <3> DEFINE texts == [i \in DOMAIN c.norm.unmapped |->
                           [path |-> "none", value |-> c.norm.unmapped[i].value,
                            evidence |-> c.norm.unmapped[i].evidence, review |-> TRUE]]
    <3>1. draft.specifications = placed \o texts
      BY <1>1, Zenon DEF Cards!DraftSpecifications
    <3>2. texts = << >>
      BY <1>3
    <3>3. QED BY <3>1, <3>2, Zenon
  <2>2. specs \in Seq(Specs) /\ \A s \in Specs : s.path # "none"
    BY DEF Judged
  <2>3. \A k \in DOMAIN specs : placed[k].path # "none"
    BY <2>2
  <2>4. placed \o << >> = placed
    BY <2>2
  <2>5. DOMAIN placed = DOMAIN specs
    OBVIOUS
  <2> HIDE DEF placed, specs
  <2>6. QED BY <2>1, <2>3, <2>4, <2>5 DEF Cards!ToSet
<1>6. Cardinality(shown) = (IF included = {} THEN 0 ELSE 1)
  <2>1. shown = {Cards!Symbol(m) : m \in Cards!Accepted(c)}
    BY DEF Cards!Symbol, Cards!Accepted, Cards!Proposed
  <2>2. CASE Cards!Accepted(c) = {}
    <3>1. shown = {} /\ included = {}
      BY <1>3, <2>2
    <3>2. QED BY <3>1, FS_EmptySet
  <2>3. CASE Cards!Accepted(c) # {}
    <3>1. IsFiniteSet(Cards!Accepted(c))
      BY FS_Subset DEF Cards!Accepted, Judged
    <3>2. PICK m : Cards!Accepted(c) = {m}
      BY <1>3, <2>3, <3>1, OneOfFew
    <3>3. shown = {Cards!Symbol(m)} /\ included # {}
      BY <2>1, <3>2
    <3>4. QED BY <3>3, FS_Singleton
  <2>4. QED BY <2>2, <2>3
<1>7. QED BY <1>1, <1>3, <1>4, <1>5, <1>6, SameCardinality
=============================================================================
