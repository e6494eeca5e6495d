--------------------------- MODULE DuplicateScores ---------------------------
(***************************************************************************)
(* How alike two cards are, and the open candidates a new card gets        *)
(* (deduplication/scoring.py, FuzzyCandidateService).  Pure functions: a   *)
(* text is a model value with its normal form and its words, a hash is the *)
(* value it is taken of, the similarity of two texts by trigrams and the   *)
(* distance of two pictures are parameters.  A score is a number of parts  *)
(* of Scale, which every quotient over small sets divides.                 *)
(***************************************************************************)
EXTENDS Naturals, FiniteSets, FiniteSetsExt, Sequences, SequencesExt

CONSTANTS
  NoText,      \* a text without words, an absent text
  Normal,      \* normalize_text
  Words,       \* the words of a text's normal form
  Trigram,     \* similarity of pg_trgm, in parts of Scale
  Distance,    \* bits two perceptual hashes differ in
  Limit        \* cards looked at: 50

Scale == 20160
Percent(n) == (n * Scale) \div 100

Rate(n, d) == IF d = 0 THEN 0 ELSE (n * Scale) \div d

Jaccard(s, t) ==
  IF s = {} \/ t = {} THEN 0 ELSE Rate(Cardinality(s \cap t), Cardinality(s \cup t))

Tokens(card) == UNION {Words[t] : t \in {card.title, card.maker, card.model} \cup card.aliases}

\* The pairs of maker and of model both cards name.
Compared(a, b) ==
  {f \in {"maker", "model"} : Normal[a[f]] # NoText /\ Normal[b[f]] # NoText}

Agrees(a, b, f) == Normal[a[f]] = Normal[b[f]]

Identity(a, b) ==
  Rate(Cardinality({f \in Compared(a, b) : Agrees(a, b, f)}), Cardinality(Compared(a, b)))

\* A dict of normal forms: the last value of a key.
SpecValues(specs) ==
  [k \in {Normal[specs[n][1]] : n \in DOMAIN specs} |->
     LET last == Max({n \in DOMAIN specs : Normal[specs[n][1]] = k})
     IN Normal[specs[last][2]]]

Fingerprint(specs) ==
  {s \in {<<Normal[specs[n][1]], Normal[specs[n][2]]>> : n \in DOMAIN specs} :
     s[1] # NoText /\ s[2] # NoText}

\* The missing keys of the other card count as different.
SpecConflictsOneSided(a, b) ==
  LET left == SpecValues(a.specs)
      right == SpecValues(b.specs)
  IN Cardinality({k \in DOMAIN left : k \in DOMAIN right => left[k] # right[k]})

SpecConflicts(a, b) ==
  LET left == SpecValues(a.specs)
      right == SpecValues(b.specs)
  IN Cardinality({k \in DOMAIN left \cap DOMAIN right : left[k] # right[k]})

Closest(s, t) ==
  IF s = {} \/ t = {} THEN 0
  ELSE Max({((64 - Distance[x][y]) * Scale) \div 64 : x \in s, y \in t})

Penalties(a, b) ==
  (IF "maker" \in Compared(a, b) /\ ~ Agrees(a, b, "maker") THEN Percent(15) ELSE 0)
  + (IF "model" \in Compared(a, b) /\ ~ Agrees(a, b, "model") THEN Percent(25) ELSE 0)
  + Min({Percent(20), Percent(5) * SpecConflicts(a, b)})

Signal(value, weight, active) == [value |-> value, weight |-> weight, active |-> active]

Both(s, t) == s # {} /\ t # {}

\* Weights in twentieths.
Signals(a, b, trigram) ==
  <<Signal(Min({Scale, trigram}), 5, TRUE),
    Signal(Jaccard(Tokens(a), Tokens(b)), 4, TRUE),
    Signal(Identity(a, b), 3, Compared(a, b) # {}),
    Signal(Jaccard(Fingerprint(a.specs), Fingerprint(b.specs)), 3,
           a.specs # << >> /\ b.specs # << >>),
    Signal(Jaccard(a.texts, b.texts), 2, Both(a.texts, b.texts)),
    Signal(Jaccard(a.pictures, b.pictures), 2, Both(a.pictures, b.pictures)),
    Signal(Closest(a.hashes, b.hashes), 1, Both(a.hashes, b.hashes))>>

\* The mean of the signals both cards have.
Mean(signals) ==
  LET active == SelectSeq(signals, LAMBDA s : s.active)
      weight == FoldLeft(LAMBDA n, s : n + s.weight, 0, active)
      total == FoldLeft(LAMBDA n, s : n + s.value * s.weight, 0, active)
  IN total \div weight

\* The mean less the penalties.
ScorePair(a, b, trigram) ==
  LET mean == Mean(Signals(a, b, trigram))
  IN IF mean > Penalties(a, b) THEN mean - Penalties(a, b) ELSE 0

CandidateThreshold == Percent(35)
PreselectionThreshold == Percent(20)

Similarity(a, b) == Max({Trigram[a.title][b.title], Trigram[a.model][b.model]})

\* _preselect: the most similar titles and models, archived cards apart.
Preselected(cards, source) ==
  LET matches == {c \in DOMAIN cards \ {source} :
        /\ ~ cards[c].archived
        /\ \/ Trigram[cards[c].title][cards[source].title] >= PreselectionThreshold
           \/ /\ cards[source].model # NoText
              /\ Trigram[cards[c].model][cards[source].model] >= PreselectionThreshold}
      above(c) == {d \in matches : \/ Similarity(cards[d], cards[source])
                                        > Similarity(cards[c], cards[source])
                                   \/ /\ Similarity(cards[d], cards[source])
                                           = Similarity(cards[c], cards[source])
                                      /\ d < c}
  IN {c \in matches : Cardinality(above(c)) < Limit}

\* FuzzyCandidateService.generate: the open candidates of a new card, keyed
\* by the pair; a pair that has one gets the new score.
Generate(open, cards, source) ==
  LET score(c) == ScorePair(cards[source], cards[c], Similarity(cards[source], cards[c]))
      found == {c \in Preselected(cards, source) : score(c) >= CandidateThreshold}
      other(p) == CHOOSE c \in p : c # source
  IN [p \in DOMAIN open \cup {{source, c} : c \in found} |->
        IF \E c \in found : p = {source, c} THEN score(other(p)) ELSE open[p]]

-----------------------------------------------------------------------------
(* What generations promise each other.                                    *)

\* The generation of `second`, run after that of `first`, leaves every row as
\* that left it, and an open candidate is new only between `first` and a card
\* that is not archived (FuzzyCandidateService.generate).
GenerationsAgree(open, cards, first, second) ==
  LET left == Generate(open, cards, first)
      then == Generate(left, cards, second)
  IN
  /\ DOMAIN open \subseteq DOMAIN left
  /\ \A p \in DOMAIN left :
       then[p] = left[p] \/ (p \in DOMAIN open /\ left[p] = open[p])
  /\ \A p \in DOMAIN left \ DOMAIN open :
       first \in p /\ \A c \in p \ {first} : ~ cards[c].archived
=============================================================================
