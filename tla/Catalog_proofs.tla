-------------------------- MODULE Catalog_proofs --------------------------
(***************************************************************************)
(* Theorems about Catalog for any number of cards, clients and operations. *)
(***************************************************************************)
EXTENDS Catalog, TLAPS

-----------------------------------------------------------------------------
(* Type correctness.                                                       *)

LEMMA CreateType ==
  ASSUME TypeOK, NEW c \in Components, Create(c)
  PROVE  TypeOK'
<1> USE DEF Create, Spend, Created, Operations
<1>1. candidate' \in [Pairs -> {"none", "low", "high"}]
  <2>1. PICK found \in [Components -> {"none", "low", "high"}] :
          candidate' = [p \in Pairs |->
            IF \E d \in p \ {c} : c \in p /\ found[d] # "none"
            THEN found[CHOOSE d \in p : d # c] ELSE candidate[p]]
    OBVIOUS
  <2>2. ASSUME NEW p \in Pairs
        PROVE  (IF \E d \in p \ {c} : c \in p /\ found[d] # "none"
                THEN found[CHOOSE d \in p : d # c] ELSE candidate[p])
                 \in {"none", "low", "high"}
    <3>1. CASE \E d \in p \ {c} : c \in p /\ found[d] # "none"
      <4>1. (CHOOSE d \in p : d # c) \in p
        BY <3>1
      <4>2. p \subseteq Components
        BY DEF Pairs
      <4>3. QED BY <3>1, <4>1, <4>2
    <3>2. CASE ~ \E d \in p \ {c} : c \in p /\ found[d] # "none"
      BY <3>2 DEF TypeOK
    <3>3. QED BY <3>1, <3>2
  <2>3. QED BY <2>1, <2>2
<1>2. status' \in [Components -> Status \cup {"none"}]
  BY DEF TypeOK, Status
<1>3. \A d \in Components : archivedFrom'[d] # "none" <=> status'[d] = "archived"
  BY DEF TypeOK
<1>4. /\ revision' \in [Components -> Nat]
      /\ token' \in [Components -> Nat]
      /\ content' \in [Components -> Nat]
      /\ sourced' \in [Components -> BOOLEAN]
      /\ left' \in [Operations -> Nat]
  BY DEF TypeOK
<1>5. UNCHANGED <<archivedFrom, basedOn, approved, served, document, pictured, seen>>
  BY DEF public
<1>6. QED BY <1>1, <1>2, <1>3, <1>4, <1>5 DEF TypeOK

LEMMA EditType ==
  ASSUME TypeOK, NEW a \in Actors, NEW c \in Components, Edit(a, c)
  PROVE  TypeOK'
<1> USE DEF TypeOK, Redraft, Editable, EditableStatus, Created, Status, Spend, Operations, Advance,
            cardRows, contents, public, relations
<1>1. CASE Update(a, c)
  BY <1>1 DEF Update, Admits, Rewrite
<1>2. CASE Synchronize(a, c)
  BY <1>2 DEF Synchronize, Rewrite
<1>3. CASE MutateImages(a, c)
  BY <1>3 DEF MutateImages, Admits
<1>4. CASE AttachMedia(a, c)
  BY <1>4 DEF AttachMedia
<1>5. QED BY <1>1, <1>2, <1>3, <1>4 DEF Edit

LEMMA MoveType ==
  ASSUME TypeOK, NEW c \in Components, NEW target \in Status,
         Created(c), Move(c, target), status[c] # target
  PROVE  /\ status' \in [Components -> Status \cup {"none"}]
         /\ archivedFrom' \in [Components -> (Status \ {"archived"}) \cup {"none"}]
         /\ revision' \in [Components -> Nat]
         /\ token' \in [Components -> Nat]
         /\ \A d \in Components : archivedFrom'[d] # "none" <=> status'[d] = "archived"
  BY DEF TypeOK, Move, Advance, Created, Status

LEMMA LifecycleType ==
  ASSUME TypeOK, NEW a \in Actors, NEW c \in Components, Lifecycle(a, c)
  PROVE  TypeOK'
<1> USE DEF TypeOK, Admits, Spend, Operations, contents, public, relations
<1>1. CASE Submit(a, c)
  BY <1>1, MoveType DEF Submit, Status
<1>2. CASE RequestChanges(a, c)
  BY <1>2, MoveType DEF RequestChanges, Status
<1>3. CASE Approve(a, c)
  BY <1>3, MoveType DEF Approve, Approval, Status
<1>4. CASE Publish(a, c)
  BY <1>4, MoveType DEF Publish, Serve, Status
<1>5. CASE ApproveAndPublish(a, c)
  BY <1>5 DEF ApproveAndPublish, Approval, Serve, Status
<1>6. CASE Hide(a, c)
  BY <1>6, MoveType DEF Hide, Unlist, Status
<1>7. CASE Show(a, c)
  BY <1>7, MoveType DEF Show, Serve, Status
<1>8. CASE Archive(a, c)
  BY <1>8, MoveType DEF Archive, Unlist, Status
<1>9. CASE Restore(a, c)
  <2>1. archivedFrom[c] \in Status \ {"archived"}
    BY <1>9 DEF Restore, Status
  <2>2. /\ served' \in [Components -> Nat]
        /\ document' \in [Components -> Nat]
    <3> HIDE DEF TypeOK
    <3>1. served \in [Components -> Nat] /\ document \in [Components -> Nat]
      BY DEF TypeOK
    <3>2. content[c] \in Nat
      BY DEF TypeOK
    <3>3. Serve(c) \/ Unlist(c)
          \/ (document' = [document EXCEPT ![c] = served[c]] /\ UNCHANGED served)
      BY <1>9 DEF Restore, Relist
    <3>4. QED BY <3>1, <3>2, <3>3 DEF Serve, Unlist
  <2>3. /\ Move(c, archivedFrom[c]) /\ Created(c) /\ status[c] = "archived"
    BY <1>9 DEF Restore
  <2>4. /\ status' \in [Components -> Status \cup {"none"}]
        /\ archivedFrom' \in [Components -> (Status \ {"archived"}) \cup {"none"}]
        /\ revision' \in [Components -> Nat]
        /\ token' \in [Components -> Nat]
        /\ \A d \in Components :
             archivedFrom'[d] # "none" <=> status'[d] = "archived"
    BY <2>1, <2>3, MoveType
  <2>5. QED BY <1>9, <2>2, <2>4 DEF Restore
<1>10. QED BY <1>1, <1>2, <1>3, <1>4, <1>5, <1>6, <1>7, <1>8, <1>9 DEF Lifecycle

\* A client that knows the revision of a card knows its status, unless an
\* autosave has made a draft of it since.
StatusKnown(a, c) ==
  seen[a][c].revision = revision[c] =>
    \/ seen[a][c].status = status[c]
    \/ seen[a][c].status \in EditableStatus /\ status[c] = "draft"

LEMMA DecideType ==
  ASSUME TypeOK, NEW a \in Actors, NEW c \in Components, NEW d \in Components,
         Decide(a, c, d), Created(c), Created(d), StatusKnown(a, d)
  PROVE  TypeOK'
<1>1. c # d
  BY DEF Decide
<1>2. CASE Dismiss(a, {c, d})
  <2>1. /\ candidate' \in [Pairs -> {"none", "low", "high"}]
        /\ left' \in [Operations -> Nat]
    <3>1. /\ candidate \in [Pairs -> {"none", "low", "high"}]
          /\ left \in [Operations -> Nat]
      BY DEF TypeOK
    <3>2. candidate' = [candidate EXCEPT ![{c, d}] = "none"]
      BY <1>2 DEF Dismiss
    <3>3. left["merge"] > 0 /\ left' = [left EXCEPT !["merge"] = @ - 1]
      BY <1>2 DEF Dismiss, Decides, Spend
    <3>4. candidate' \in [Pairs -> {"none", "low", "high"}]
      BY <3>1, <3>2, Zenon
    <3>5. left' \in [Operations -> Nat]
      BY <3>1, <3>3 DEF Operations
    <3>6. QED BY <3>4, <3>5
  <2>2. UNCHANGED <<status, archivedFrom, revision, token, content, basedOn,
                    approved, served, document, sourced, pictured, seen>>
    BY <1>2 DEF Dismiss, cardRows, contents, public
  <2>3. QED BY <2>1, <2>2 DEF TypeOK
<1>3. ASSUME NEW fields \in BOOLEAN, Merge(a, c, d, fields)
      PROVE  TypeOK'
  <2> USE <1>1, <1>3 DEF Merge, Both
  <2>1. PICK read \in StatusReadBy(a, d) :
          archivedFrom' =
            [archivedFrom EXCEPT ![c] = "none", ![d] = FormerStatus(d, read)]
    OBVIOUS
  <2>9. FormerStatus(d, read) \in Status \ {"archived"}
    <3>1. seen[a][d].revision = revision[d]
      BY DEF Decides
    <3>2. read = status[d] \/ (read \in EditableStatus /\ status[d] = "draft")
      BY <2>1, <3>1 DEF StatusReadBy, StatusKnown
    <3>3. QED
      BY <3>2 DEF FormerStatus, EditableStatus, Created, Status, TypeOK
  <2>2. /\ status' \in [Components -> Status \cup {"none"}]
        /\ archivedFrom' \in [Components -> (Status \ {"archived"}) \cup {"none"}]
        /\ \A e \in Components :
             archivedFrom'[e] # "none" <=> status'[e] = "archived"
    BY <2>1, <2>9 DEF Status, TypeOK
  <2>3. /\ revision' \in [Components -> Nat]
        /\ token' \in [Components -> Nat]
    <3>1. revision \in [Components -> Nat] /\ token \in [Components -> Nat]
      BY DEF TypeOK
    <3>2. (IF fields THEN 2 ELSE 1) \in Nat
      OBVIOUS
    <3>3. revision' \in [Components -> Nat]
      BY <3>1
    <3>4. token' \in [Components -> Nat]
      BY <3>1, <3>2
    <3>5. QED BY <3>3, <3>4
  <2>4. /\ content' \in [Components -> Nat]
        /\ basedOn' \in [Components -> Nat]
        /\ approved' \in [Components -> SUBSET Nat]
    <3>1. /\ content \in [Components -> Nat]
          /\ basedOn \in [Components -> Nat]
          /\ approved \in [Components -> SUBSET Nat]
          /\ seen[a][c].content \in Nat
      BY DEF TypeOK
    <3>2. CASE fields
      BY <3>1, <3>2 DEF Rewrite
    <3>3. CASE ~ fields
      BY <3>1, <3>3 DEF contents
    <3>4. QED BY <3>2, <3>3
  <2>5. /\ sourced' \in [Components -> BOOLEAN]
        /\ pictured' \in [Components -> BOOLEAN]
    <3>1. /\ sourced \in [Components -> BOOLEAN]
          /\ pictured \in [Components -> BOOLEAN]
      BY DEF TypeOK
    <3>2. PICK ready \in {pictured[c], pictured[d]} :
            pictured' = [pictured EXCEPT ![c] = ready, ![d] = FALSE]
      OBVIOUS
    <3>3. ready \in BOOLEAN
      BY <3>1, <3>2
    <3>4. pictured' \in [Components -> BOOLEAN]
      BY <3>1, <3>2, <3>3, Zenon
    <3>5. (sourced[c] \/ sourced[d]) \in BOOLEAN
      BY <3>1
    <3>6. sourced' = [sourced EXCEPT ![c] = sourced[c] \/ sourced[d], ![d] = FALSE]
      OBVIOUS
    <3>7. sourced' \in [Components -> BOOLEAN]
      BY <3>1, <3>5, <3>6, Zenon
    <3>8. QED BY <3>4, <3>7
  <2>6. /\ candidate' \in [Pairs -> {"none", "low", "high"}]
        /\ left' \in [Operations -> Nat]
    BY DEF Decides, Spend, Operations, TypeOK
  <2>7. /\ served' \in [Components -> Nat]
        /\ document' \in [Components -> Nat]
    BY DEF Unlist, TypeOK
  <2>8. QED BY <2>2, <2>3, <2>4, <2>5, <2>6, <2>7 DEF TypeOK
<1>4. QED BY <1>2, <1>3 DEF Decide

\* Only cards of the catalogue are candidates for a decision.
CandidatesKnown ==
  \A p \in Pairs : candidate[p] # "none" => \A c \in p : Created(c)

\* A card once created exists for ever.
LEMMA CreatedStays ==
  ASSUME TypeOK, CandidatesKnown, [Next]_vars, NEW e \in Components, Created(e)
  PROVE  Created(e)'
<1> SUFFICES ASSUME status' # status PROVE status'[e] # "none"
  BY DEF Created
<1>1. ASSUME NEW c \in Components, Create(c) PROVE status'[e] # "none"
  BY <1>1 DEF Create, Created, TypeOK
<1>2. ASSUME NEW c \in Components, Redraft(c) PROVE status'[e] # "none"
  BY <1>2 DEF Redraft, Created, TypeOK
<1>3. ASSUME NEW c \in Components, NEW target, Move(c, target), target # "none"
      PROVE  status'[e] # "none"
  BY <1>3 DEF Move, Created, TypeOK
<1>4. ASSUME NEW a \in Actors, NEW c \in Components, Lifecycle(a, c)
      PROVE  status'[e] # "none"
  <2>1. CASE Restore(a, c)
    <3>1. Move(c, archivedFrom[c]) /\ archivedFrom[c] # "none"
      BY <2>1 DEF Restore, TypeOK
    <3>2. QED BY <3>1, <1>3
  <2>2. CASE ApproveAndPublish(a, c)
    BY <2>2 DEF ApproveAndPublish, Created, TypeOK
  <2>3. QED
    BY <1>3, <1>4, <2>1, <2>2
    DEF Lifecycle, Submit, RequestChanges, Approve, Publish, Hide, Show, Archive
<1>5. ASSUME NEW a \in Actors, NEW c \in Components, NEW d \in Components,
             Decide(a, c, d)
      PROVE  status'[e] # "none"
  BY <1>5 DEF Decide, Dismiss, Merge, Both, cardRows, Created, TypeOK
<1>6. ASSUME NEW a \in Actors, NEW c \in Components, Edit(a, c)
      PROVE  status'[e] # "none"
  BY <1>2, <1>6 DEF Edit, Update, Synchronize, MutateImages, AttachMedia
<1>7. QED
  BY <1>1, <1>4, <1>5, <1>6 DEF Next, vars, cardRows, ImagesReady, Read

LEMMA CandidatesKnownStep ==
  ASSUME TypeOK, CandidatesKnown, [Next]_vars
  PROVE  CandidatesKnown'
<1> SUFFICES ASSUME NEW p \in Pairs, candidate'[p] # "none", NEW e \in p
             PROVE  Created(e)'
  BY DEF CandidatesKnown
<1>1. e \in Components
  BY DEF Pairs
<1>2. CASE candidate'[p] = candidate[p]
  BY <1>1, <1>2, CreatedStays DEF CandidatesKnown
<1>3. ASSUME NEW c \in Components, Create(c), candidate'[p] # candidate[p]
      PROVE  Created(e)'
  <2>1. PICK found \in [Components -> {"none", "low", "high"}] :
          /\ \A d \in Components :
               found[d] # "none" => status[d] \notin {"none", "archived"}
          /\ candidate' = [q \in Pairs |->
               IF \E d \in q \ {c} : c \in q /\ found[d] # "none"
               THEN found[CHOOSE d \in q : d # c] ELSE candidate[q]]
    BY <1>3 DEF Create
  <2>2. candidate'[p] = found[CHOOSE d \in p : d # c] /\ \E d \in p : d # c /\ c \in p
    BY <1>3, <2>1
  <2>3. PICK d \in p : d # c /\ candidate'[p] = found[d] /\ c \in p
    BY <2>2
  <2>4. d \in Components
    BY DEF Pairs
  <2>5. found[d] # "none"
    BY <2>3
  <2>6. Created(d)
    BY <2>1, <2>4, <2>5 DEF Created
  <2>7. Created(c)'
    BY <1>3 DEF Create, Created, TypeOK
  <2>8. e = c \/ e = d
    BY <2>3 DEF Pairs
  <2>9. QED BY <2>4, <2>6, <2>7, <2>8, CreatedStays
<1>4. ASSUME NEW a \in Actors, NEW c \in Components, NEW d \in Components,
             Decide(a, c, d), candidate'[p] # candidate[p]
      PROVE  FALSE
  <2>1. CASE Dismiss(a, {c, d})
    BY <1>4, <2>1 DEF Dismiss, TypeOK
  <2>2. ASSUME NEW fields \in BOOLEAN, Merge(a, c, d, fields)
        PROVE  FALSE
    BY <1>4, <2>2 DEF Merge
  <2>3. QED BY <1>4, <2>1, <2>2 DEF Decide
<1>5. QED
  <2>1. CASE \E c \in Components : Create(c)
    BY <1>2, <1>3, <2>1
  <2>2. CASE \E a \in Actors, c, d \in Components : Decide(a, c, d)
    BY <1>2, <1>4, <2>2
  <2>3. CASE UNCHANGED candidate
    BY <1>2, <2>3
  <2>4. QED
    BY <2>1, <2>2, <2>3
    DEF Next, vars, relations, ImagesReady, Read, Edit, Lifecycle, Update,
        Synchronize, MutateImages, AttachMedia, Submit, RequestChanges, Approve,
        Publish, ApproveAndPublish, Hide, Show, Archive, Restore

Statuses ==
  \A a \in Actors, c \in Components :
    seen[a][c].revision <= revision[c] /\ StatusKnown(a, c)

LEMMA TypeStep ==
  ASSUME TypeOK, CandidatesKnown, Statuses, [Next]_vars
  PROVE  TypeOK'
<1>1. ASSUME NEW c \in Components, ImagesReady(c) PROVE TypeOK'
  BY <1>1 DEF ImagesReady, TypeOK, cardRows, contents, public
<1>2. ASSUME NEW a \in Actors, NEW c \in Components, Read(a, c) PROVE TypeOK'
  <2>1. seen' \in [Actors -> [Components ->
                     [token : Nat, revision : Nat, content : Nat,
                      status : Status \cup {"none"}]]]
    BY <1>2 DEF Read, TypeOK
  <2>2. QED BY <1>2, <2>1 DEF Read, TypeOK, cardRows, contents, public, relations
<1>3. ASSUME NEW a \in Actors, NEW c \in Components, NEW d \in Components,
             Decide(a, c, d)
      PROVE  TypeOK'
  <2>1. c # d
    BY <1>3 DEF Decide
  <2>2. {c, d} \in Pairs
    BY <2>1 DEF Pairs
  <2>3. candidate[{c, d}] # "none"
    BY <1>3 DEF Decide, Dismiss, Merge, Decides
  <2>4. Created(c) /\ Created(d)
    BY <2>2, <2>3 DEF CandidatesKnown
  <2>5. QED BY <1>3, <2>4, DecideType DEF Statuses
<1>4. CASE UNCHANGED vars
  BY <1>4 DEF vars, cardRows, contents, public, relations, TypeOK
<1>5. QED
  BY <1>1, <1>2, <1>3, <1>4, CreateType, EditType, LifecycleType DEF Next

-----------------------------------------------------------------------------
(* Tokens.                                                                 *)

\* What a step does to a card: nothing, or the token grows, at least as much as
\* the revision, and the revision stays only if an autosave makes a draft.
Counted(c) ==
  \/ UNCHANGED <<token[c], revision[c], content[c], status[c]>>
  \/ /\ token'[c] > token[c]
     /\ revision'[c] + token[c] <= revision[c] + token'[c]
     /\ \/ revision'[c] > revision[c]
        \/ /\ revision'[c] = revision[c] /\ left["sync"] > 0
           /\ Editable(c) /\ status'[c] = "draft"

LEMMA CounterTypes ==
  ASSUME TypeOK
  PROVE  /\ revision \in [Components -> Nat]
         /\ token \in [Components -> Nat]
         /\ content \in [Components -> Nat]
         /\ DOMAIN status = Components
  BY DEF TypeOK

LEMMA AdvanceCounted ==
  ASSUME TypeOK, NEW c \in Components, NEW e \in Components, Advance(c),
         UNCHANGED <<content[e], status[e]>> \/ e = c
  PROVE  Counted(e)
  BY CounterTypes DEF Advance, Counted

LEMMA EditCounted ==
  ASSUME TypeOK, NEW a \in Actors, NEW c \in Components, Edit(a, c),
         NEW e \in Components
  PROVE  Counted(e)
<1>1. Redraft(c) /\ (Rewrite(a, c) \/ UNCHANGED content)
  BY DEF Edit, Update, Synchronize, MutateImages, AttachMedia, contents
<1>2. UNCHANGED <<content[e], status[e]>> \/ e = c
  BY <1>1, CounterTypes DEF Redraft, Rewrite
<1>3. CASE Synchronize(a, c)
  <2>1. left["sync"] > 0 /\ UNCHANGED revision /\ token' = [token EXCEPT ![c] = @ + 2]
    BY <1>3 DEF Synchronize, Spend
  <2>2. Editable(c) /\ status'[c] = "draft"
    BY <1>1, CounterTypes DEF Redraft
  <2>3. QED BY <1>2, <2>1, <2>2, CounterTypes DEF Counted
<1>4. CASE ~ Synchronize(a, c)
  <2>1. Advance(c)
    BY <1>4 DEF Edit, Update, MutateImages, AttachMedia
  <2>2. QED BY <1>2, <2>1, AdvanceCounted
<1>5. QED BY <1>3, <1>4

LEMMA LifecycleCounted ==
  ASSUME TypeOK, NEW a \in Actors, NEW c \in Components, Lifecycle(a, c),
         NEW e \in Components
  PROVE  Counted(e)
<1>1. UNCHANGED content
  BY DEF Lifecycle, Submit, RequestChanges, Approve, Publish, ApproveAndPublish,
         Hide, Show, Archive, Restore, contents
<1>2. CASE ApproveAndPublish(a, c)
  BY <1>1, <1>2, CounterTypes DEF ApproveAndPublish, Counted
<1>3. CASE ~ ApproveAndPublish(a, c)
  <2>1. Advance(c) /\ \E target : status' = [status EXCEPT ![c] = target]
    BY <1>3 DEF Lifecycle, Submit, RequestChanges, Approve, Publish, Hide, Show,
                Archive, Restore, Move
  <2>2. status'[e] = status[e] \/ e = c
    BY <2>1, CounterTypes
  <2>3. QED BY <1>1, <2>1, <2>2, AdvanceCounted
<1>4. QED BY <1>2, <1>3

LEMMA DecideCounted ==
  ASSUME TypeOK, NEW a \in Actors, NEW c \in Components, NEW d \in Components,
         Decide(a, c, d), NEW e \in Components
  PROVE  Counted(e)
<1>1. c # d
  BY DEF Decide
<1>2. CASE Dismiss(a, {c, d})
  BY <1>2 DEF Dismiss, cardRows, contents, Counted
<1>3. ASSUME NEW fields \in BOOLEAN, Merge(a, c, d, fields) PROVE Counted(e)
  <2>1. content'[e] = content[e] \/ e = c
    BY <1>3, CounterTypes DEF Merge, Rewrite, contents
  <2>2. revision'[e] = IF e \in {c, d} THEN revision[e] + 1 ELSE revision[e]
    BY <1>1, <1>3, CounterTypes DEF Merge, Both
  <2>3. /\ e \in {c, d} => token'[e] \in {token[e] + 1, token[e] + 2}
        /\ e \notin {c, d} => token'[e] = token[e]
    BY <1>1, <1>3, CounterTypes DEF Merge, Both
  <2>4. e \notin {c, d} => status'[e] = status[e]
    BY <1>3, CounterTypes DEF Merge, Both
  <2>5. QED BY <2>1, <2>2, <2>3, <2>4, CounterTypes DEF Counted
<1>4. QED BY <1>2, <1>3 DEF Decide

LEMMA StepCounted ==
  ASSUME TypeOK, [Next]_vars, NEW e \in Components
  PROVE  Counted(e) \/ \E c \in Components : Create(c) /\ c = e
<1>1. ASSUME NEW c \in Components, Create(c), c # e PROVE Counted(e)
  BY <1>1, CounterTypes DEF Create, Counted
<1>2. CASE UNCHANGED <<revision, token, content, status>>
  BY <1>2 DEF Counted
<1>3. QED
  BY <1>1, <1>2, EditCounted, LifecycleCounted, DecideCounted
  DEF Next, Read, ImagesReady, vars, cardRows, contents

\* A client knows a token only with the content and the revision it was given
\* for, and the token of a card is ahead of its revision.
Tokens ==
  \A c \in Components :
    /\ revision[c] <= token[c]
    /\ ~ Created(c) => token[c] = 0 /\ content[c] = 0 /\ basedOn[c] = 0
    /\ \A a \in Actors :
         /\ seen[a][c].revision <= seen[a][c].token
         /\ seen[a][c].token <= token[c]
         /\ seen[a][c].token = token[c] =>
              /\ seen[a][c].revision = revision[c]
              /\ seen[a][c].content = content[c]

\* A request the server admits was written by someone who had read the card as
\* it is, although a revision is accepted where a token is expected.
LEMMA AdmittedHasSeen ==
  ASSUME TypeOK, Tokens, NEW a \in Actors, NEW c \in Components, Admits(a, c)
  PROVE  seen[a][c].token = token[c] /\ seen[a][c].content = content[c]
<1>1. /\ token[c] \in Nat
      /\ seen[a][c].token \in Nat
      /\ seen[a][c].revision \in Nat
  BY DEF TypeOK
<1>2. QED BY <1>1 DEF Tokens, Admits

\* Until its creation a card has nothing written about it.
LEMMA WrittenIsCreated ==
  ASSUME TypeOK, CandidatesKnown, [Next]_vars, NEW e \in Components,
         ~ Created(e)'
  PROVE  ~ Created(e) /\ UNCHANGED <<token[e], content[e], basedOn[e]>>
<1>1. ~ Created(e)
  BY CreatedStays
<1>2. ASSUME NEW c \in Components, Create(c)
      PROVE  UNCHANGED <<token[e], content[e], basedOn[e]>>
  <2>1. c # e
    BY <1>2 DEF Create, Created, TypeOK
  <2>2. QED BY <1>2, <2>1, CounterTypes DEF Create
<1>3. ASSUME NEW a \in Actors, NEW c \in Components, Edit(a, c) \/ Lifecycle(a, c)
      PROVE  UNCHANGED <<token[e], content[e], basedOn[e]>>
  <2>1. Created(c)
    BY <1>3 DEF Edit, Update, Synchronize, MutateImages, AttachMedia, Admits,
                Lifecycle, Submit, RequestChanges, Approve, Publish,
                ApproveAndPublish, Hide, Show, Archive, Restore
  <2>2. c # e
    BY <1>1, <2>1
  <2>3. /\ content' = content /\ basedOn' = basedOn
        \/ Rewrite(a, c)
    BY <1>3 DEF Edit, Update, Synchronize, MutateImages, AttachMedia, contents,
                Lifecycle, Submit, RequestChanges, Approve, Publish,
                ApproveAndPublish, Hide, Show, Archive, Restore
  <2>4. UNCHANGED <<content[e], basedOn[e]>>
    BY <2>2, <2>3 DEF Rewrite, TypeOK
  <2>5. Advance(c) \/ \E k \in {2} : token' = [token EXCEPT ![c] = @ + k]
    BY <1>3 DEF Edit, Update, Synchronize, MutateImages, AttachMedia,
                Lifecycle, Submit, RequestChanges, Approve, Publish, Move,
                ApproveAndPublish, Hide, Show, Archive, Restore
  <2>6. QED BY <2>2, <2>4, <2>5, CounterTypes DEF Advance
<1>4. ASSUME NEW a \in Actors, NEW c \in Components, NEW d \in Components,
             Decide(a, c, d)
      PROVE  UNCHANGED <<token[e], content[e], basedOn[e]>>
  <2>1. c # d /\ {c, d} \in Pairs
    BY <1>4 DEF Decide, Pairs
  <2>2. Created(c) /\ Created(d)
    BY <1>4, <2>1 DEF Decide, Dismiss, Merge, Decides, CandidatesKnown
  <2>3. e # c /\ e # d
    BY <1>1, <2>2
  <2>4. CASE Dismiss(a, {c, d})
    BY <2>4 DEF Dismiss, cardRows, contents
  <2>5. ASSUME NEW fields \in BOOLEAN, Merge(a, c, d, fields)
        PROVE  UNCHANGED <<token[e], content[e], basedOn[e]>>
    <3>1. token'[e] = token[e]
      BY <2>3, <2>5, CounterTypes DEF Merge, Both
    <3>2. Rewrite(a, c) \/ UNCHANGED contents
      BY <2>5 DEF Merge
    <3>3. UNCHANGED <<content[e], basedOn[e]>>
      BY <2>3, <3>2 DEF Rewrite, contents, TypeOK
    <3>4. QED BY <3>1, <3>3
  <2>6. QED BY <1>4, <2>4, <2>5 DEF Decide
<1>5. QED
  BY <1>1, <1>2, <1>3, <1>4
  DEF Next, Read, ImagesReady, vars, cardRows, contents

LEMMA ReadsChange ==
  ASSUME [Next]_vars
  PROVE  \/ UNCHANGED seen
         \/ \E a \in Actors, c \in Components : Read(a, c)
<1>1. ASSUME NEW a \in Actors, NEW c \in Components, Edit(a, c)
      PROVE  UNCHANGED seen
  BY <1>1 DEF Edit, Update, Synchronize, MutateImages, AttachMedia
<1>2. ASSUME NEW a \in Actors, NEW c \in Components, Lifecycle(a, c)
      PROVE  UNCHANGED seen
  BY <1>2 DEF Lifecycle, Submit, RequestChanges, Approve, Publish,
              ApproveAndPublish, Hide, Show, Archive, Restore
<1>3. ASSUME NEW a \in Actors, NEW c \in Components, NEW d \in Components,
             Decide(a, c, d)
      PROVE  UNCHANGED seen
  BY <1>3 DEF Decide, Dismiss, Merge
<1>4. QED
  BY <1>1, <1>2, <1>3 DEF Next, vars, Create, ImagesReady

LEMMA TokensStep ==
  ASSUME TypeOK, CandidatesKnown, Statuses, Tokens, [Next]_vars
  PROVE  Tokens'
<1>1. ASSUME NEW e \in Components PROVE revision'[e] <= token'[e]
  <2>1. CASE Counted(e)
    <3>1. revision[e] <= token[e]
      BY DEF Tokens
    <3>2. /\ revision[e] \in Nat
          /\ token[e] \in Nat
          /\ revision'[e] \in Nat
          /\ token'[e] \in Nat
      BY CounterTypes, TypeStep DEF TypeOK
    <3>3. QED BY <2>1, <3>1, <3>2 DEF Counted
  <2>2. CASE Create(e)
    BY <2>2, CounterTypes DEF Create
  <2>3. QED BY <2>1, <2>2, StepCounted
<1>2. ASSUME NEW e \in Components, ~ Created(e)'
      PROVE  token'[e] = 0 /\ content'[e] = 0 /\ basedOn'[e] = 0
  BY <1>2, WrittenIsCreated DEF Tokens
<1>3. ASSUME NEW e \in Components, NEW a \in Actors
      PROVE  /\ seen'[a][e].revision <= seen'[a][e].token
             /\ seen'[a][e].token <= token'[e]
             /\ seen'[a][e].token = token'[e] =>
                  /\ seen'[a][e].revision = revision'[e]
                  /\ seen'[a][e].content = content'[e]
  <2>1. /\ seen[a][e].revision \in Nat
        /\ seen[a][e].token \in Nat
        /\ seen[a][e].content \in Nat
    BY DEF TypeOK
  <2>2. CASE UNCHANGED seen
    <3>1. CASE Counted(e)
      <4>1. token[e] \in Nat /\ token'[e] \in Nat
        BY CounterTypes, TypeStep DEF TypeOK
      <4>2. token'[e] > token[e] \/ UNCHANGED <<token[e], revision[e], content[e]>>
        BY <3>1 DEF Counted
      <4>3. /\ seen[a][e].revision <= seen[a][e].token
            /\ seen[a][e].token <= token[e]
            /\ seen[a][e].token = token[e] =>
                 /\ seen[a][e].revision = revision[e]
                 /\ seen[a][e].content = content[e]
        BY DEF Tokens
      <4>4. QED BY <2>1, <2>2, <4>1, <4>2, <4>3
    <3>2. CASE Create(e)
      <4>1. seen[a][e].token = 0 /\ token'[e] = 1
        <5>1. seen[a][e].token <= token[e] /\ token[e] = 0
          BY <3>2 DEF Create, Tokens
        <5>2. token'[e] = 1
          BY <3>2, CounterTypes DEF Create
        <5>3. QED BY <2>1, <5>1, <5>2
      <4>2. QED BY <2>1, <2>2, <4>1 DEF Tokens
    <3>3. QED BY <3>1, <3>2, StepCounted
  <2>3. ASSUME NEW b \in Actors, NEW c \in Components, Read(b, c)
        PROVE  /\ UNCHANGED <<token, revision, content>>
               /\ \/ seen'[a][e] = seen[a][e]
                  \/ seen'[a][e] = [token |-> token[e], revision |-> revision[e],
                                    content |-> content[e], status |-> status[e]]
    BY <2>3 DEF Read, cardRows, contents, TypeOK
  <2>4. CASE \E b \in Actors, c \in Components : Read(b, c)
    BY <2>1, <2>3, <2>4, CounterTypes DEF Tokens
  <2>5. QED BY <2>2, <2>4, ReadsChange
<1>4. QED BY <1>1, <1>2, <1>3 DEF Tokens

LEMMA StatusesStep ==
  ASSUME TypeOK, CandidatesKnown, Statuses, Tokens, [Next]_vars
  PROVE  Statuses'
<1> SUFFICES ASSUME NEW a \in Actors, NEW e \in Components
             PROVE  (seen[a][e].revision <= revision[e] /\ StatusKnown(a, e))'
  BY DEF Statuses
<1>1. /\ revision[e] \in Nat /\ revision'[e] \in Nat
      /\ seen[a][e].revision \in Nat
  BY TypeStep DEF TypeOK
<1>2. seen[a][e].revision <= revision[e] /\ StatusKnown(a, e)
  BY DEF Statuses
<1>3. CASE UNCHANGED seen
  <2>1. CASE Counted(e)
    <3>1. CASE UNCHANGED <<revision[e], status[e]>>
      BY <1>2, <1>3, <3>1 DEF StatusKnown
    <3>2. CASE revision'[e] > revision[e]
      <4>1. seen'[a][e].revision < revision'[e]
        BY <1>1, <1>2, <1>3, <3>2
      <4>2. QED BY <1>1, <1>3, <4>1 DEF StatusKnown
    <3>3. CASE revision'[e] = revision[e] /\ Editable(e) /\ status'[e] = "draft"
      BY <1>2, <1>3, <3>3 DEF StatusKnown, Editable, EditableStatus
    <3>4. QED BY <2>1, <3>1, <3>2, <3>3 DEF Counted
  <2>2. CASE Create(e)
    <3>1. revision[e] <= token[e] /\ token[e] = 0
      BY <2>2 DEF Create, Tokens
    <3>2. revision'[e] = 1
      BY <2>2, CounterTypes DEF Create
    <3>3. seen'[a][e].revision < revision'[e]
      BY <1>1, <1>2, <1>3, <3>1, <3>2
    <3>4. QED BY <1>1, <1>3, <3>3 DEF StatusKnown
  <2>3. QED BY <2>1, <2>2, StepCounted
<1>4. ASSUME NEW b \in Actors, NEW c \in Components, Read(b, c)
      PROVE  /\ UNCHANGED <<revision, status>>
             /\ \/ seen'[a][e] = seen[a][e]
                \/ seen'[a][e] = [token |-> token[e], revision |-> revision[e],
                                  content |-> content[e], status |-> status[e]]
  BY <1>4 DEF Read, cardRows, contents, TypeOK
<1>5. CASE \E b \in Actors, c \in Components : Read(b, c)
  BY <1>1, <1>2, <1>4, <1>5 DEF StatusKnown
<1>6. QED BY <1>3, <1>5, ReadsChange

\* What every proof below carries along.
CatalogInv == TypeOK /\ CandidatesKnown /\ Statuses /\ Tokens

LEMMA CatalogInvariant == Spec => []CatalogInv
<1>1. Init => CatalogInv
  BY CatalogAssumption
  DEF Init, CatalogInv, TypeOK, CandidatesKnown, Statuses, StatusKnown, Tokens,
      Created, Status
<1>2. CatalogInv /\ [Next]_vars => CatalogInv'
  BY TypeStep, CandidatesKnownStep, StatusesStep, TokensStep DEF CatalogInv
<1>3. QED BY <1>1, <1>2, PTL DEF Spec

\* The types hold for ever, and the constraint that a row has a former status
\* exactly if it is archived: no operation has to be saved by the database.
THEOREM TypeCorrect == Spec => []TypeOK
<1>1. CatalogInv => TypeOK
  BY DEF CatalogInv
<1>2. QED BY <1>1, CatalogInvariant, PTL

-----------------------------------------------------------------------------
(* Where autosaves and merges do not meet.                                 *)

\* An autosave leaves the revision alone, and a merge compares nothing else.
MergeAlone == \A p \in Profiles : p["merge"] = 0 \/ p["sync"] = 0

\* A client that knows the revision of a card knows its content and status.
Revisions ==
  \/ left["merge"] = 0
  \/ /\ left["sync"] = 0
     /\ \A a \in Actors, c \in Components :
          seen[a][c].revision = revision[c] =>
            seen[a][c].content = content[c] /\ seen[a][c].status = status[c]

\* Operations are only spent.
LEMMA SpentOnly ==
  ASSUME TypeOK, [Next]_vars, NEW o \in Operations, left[o] = 0
  PROVE  left'[o] = 0
<1>1. left \in [Operations -> Nat]
  BY DEF TypeOK
<1>2. ASSUME NEW used \in Operations, Spend(used) PROVE left'[o] = 0
  BY <1>1, <1>2 DEF Spend
<1>3. ASSUME NEW c \in Components, Create(c) PROVE left'[o] = 0
  BY <1>2, <1>3 DEF Create, Operations
<1>4. ASSUME NEW a \in Actors, NEW c \in Components, Edit(a, c)
      PROVE  left'[o] = 0
  BY <1>2, <1>4
  DEF Edit, Update, Synchronize, MutateImages, AttachMedia, Operations
<1>5. ASSUME NEW a \in Actors, NEW c \in Components, Lifecycle(a, c)
      PROVE  left'[o] = 0
  BY <1>2, <1>5
  DEF Lifecycle, Submit, RequestChanges, Approve, Publish, ApproveAndPublish,
      Hide, Show, Archive, Restore, Operations
<1>6. ASSUME NEW a \in Actors, NEW c \in Components, NEW d \in Components,
             Decide(a, c, d)
      PROVE  left'[o] = 0
  BY <1>2, <1>6 DEF Decide, Dismiss, Merge, Decides, Operations
<1>7. QED
  BY <1>3, <1>4, <1>5, <1>6 DEF Next, ImagesReady, Read, vars

LEMMA RevisionsStep ==
  ASSUME CatalogInv, Revisions, [Next]_vars
  PROVE  Revisions'
<1> USE DEF CatalogInv
<1>1. CASE left["merge"] = 0
  BY <1>1, SpentOnly DEF Revisions, Operations
<1>2. CASE left["sync"] = 0 /\ left["merge"] # 0
  <2>1. left'["sync"] = 0
    BY <1>2, SpentOnly DEF Operations
  <2>2. ASSUME NEW a \in Actors, NEW e \in Components,
               seen'[a][e].revision = revision'[e]
        PROVE  seen'[a][e].content = content'[e] /\ seen'[a][e].status = status'[e]
    <3>1. /\ revision[e] \in Nat /\ revision'[e] \in Nat
          /\ seen[a][e].revision \in Nat
      BY CounterTypes, TypeStep DEF TypeOK
    <3>2. /\ seen[a][e].revision <= revision[e]
          /\ seen[a][e].revision = revision[e] =>
               seen[a][e].content = content[e] /\ seen[a][e].status = status[e]
      BY <1>2 DEF Revisions, Statuses
    <3>3. CASE UNCHANGED seen
      <4>1. ~ (left["sync"] > 0)
        BY <1>2
      <4>2. CASE Counted(e)
        <5>1. \/ revision'[e] > revision[e]
              \/ UNCHANGED <<revision[e], content[e], status[e]>>
          BY <4>1, <4>2 DEF Counted
        <5>2. QED BY <2>2, <3>1, <3>2, <3>3, <5>1
      <4>3. CASE Create(e)
        <5>1. revision[e] <= token[e] /\ token[e] = 0
          BY <4>3 DEF Create, Tokens
        <5>2. revision'[e] = 1
          BY <4>3, CounterTypes DEF Create
        <5>3. QED BY <2>2, <3>1, <3>2, <3>3, <5>1, <5>2
      <4>4. QED BY <4>2, <4>3, StepCounted
    <3>4. ASSUME NEW b \in Actors, NEW c \in Components, Read(b, c)
          PROVE  /\ UNCHANGED <<revision, content, status>>
                 /\ \/ seen'[a][e] = seen[a][e]
                    \/ seen'[a][e] = [token |-> token[e], revision |-> revision[e],
                                      content |-> content[e], status |-> status[e]]
      BY <3>4 DEF Read, cardRows, contents, TypeOK
    <3>5. CASE \E b \in Actors, c \in Components : Read(b, c)
      BY <2>2, <3>1, <3>2, <3>4, <3>5
    <3>6. QED BY <3>3, <3>5, ReadsChange
  <2>3. QED BY <2>1, <2>2 DEF Revisions
<1>3. QED BY <1>1, <1>2 DEF Revisions

LEMMA RevisionsInvariant ==
  ASSUME MergeAlone
  PROVE  Spec => []Revisions
<1>1. Init => Revisions
  BY CatalogAssumption DEF Init, Revisions, MergeAlone
<1>2. CatalogInv /\ Revisions /\ [Next]_vars => Revisions'
  BY RevisionsStep
<1>3. QED BY <1>1, <1>2, CatalogInvariant, PTL DEF Spec

-----------------------------------------------------------------------------
(* Students read what was approved.                                        *)

Reviewed == {"approved", "published", "hidden"}

\* The content of a card is one a reviewer approved for as long as it may be
\* published without another review, in the archive too; and what is served.
ApprovedCard(c) ==
  /\ served[c] # 0 => served[c] \in approved[c]
  /\ status[c] \in Reviewed \/ archivedFrom[c] \in Reviewed =>
       content[c] \in approved[c]

ApprovedCards == \A c \in Components : ApprovedCard(c)

LEMMA ReviewTypes ==
  ASSUME TypeOK
  PROVE  /\ status \in [Components -> Status \cup {"none"}]
         /\ archivedFrom \in [Components -> (Status \ {"archived"}) \cup {"none"}]
         /\ content \in [Components -> Nat]
         /\ approved \in [Components -> SUBSET Nat]
         /\ served \in [Components -> Nat]
         /\ document \in [Components -> Nat]
         /\ \A c \in Components : archivedFrom[c] # "none" <=> status[c] = "archived"
  BY DEF TypeOK

LEMMA EditApproved ==
  ASSUME TypeOK, ApprovedCards, NEW a \in Actors, NEW c \in Components, Edit(a, c)
  PROVE  ApprovedCards'
<1>1. Redraft(c) /\ UNCHANGED <<served, approved>>
  BY DEF Edit, Update, Synchronize, MutateImages, AttachMedia, Rewrite, contents,
         public
<1>2. \A e \in Components : e # c => content'[e] = content[e]
  BY ReviewTypes DEF Edit, Update, Synchronize, MutateImages, AttachMedia, Rewrite,
                     contents
<1>3. QED
  BY <1>1, <1>2, ReviewTypes DEF Redraft, ApprovedCards, ApprovedCard, Reviewed

LEMMA LifecycleApproved ==
  ASSUME TypeOK, Tokens, ApprovedCards,
         NEW a \in Actors, NEW c \in Components, Lifecycle(a, c)
  PROVE  ApprovedCards'
<1> USE DEF ApprovedCards, ApprovedCard, Reviewed
<1>1. UNCHANGED content
  BY DEF Lifecycle, Submit, RequestChanges, Approve, Publish, ApproveAndPublish,
         Hide, Show, Archive, Restore, contents
<1>2. CASE Submit(a, c) \/ RequestChanges(a, c)
  BY <1>1, <1>2, ReviewTypes
  DEF Submit, RequestChanges, Move, contents, public
<1>3. CASE Approve(a, c)
  BY <1>1, <1>3, ReviewTypes, AdmittedHasSeen
  DEF Approve, Approval, Move, public
<1>4. CASE Publish(a, c)
  BY <1>1, <1>4, ReviewTypes DEF Publish, Serve, Move, contents
<1>5. CASE ApproveAndPublish(a, c)
  <2>1. seen[a][c].content = content[c]
    BY <1>5 DEF ApproveAndPublish, Tokens
  <2>2. QED
    BY <1>1, <1>5, <2>1, ReviewTypes DEF ApproveAndPublish, Approval, Serve
<1>6. CASE Hide(a, c)
  BY <1>1, <1>6, ReviewTypes DEF Hide, Unlist, Move, contents
<1>7. CASE Show(a, c)
  BY <1>1, <1>7, ReviewTypes DEF Show, Serve, Move, contents
<1>8. CASE Archive(a, c)
  BY <1>1, <1>8, ReviewTypes DEF Archive, Unlist, Move, contents
<1>9. CASE Restore(a, c)
  <2>1. /\ status' = [status EXCEPT ![c] = archivedFrom[c]]
        /\ archivedFrom' = [archivedFrom EXCEPT ![c] = "none"]
        /\ UNCHANGED approved
    <3>1. archivedFrom[c] # "archived" /\ Move(c, archivedFrom[c])
      BY <1>9, ReviewTypes DEF Restore, Status
    <3>2. QED BY <1>9, <3>1 DEF Restore, Move, contents
  <2>2. UNCHANGED served \/ (archivedFrom[c] = "published" /\ Serve(c))
    BY <1>9 DEF Restore, Relist, Unlist
  <2>3. QED BY <1>1, <2>1, <2>2, ReviewTypes DEF Serve
<1>10. QED
  BY <1>2, <1>3, <1>4, <1>5, <1>6, <1>7, <1>8, <1>9 DEF Lifecycle

LEMMA DecideApproved ==
  ASSUME TypeOK, Revisions, ApprovedCards, NEW a \in Actors, NEW c \in Components,
         NEW d \in Components, Decide(a, c, d)
  PROVE  ApprovedCards'
<1> USE DEF ApprovedCards, ApprovedCard, Reviewed
<1>1. c # d
  BY DEF Decide
<1>2. CASE Dismiss(a, {c, d})
  BY <1>2 DEF Dismiss, cardRows, contents, public
<1>3. ASSUME NEW fields \in BOOLEAN, Merge(a, c, d, fields) PROVE ApprovedCards'
  <2>0. StatusReadBy(a, d) = {status[d]}
    <3>1. left["merge"] > 0 /\ seen[a][d].revision = revision[d]
      BY <1>3 DEF Merge, Decides, Spend
    <3>2. QED BY <3>1 DEF Revisions, StatusReadBy
  <2>1. /\ status' = [status EXCEPT ![c] = "draft", ![d] = "archived"]
        /\ archivedFrom' =
             [archivedFrom EXCEPT ![c] = "none", ![d] = FormerStatus(d, status[d])]
        /\ UNCHANGED <<served, approved>>
    BY <1>3, <2>0 DEF Merge, Both, Unlist, Rewrite, contents
  <2>2. \A e \in Components : e # c => content'[e] = content[e]
    BY <1>3, ReviewTypes DEF Merge, Rewrite, contents
  <2>3. QED BY <1>1, <2>1, <2>2, ReviewTypes DEF FormerStatus
<1>4. QED BY <1>2, <1>3 DEF Decide

LEMMA ApprovedStep ==
  ASSUME TypeOK, Tokens, Revisions, ApprovedCards, [Next]_vars
  PROVE  ApprovedCards'
<1>1. ASSUME NEW c \in Components, Create(c) PROVE ApprovedCards'
  BY <1>1, ReviewTypes
  DEF Create, Created, public, ApprovedCards, ApprovedCard, Reviewed
<1>2. CASE UNCHANGED <<status, archivedFrom, content, approved, served>>
  BY <1>2 DEF ApprovedCards, ApprovedCard
<1>3. QED
  BY <1>1, <1>2, EditApproved, LifecycleApproved, DecideApproved
  DEF Next, Read, ImagesReady, vars, cardRows, contents, public

\* Students read only what a reviewer has read and approved, with any number of
\* editors and requests under way, with tokens or with revisions, restored cards
\* included, where merges and autosaves do not meet (docs/REQUIREMENTS.md:239,
\* REQ-CARD-006).
THEOREM ServedApproved ==
  ASSUME MergeAlone
  PROVE  Spec => []ServedWasApproved
<1>1. Init => ApprovedCards
  BY DEF Init, ApprovedCards, ApprovedCard, Reviewed
<1>2. CatalogInv /\ Revisions /\ ApprovedCards /\ [Next]_vars => ApprovedCards'
  BY ApprovedStep DEF CatalogInv
<1>3. ApprovedCards => ServedWasApproved
  BY DEF ApprovedCards, ApprovedCard, ServedWasApproved
<1>4. QED BY <1>1, <1>2, <1>3, CatalogInvariant, RevisionsInvariant, PTL DEF Spec

-----------------------------------------------------------------------------
(* No lost updates.                                                        *)

LEMMA NothingOverwritten ==
  ASSUME CatalogInv, Revisions, [Next]_vars, NEW e \in Components,
         content'[e] # content[e]
  PROVE  basedOn'[e] = content[e]
<1> USE DEF CatalogInv
<1>1. ASSUME NEW c \in Components, Create(c) PROVE basedOn'[e] = content[e]
  <2>1. e = c
    BY <1>1, CounterTypes DEF Create
  <2>2. QED BY <1>1, <2>1 DEF Create, Tokens
<1>2. ASSUME NEW a \in Actors, NEW c \in Components, Rewrite(a, c),
             seen[a][c].content = content[c]
      PROVE  basedOn'[e] = content[e]
  <2>1. e = c
    BY <1>2, CounterTypes DEF Rewrite
  <2>2. QED BY <1>2, <2>1 DEF Rewrite, TypeOK
<1>3. ASSUME NEW a \in Actors, NEW c \in Components, Edit(a, c)
      PROVE  basedOn'[e] = content[e]
  <2>1. CASE Update(a, c)
    BY <1>2, <2>1, AdmittedHasSeen DEF Update
  <2>2. CASE Synchronize(a, c)
    <3>1. seen[a][c].content = content[c]
      BY <2>2 DEF Synchronize, Tokens
    <3>2. QED BY <1>2, <2>2, <3>1 DEF Synchronize
  <2>3. QED
    BY <1>3, <2>1, <2>2 DEF Edit, MutateImages, AttachMedia, contents
<1>4. ASSUME NEW a \in Actors, NEW c \in Components, Lifecycle(a, c)
      PROVE  FALSE
  BY <1>4
  DEF Lifecycle, Submit, RequestChanges, Approve, Publish, ApproveAndPublish,
      Hide, Show, Archive, Restore, contents
<1>5. ASSUME NEW a \in Actors, NEW c \in Components, NEW d \in Components,
             Decide(a, c, d)
      PROVE  basedOn'[e] = content[e]
  <2>1. PICK fields \in BOOLEAN : Merge(a, c, d, fields)
    BY <1>5 DEF Decide, Dismiss, contents
  <2>2. Rewrite(a, c)
    BY <2>1 DEF Merge, contents
  <2>3. left["merge"] > 0 /\ seen[a][c].revision = revision[c]
    BY <2>1 DEF Merge, Decides, Spend
  <2>4. seen[a][c].content = content[c]
    BY <2>3 DEF Revisions
  <2>5. QED BY <1>2, <2>2, <2>4
<1>6. QED
  BY <1>1, <1>3, <1>4, <1>5 DEF Next, Read, ImagesReady, vars, contents

\* No editor overwrites content he has not read, in any catalogue where
\* duplicates are not merged while cards are autosaved: the tokens protect all
\* the endpoints that compare them, and the merge, which compares revisions
\* only, as long as each change of content makes a revision.
THEOREM NoOverwrite ==
  ASSUME MergeAlone
  PROVE  Spec => NoLostUpdate
<1>1. CatalogInv /\ Revisions /\ [Next]_vars =>
        [\A c \in Components :
           content'[c] # content[c] => basedOn'[c] = content[c]]_vars
  BY NothingOverwritten
<1>2. QED BY <1>1, CatalogInvariant, RevisionsInvariant, PTL DEF Spec, NoLostUpdate

-----------------------------------------------------------------------------
(* The search shows what is served, where nothing is merged.               *)

NoMerges == \A p \in Profiles : p["merge"] = 0

\* The document of a card is that of its snapshot, unless it is withdrawn.
DocumentFollows ==
  /\ left["merge"] = 0
  /\ \A c \in Components :
       document[c] = IF status[c] \in {"hidden", "archived"} THEN 0 ELSE served[c]

LEMMA DocumentStep ==
  ASSUME TypeOK, DocumentFollows, [Next]_vars
  PROVE  DocumentFollows'
<1>1. left'["merge"] = 0
  BY SpentOnly DEF DocumentFollows, Operations
<1>2. ASSUME NEW c \in Components, Create(c) PROVE DocumentFollows'
  BY <1>1, <1>2, ReviewTypes DEF Create, Created, public, DocumentFollows
<1>3. ASSUME NEW a \in Actors, NEW c \in Components, Edit(a, c)
      PROVE  DocumentFollows'
  <2>1. Redraft(c) /\ UNCHANGED public
    BY <1>3 DEF Edit, Update, Synchronize, MutateImages, AttachMedia
  <2>2. QED
    BY <1>1, <2>1, ReviewTypes
    DEF Redraft, Editable, EditableStatus, public, DocumentFollows
<1>4. ASSUME NEW a \in Actors, NEW c \in Components, Lifecycle(a, c)
      PROVE  DocumentFollows'
  <2> USE ReviewTypes, <1>1 DEF Move, DocumentFollows
  <2>1. CASE Submit(a, c) \/ RequestChanges(a, c) \/ Approve(a, c)
    BY <2>1 DEF Submit, RequestChanges, Approve, public
  <2>2. CASE Publish(a, c) \/ Show(a, c)
    BY <2>2 DEF Publish, Show, Serve
  <2>3. CASE ApproveAndPublish(a, c)
    BY <2>3 DEF ApproveAndPublish, Serve
  <2>4. CASE Hide(a, c) \/ Archive(a, c)
    BY <2>4 DEF Hide, Archive, Unlist
  <2>5. CASE Restore(a, c)
    <3>1. archivedFrom[c] # "archived" /\ status' = [status EXCEPT ![c] = archivedFrom[c]]
      BY <2>5 DEF Restore, Status
    <3>2. CASE archivedFrom[c] = "published"
      BY <2>5, <3>1, <3>2 DEF Restore, Relist, Serve
    <3>3. CASE archivedFrom[c] = "hidden"
      BY <2>5, <3>1, <3>3 DEF Restore, Relist, Unlist
    <3>4. CASE archivedFrom[c] \notin {"published", "hidden"}
      BY <2>5, <3>1, <3>4 DEF Restore, Relist
    <3>5. QED BY <3>2, <3>3, <3>4
  <2>6. QED
    BY <1>4, <2>1, <2>2, <2>3, <2>4, <2>5 DEF Lifecycle
<1>5. ASSUME NEW a \in Actors, NEW c \in Components, NEW d \in Components,
             Decide(a, c, d)
      PROVE  FALSE
  <2>1. left["merge"] > 0
    BY <1>5 DEF Decide, Dismiss, Merge, Decides, Spend
  <2>2. QED BY <2>1 DEF DocumentFollows
<1>6. CASE UNCHANGED <<status, public>>
  BY <1>1, <1>6 DEF DocumentFollows, public
<1>7. QED
  BY <1>2, <1>3, <1>4, <1>5, <1>6
  DEF Next, Read, ImagesReady, vars, cardRows, public

\* A card is listed exactly if its page can be read, and is found by what the
\* page shows, through any number of edits, publications, withdrawals and
\* restorations, where no duplicates are merged.
THEOREM SearchShows ==
  ASSUME NoMerges
  PROVE  Spec => []SearchShowsWhatIsServed
<1>1. Init => DocumentFollows
  BY CatalogAssumption DEF Init, DocumentFollows, NoMerges
<1>2. CatalogInv /\ DocumentFollows /\ [Next]_vars => DocumentFollows'
  BY DocumentStep DEF CatalogInv
<1>3. DocumentFollows => SearchShowsWhatIsServed
  BY DEF DocumentFollows, SearchShowsWhatIsServed, Readable, Listed
<1>4. QED BY <1>1, <1>2, <1>3, CatalogInvariant, PTL DEF Spec
=============================================================================
