------------------------------ MODULE Catalog ------------------------------
(***************************************************************************)
(* The cards of the catalogue: their lifecycle, the revisions and edit     *)
(* tokens that keep concurrent editors apart, the snapshot and the search  *)
(* document students see, and the decisions about duplicates.              *)
(*                                                                         *)
(* Every operation locks its cards, checks what the client has sent and    *)
(* commits once, so an operation is an action.  What interleaves are the   *)
(* clients: each sends back the token and the revision of the card it has  *)
(* read, and others write in between.  A decision about duplicates reads   *)
(* before it locks; StatusReadBy is what it may have read.                 *)
(***************************************************************************)
EXTENDS Naturals

CONSTANTS
  Components,   \* cards
  Actors,       \* editors and administrators, each with a browser tab
  Manual,       \* cards with manual_original: they need no source
  Profiles      \* bounds: how often each operation may happen in a behaviour

Operations ==
  {"create", "edit", "sync", "pictures", "attach", "rework", "hide",
   "archive", "restore", "merge"}

ASSUME CatalogAssumption ==
  /\ Manual \subseteq Components
  /\ Profiles \subseteq [Operations -> Nat]

VARIABLES
  status,        \* components.status, "none" before the card is created
  archivedFrom,  \* components.archived_from_status, "none" for NULL
  revision,      \* components.revision
  token,         \* components.edit_token
  content,       \* the content of the card, as the number of its version
  basedOn,       \* history: the version the writer of this content had read
  approved,      \* history: the versions a reviewer has read and approved
  served,        \* content of the last revision with status published, or 0
  document,      \* content of its published_search_documents row, or 0
  sourced,       \* the card has source records
  pictured,      \* its images are ready and one is primary
  candidate,     \* the open duplicate candidate of a pair
  seen,          \* what a client has read of a card
  left           \* how often each operation may still happen

cardRows == <<status, archivedFrom, revision, token>>
contents == <<content, basedOn, approved>>
public == <<served, document>>
relations == <<sourced, pictured, candidate>>
vars == <<cardRows, contents, public, relations, seen, left>>

Status ==
  {"draft", "in_review", "changes_requested", "approved", "published",
   "hidden", "archived"}

Pairs == {p \in SUBSET Components : \E c, d \in p : c # d /\ p = {c, d}}

Created(c) == status[c] # "none"

\* The last conjunct is the check constraint on archived_from_status.
TypeOK ==
  /\ status \in [Components -> Status \cup {"none"}]
  /\ archivedFrom \in [Components -> (Status \ {"archived"}) \cup {"none"}]
  /\ revision \in [Components -> Nat]
  /\ token \in [Components -> Nat]
  /\ content \in [Components -> Nat]
  /\ basedOn \in [Components -> Nat]
  /\ approved \in [Components -> SUBSET Nat]
  /\ served \in [Components -> Nat]
  /\ document \in [Components -> Nat]
  /\ sourced \in [Components -> BOOLEAN]
  /\ pictured \in [Components -> BOOLEAN]
  /\ candidate \in [Pairs -> {"none", "low", "high"}]
  /\ seen \in [Actors -> [Components ->
                 [token : Nat, revision : Nat, content : Nat,
                  status : Status \cup {"none"}]]]
  /\ left \in [Operations -> Nat]
  /\ \A c \in Components : archivedFrom[c] # "none" <=> status[c] = "archived"

Init ==
  /\ status = [c \in Components |-> "none"]
  /\ archivedFrom = [c \in Components |-> "none"]
  /\ revision = [c \in Components |-> 0]
  /\ token = [c \in Components |-> 0]
  /\ content = [c \in Components |-> 0]
  /\ basedOn = [c \in Components |-> 0]
  /\ approved = [c \in Components |-> {}]
  /\ served = [c \in Components |-> 0]
  /\ document = [c \in Components |-> 0]
  /\ sourced = [c \in Components |-> FALSE]
  /\ pictured = [c \in Components |-> FALSE]
  /\ candidate = [p \in Pairs |-> "none"]
  /\ seen = [a \in Actors |-> [c \in Components |->
               [token |-> 0, revision |-> 0, content |-> 0, status |-> "none"]]]
  /\ left \in Profiles

Spend(operation) ==
  left[operation] > 0 /\ left' = [left EXCEPT ![operation] = @ - 1]

-----------------------------------------------------------------------------
(* Clients.                                                                *)

Read(a, c) ==
  /\ Created(c)
  /\ seen' = [seen EXCEPT ![a][c] = [token |-> token[c], revision |-> revision[c],
                 content |-> content[c], status |-> status[c]]]
  /\ UNCHANGED <<cardRows, contents, public, relations, left>>

\* Mutant: the semantic revision alone is compared.
AdmitsByRevision(a, c) == Created(c) /\ seen[a][c].revision = revision[c]

\* DocumentSynchronization.lock, and _legacy_token_guard with the check of the
\* revision that follows it.  A client that knows no tokens sends its revision
\* in place of one.
Admits(a, c) ==
  /\ Created(c)
  /\ \/ seen[a][c].token = token[c]
     \/ seen[a][c].revision = token[c] /\ seen[a][c].revision = revision[c]

\* An imported card has a source, and the detector may find it similar to
\* others (FuzzyCandidateService.generate, which skips archived cards).
Create(c) ==
  /\ ~ Created(c)
  /\ Spend("create")
  /\ status' = [status EXCEPT ![c] = "draft"]
  /\ revision' = [revision EXCEPT ![c] = 1]
  /\ token' = [token EXCEPT ![c] = 1]
  /\ content' = [content EXCEPT ![c] = 1]
  /\ sourced' = [sourced EXCEPT ![c] = c \notin Manual]
  /\ \E found \in [Components -> {"none", "low", "high"}] :
       /\ \A d \in Components :
            found[d] # "none" =>
              c \notin Manual /\ status[d] \notin {"none", "archived"}
       /\ candidate' = [p \in Pairs |->
            IF \E d \in p \ {c} : c \in p /\ found[d] # "none"
            THEN found[CHOOSE d \in p : d # c] ELSE candidate[p]]
  /\ UNCHANGED <<archivedFrom, basedOn, approved, public, pictured, seen>>

EditableStatus == {"draft", "changes_requested", "published"}

Editable(c) == status[c] \in EditableStatus

\* The card becomes a draft again; what is published stays.
Redraft(c) ==
  /\ Editable(c)
  /\ status' = [status EXCEPT ![c] = "draft"]
  /\ archivedFrom' = [archivedFrom EXCEPT ![c] = "none"]

Advance(c) ==
  /\ revision' = [revision EXCEPT ![c] = @ + 1]
  /\ token' = [token EXCEPT ![c] = @ + 1]

Rewrite(a, c) ==
  /\ content' = [content EXCEPT ![c] = @ + 1]
  /\ basedOn' = [basedOn EXCEPT ![c] = seen[a][c].content]
  /\ UNCHANGED approved

\* CatalogService.update
Update(a, c) ==
  /\ Spend("edit")
  /\ Admits(a, c)
  /\ Redraft(c) /\ Advance(c) /\ Rewrite(a, c)
  /\ UNCHANGED <<public, relations, seen>>

\* DocumentSynchronization.synchronize: update and mutate_images without a
\* revision, each flushed and so counted by the trigger of edit_token.
Synchronize(a, c) ==
  /\ Spend("sync")
  /\ Created(c) /\ seen[a][c].token = token[c]
  /\ Redraft(c) /\ Rewrite(a, c)
  /\ token' = [token EXCEPT ![c] = @ + 2]
  /\ \E ready \in BOOLEAN : pictured' = [pictured EXCEPT ![c] = ready]
  /\ UNCHANGED <<revision, public, sourced, candidate, seen>>

\* CatalogService.mutate_images
MutateImages(a, c) ==
  /\ Spend("pictures")
  /\ Admits(a, c)
  /\ Redraft(c) /\ Advance(c)
  /\ \E ready \in BOOLEAN : pictured' = [pictured EXCEPT ![c] = ready]
  /\ UNCHANGED <<contents, public, sourced, candidate, seen>>

\* touch_media_attachment: the new image is not ready, and the upload sends the
\* revision only.
AttachMedia(a, c) ==
  /\ Spend("attach")
  /\ Created(c) /\ seen[a][c].revision = revision[c]
  /\ Redraft(c) /\ Advance(c)
  /\ pictured' = [pictured EXCEPT ![c] = FALSE]
  /\ UNCHANGED <<contents, public, sourced, candidate, seen>>

\* The worker has processed the images.
ImagesReady(c) ==
  /\ Created(c) /\ ~ pictured[c]
  /\ pictured' = [pictured EXCEPT ![c] = TRUE]
  /\ UNCHANGED <<cardRows, contents, public, sourced, candidate, seen, left>>

-----------------------------------------------------------------------------
(* The lifecycle: transition, show_hidden, restore_archived.               *)

\* A revision with status published is what students read, and its search
\* document is written with it.
Serve(c) ==
  /\ served' = [served EXCEPT ![c] = content[c]]
  /\ document' = [document EXCEPT ![c] = content[c]]

Unlist(c) ==
  /\ document' = [document EXCEPT ![c] = 0]
  /\ UNCHANGED served

\* Mutant: a card that leaves the archive keeps its former status.
MoveKeepingFormer(c, target) ==
  /\ status' = [status EXCEPT ![c] = target]
  /\ archivedFrom' = [archivedFrom EXCEPT
        ![c] = IF target = "archived" THEN status[c] ELSE @]
  /\ Advance(c)

Move(c, target) ==
  /\ status' = [status EXCEPT ![c] = target]
  /\ archivedFrom' = [archivedFrom EXCEPT
        ![c] = IF target = "archived" THEN status[c] ELSE "none"]
  /\ Advance(c)

Submit(a, c) ==
  /\ Admits(a, c) /\ status[c] \in {"draft", "changes_requested"}
  /\ Move(c, "in_review")
  /\ UNCHANGED <<contents, public, relations, seen, left>>

RequestChanges(a, c) ==
  /\ Spend("rework")
  /\ Admits(a, c) /\ status[c] \in {"in_review", "approved"}
  /\ Move(c, "changes_requested")
  /\ UNCHANGED <<contents, public, relations, seen>>

Approval(a, c) == approved' = [approved EXCEPT ![c] = @ \cup {seen[a][c].content}]

\* Mutant: what the client has read is not compared.
ApproveUnseen(a, c) ==
  /\ Created(c) /\ status[c] = "in_review"
  /\ Move(c, "approved")
  /\ Approval(a, c)
  /\ UNCHANGED <<content, basedOn, public, relations, seen, left>>

Approve(a, c) ==
  /\ Admits(a, c) /\ status[c] = "in_review"
  /\ Move(c, "approved")
  /\ Approval(a, c)
  /\ UNCHANGED <<content, basedOn, public, relations, seen, left>>

\* _validate_publication
Publishable(c) ==
  /\ c \in Manual \/ sourced[c]
  /\ \A p \in Pairs : c \in p => candidate[p] # "high"
  /\ pictured[c]

Publish(a, c) ==
  /\ Admits(a, c) /\ status[c] = "approved" /\ Publishable(c)
  /\ Move(c, "published") /\ Serve(c)
  /\ UNCHANGED <<contents, relations, seen, left>>

\* Both transitions in one commit.
ApproveAndPublish(a, c) ==
  /\ Created(c) /\ seen[a][c].token = token[c]
  /\ status[c] = "in_review" /\ Publishable(c)
  /\ status' = [status EXCEPT ![c] = "published"]
  /\ revision' = [revision EXCEPT ![c] = @ + 2]
  /\ token' = [token EXCEPT ![c] = @ + 2]
  /\ Approval(a, c)
  /\ Serve(c)
  /\ UNCHANGED <<archivedFrom, content, basedOn, relations, seen, left>>

Hide(a, c) ==
  /\ Spend("hide")
  /\ Admits(a, c) /\ status[c] = "published"
  /\ Move(c, "hidden") /\ Unlist(c)
  /\ UNCHANGED <<contents, relations, seen>>

Show(a, c) ==
  /\ Admits(a, c) /\ status[c] = "hidden"
  /\ Move(c, "published") /\ Serve(c)
  /\ UNCHANGED <<contents, relations, seen, left>>

Archive(a, c) ==
  /\ Spend("archive")
  /\ Admits(a, c) /\ status[c] \in Status \ {"archived"}
  /\ Move(c, "archived") /\ Unlist(c)
  /\ UNCHANGED <<contents, relations, seen>>

\* Mutant: only a card restored as published gets its search document back.
RelistPublishedOnly(c) ==
  IF archivedFrom[c] = "published" THEN Serve(c) ELSE UNCHANGED public

\* What the restored card shows: its content if it is published again; a card
\* that was being edited, the snapshot of its last publication.
Relist(c) ==
  CASE archivedFrom[c] = "published" -> Serve(c)
    [] archivedFrom[c] = "hidden" -> Unlist(c)
    [] OTHER -> /\ document' = [document EXCEPT ![c] = served[c]]
                /\ UNCHANGED served

Restore(a, c) ==
  /\ Spend("restore")
  /\ Admits(a, c) /\ status[c] = "archived"
  /\ Move(c, archivedFrom[c])
  /\ Relist(c)
  /\ UNCHANGED <<contents, relations, seen>>

-----------------------------------------------------------------------------
(* Duplicates: DuplicateReviewService.decide.                              *)

Decides(a, pair) ==
  /\ Spend("merge")
  /\ candidate[pair] # "none"
  /\ \A c \in pair : seen[a][c].revision = revision[c]

\* create or reject: both cards stay.
Dismiss(a, pair) ==
  /\ Decides(a, pair)
  /\ candidate' = [candidate EXCEPT ![pair] = "none"]
  /\ UNCHANGED <<cardRows, contents, public, sourced, pictured, seen>>

\* merge (fields are chosen) or attach (none is): the loser is archived, its
\* sources, images and candidates go to the survivor or away.
Both(f, survivor, merged, loser, archived) ==
  [f EXCEPT ![survivor] = merged, ![loser] = archived]

\* decide reads both cards before it locks them, and the session keeps what it
\* has read: it compares the revision it read (a newer one makes its commit
\* fail on the number of the snapshot), and the status may be an earlier one
\* of the same revision.
StatusReadBy(a, c) == {status[c], seen[a][c].status}

FormerStatus(loser, read) ==
  IF read = "archived" THEN archivedFrom[loser] ELSE read

Merge(a, survivor, loser, fields) ==
  /\ Decides(a, {survivor, loser})
  /\ status' = Both(status, survivor, "draft", loser, "archived")
  /\ \E read \in StatusReadBy(a, loser) :
       archivedFrom' =
         Both(archivedFrom, survivor, "none", loser, FormerStatus(loser, read))
  /\ revision' = Both(revision, survivor, revision[survivor] + 1,
                      loser, revision[loser] + 1)
  /\ token' = Both(token, survivor, token[survivor] + (IF fields THEN 2 ELSE 1),
                   loser, token[loser] + 1)
  /\ IF fields THEN Rewrite(a, survivor) ELSE UNCHANGED contents
  /\ Unlist(loser)
  /\ sourced' = Both(sourced, survivor, sourced[survivor] \/ sourced[loser],
                     loser, FALSE)
  /\ \E ready \in {pictured[survivor], pictured[loser]} :
       pictured' = Both(pictured, survivor, ready, loser, FALSE)
  /\ candidate' = [p \in Pairs |-> IF loser \in p THEN "none" ELSE candidate[p]]
  /\ UNCHANGED seen

-----------------------------------------------------------------------------
Edit(a, c) ==
  \/ Update(a, c) \/ Synchronize(a, c) \/ MutateImages(a, c) \/ AttachMedia(a, c)

Lifecycle(a, c) ==
  \/ Submit(a, c) \/ RequestChanges(a, c) \/ Approve(a, c) \/ Publish(a, c)
  \/ ApproveAndPublish(a, c) \/ Hide(a, c) \/ Show(a, c) \/ Archive(a, c)
  \/ Restore(a, c)

Decide(a, c, d) ==
  /\ c # d
  /\ \/ Dismiss(a, {c, d})
     \/ \E fields \in BOOLEAN : Merge(a, c, d, fields)

Next ==
  \/ \E c \in Components : Create(c) \/ ImagesReady(c)
  \/ \E a \in Actors, c \in Components : Read(a, c) \/ Edit(a, c) \/ Lifecycle(a, c)
  \/ \E a \in Actors, c, d \in Components : Decide(a, c, d)

Spec == Init /\ [][Next]_vars

-----------------------------------------------------------------------------
(* Properties.                                                             *)

Readable(c) == served[c] # 0 /\ status[c] \notin {"hidden", "archived"}
Listed(c) == document[c] # 0 /\ status[c] \notin {"hidden", "archived"}

\* The list and the search show a card exactly if its page can be read
\* (list_published joins the search document, get_published does not), and
\* find it by what the page shows, through edits, hiding, archiving and
\* restoring from whatever state.
SearchShowsWhatIsServed ==
  \A c \in Components :
    /\ Readable(c) <=> Listed(c)
    /\ Listed(c) => document[c] = served[c]

\* No editor overwrites content he has not read, whichever of the endpoints
\* with tokens or with revisions the tabs use at the same time.
NoLostUpdate ==
  [][\A c \in Components :
       content'[c] # content[c] => basedOn'[c] = content[c]]_vars

\* Students read only what a reviewer has read and approved, word for word
\* (docs/REQUIREMENTS.md:239, REQ-CARD-006), although content and status
\* change under requests that were sent before.
ServedWasApproved ==
  \A c \in Components : served[c] # 0 => served[c] \in approved[c]
=============================================================================
