------------------------------ MODULE Publishing ------------------------------
(***************************************************************************)
(* How the requests of one recipient become public (apps/requests): the     *)
(* limit of open requests, premoderation of the first ones, and the review  *)
(* of what is edited afterwards.  Lifecycle has one request in all its      *)
(* statuses; here there are several, "in_progress" stands for               *)
(* awaiting_confirmation too, and what matters of a request is which of its *)
(* texts a moderator has read.                                              *)
(*                                                                         *)
(* create_request saves the draft and publishes it in another transaction.  *)
(* The edit view reads the request without a lock, writes the whole row     *)
(* back, its status, published_at and text as they were read, and calls     *)
(* after_edit in another transaction; a worker can be killed, and anything  *)
(* happen, in between.  publish locks its own request, and counts the       *)
(* others unlocked.                                                         *)
(***************************************************************************)
EXTENDS Integers, FiniteSets

CONSTANTS
  Requests,      \* bound of the model: requests the recipient ever files
  Workers,       \* web workers
  Moderators,
  MaxActive,     \* MAX_ACTIVE_REQUESTS (10)
  Premoderated,  \* PREMODERATED_REQUESTS (3)
  Levels,        \* trust levels the recipient can have
  MaxForms       \* bound of the model: edit forms the recipient ever sends

ASSUME PublishingAssumption ==
  /\ IsFiniteSet(Requests) /\ IsFiniteSet(Workers) /\ IsFiniteSet(Moderators)
  /\ "none" \notin Requests
  /\ MaxActive \in Nat \ {0}
  /\ Premoderated \in Nat
  /\ MaxForms \in Nat
  /\ Levels \subseteq 0 .. 2 /\ 1 \in Levels

VARIABLES
  status,     \* of each request, "none" before it is filed
  published,  \* requests with a published_at
  forms,      \* edit forms sent so far; they are numbered
  text,       \* the present text of each request: 0 the one it was filed with,
              \* the others by the form that wrote them
  trust,      \* the recipient's trust level
  work,       \* the recipient's request in each worker
  page,       \* the request each moderator is reading, and its text
  live,       \* ghost: requests that have ever gone live
  cleared,    \* ghost: texts that were approved by a moderator who had read
              \* them, or put up by a verified recipient
  slipped,    \* ghost: texts that got past the moderators (PublicWasReviewed)
  returned    \* ghost: handed in again after a moderator rejected it, or put
              \* back by a form that was read before it was rejected or closed

vars == <<status, published, text, forms, trust, work, page, live, cleared, slipped, returned>>
texts == <<text, forms>>
ghosts == <<live, cleared, slipped, returned>>

Statuses ==
  {"none", "draft", "pending_moderation", "rejected", "active", "in_progress", "closed"}
Open == {"active", "in_progress"}
UnfinishedStatuses == {"draft", "pending_moderation"} \cup Open
Unfinished == {q \in Requests : status[q] \in UnfinishedStatuses}
Editable == {"draft", "pending_moderation", "rejected", "active"}

Texts == 0 .. MaxForms
Idle == [step |-> "idle"]
NoPage == [request |-> "none"]
Form ==
  [step : {"editing"}, form : Texts, request : Requests, status : Statuses, published : BOOLEAN,
   text : Texts, waiting : BOOLEAN]
Work ==
  {Idle}
    \cup [step : {"loaded", "create"}, trust : Levels]
    \cup [step : {"publish"}, trust : Levels, request : Requests]
    \cup [step : {"publishing"}, trust : Levels, request : Requests, review : BOOLEAN]
    \cup [step : {"edit"}, request : Requests]
    \cup Form
    \cup [step : {"after_edit"}, request : Requests, content : BOOLEAN]

TypeOK ==
  /\ status \in [Requests -> Statuses]
  /\ published \subseteq Requests
  /\ text \in [Requests -> Texts] /\ forms \in Texts
  /\ trust \in Levels
  /\ work \in [Workers -> Work]
  /\ page \in [Moderators -> {NoPage} \cup [request : Requests, text : Texts]]
  /\ live \subseteq Requests
  /\ cleared \subseteq Requests \X Texts
  /\ slipped \subseteq Requests \X Texts
  /\ returned \subseteq Requests

-----------------------------------------------------------------------------
(* Helpers *)

At(w, s) == work[w].step = s
Set(w, r) == work' = [work EXCEPT ![w] = r]
Locked(q) == \E w \in Workers : At(w, "publishing") /\ work[w].request = q
\* the review of a new text is still to come
Reviewing(q) ==
  \E w \in Workers : At(w, "after_edit") /\ work[w].request = q /\ work[w].content
Move(q, s) == status' = [status EXCEPT ![q] = s]
Present(q) == <<q, text[q]>>
GoLive(q) == published' = published \cup {q} /\ live' = live \cup {q}

\* can_create_request with > for >=
MayCreateMore == Cardinality(Unfinished) <= MaxActive
MayCreate == Cardinality(Unfinished) < MaxActive

NeedsPremoderation(level) == level < 2 /\ Cardinality(published) < Premoderated

\* without the request itself among the published
ReviewEditStrict == trust < 2 /\ Cardinality(published) < Premoderated
\* the edited request is one of those counted
ReviewEdit == trust < 2 /\ Cardinality(published) <= Premoderated

-----------------------------------------------------------------------------
(* The recipient's pages *)

\* the session loads request.user
Load(w) ==
  /\ At(w, "idle")
  /\ Set(w, [step |-> "loaded", trust |-> trust])
  /\ UNCHANGED <<status, published, texts, trust, page, ghosts>>

\* dispatch of the create view
CreateCheck(w) ==
  /\ At(w, "loaded")
  /\ MayCreate
  /\ Set(w, [step |-> "create", trust |-> work[w].trust])
  /\ UNCHANGED <<status, published, texts, trust, page, ghosts>>

\* create_request: the draft, which a confirmed recipient goes on to publish
CreateSave(w) ==
  /\ At(w, "create")
  /\ \E q \in Requests :
       /\ status[q] = "none"
       /\ Move(q, "draft")
       /\ Set(w, IF work[w].trust >= 1
                 THEN [step |-> "publish", trust |-> work[w].trust, request |-> q] ELSE Idle)
  /\ UNCHANGED <<published, texts, trust, page, ghosts>>

\* publish_request
PublishDraft(w) ==
  /\ At(w, "loaded")
  /\ \E q \in Requests :
       /\ status[q] = "draft"
       /\ Set(w, [step |-> "publish", trust |-> work[w].trust, request |-> q])
  /\ UNCHANGED <<status, published, texts, trust, page, ghosts>>

\* publish under the request's lock: the checks and the count
PublishCheck(w) ==
  LET q == work[w].request
  IN /\ At(w, "publish")
     /\ ~Locked(q)
     /\ status[q] = "draft"
     /\ work[w].trust >= 1
     /\ Set(w, [step |-> "publishing", trust |-> work[w].trust, request |-> q,
                review |-> NeedsPremoderation(work[w].trust)])
     /\ UNCHANGED <<status, published, texts, trust, page, ghosts>>

\* and the new status
PublishCommit(w) ==
  LET q == work[w].request
  IN /\ At(w, "publishing")
     /\ Set(w, Idle)
     /\ IF work[w].review
        THEN Move(q, "pending_moderation") /\ UNCHANGED <<published, live, cleared>>
        ELSE /\ Move(q, "active")
             /\ GoLive(q)
             /\ cleared' = IF work[w].trust = 2 THEN cleared \cup {Present(q)} ELSE cleared
     /\ UNCHANGED <<texts, trust, page, slipped, returned>>

\* dispatch of the edit view
EditOpen(w) ==
  /\ At(w, "loaded")
  /\ \E q \in Requests :
       /\ status[q] \in Editable
       /\ Set(w, [step |-> "edit", request |-> q])
  /\ UNCHANGED <<status, published, texts, trust, page, ghosts>>

\* get_object reads the row once more, which may have moved on
EditRead(w) ==
  LET q == work[w].request
  IN /\ At(w, "edit")
     /\ forms < MaxForms
     /\ forms' = forms + 1
     /\ Set(w, [step |-> "editing", form |-> forms + 1, request |-> q, status |-> status[q],
                published |-> q \in published, text |-> text[q], waiting |-> Reviewing(q)])
     /\ UNCHANGED <<status, published, text, trust, page, ghosts>>

\* the form is saved, every column of it; "content" tells whether it changed a
\* content field of what was read
EditSave(w, content) ==
  LET form == work[w]
      q == form.request
  IN /\ At(w, "editing")
     /\ ~Locked(q)
     /\ Move(q, form.status)
     /\ published' = IF form.published THEN published \cup {q} ELSE published \ {q}
     /\ text' = [text EXCEPT ![q] = IF content THEN form.form ELSE form.text]
     /\ slipped' = IF ~content /\ form.waiting THEN slipped \cup {<<q, form.text>>} ELSE slipped
     /\ returned' = IF status[q] \notin UnfinishedStatuses /\ form.status \in UnfinishedStatuses
                    THEN returned \cup {q} ELSE returned
     /\ Set(w, [step |-> "after_edit", request |-> q, content |-> content])
     /\ UNCHANGED <<forms, trust, page, live, cleared>>

\* after_edit: a rejected request goes back, an active one perhaps, and work
\* starts on one whose team is complete
AfterEdit(w) ==
  LET q == work[w].request
      review == work[w].content /\ ReviewEdit
      back == status[q] = "rejected" \/ (status[q] = "active" /\ review)
  IN /\ At(w, "after_edit")
     /\ ~Locked(q)
     /\ Set(w, Idle)
     /\ \/ back /\ Move(q, "pending_moderation")
        \/ ~back /\ status[q] = "active" /\ Move(q, "in_progress")
        \/ ~back /\ UNCHANGED status
     /\ cleared' = IF status[q] \in Open /\ work[w].content /\ trust = 2
                   THEN cleared \cup {Present(q)} ELSE cleared
     /\ slipped' = IF status[q] = "in_progress" /\ review THEN slipped \cup {Present(q)} ELSE slipped
     /\ returned' = IF status[q] = "rejected" THEN returned \cup {q} ELSE returned
     /\ UNCHANGED <<published, texts, trust, page, live>>

\* refused, failed or killed
GiveUp(w) ==
  /\ ~At(w, "idle")
  /\ Set(w, Idle)
  /\ slipped' = IF At(w, "after_edit") /\ work[w].content /\ status[work[w].request] \in Open
                THEN slipped \cup {Present(work[w].request)} ELSE slipped
  /\ UNCHANGED <<status, published, texts, trust, page, live, cleared, returned>>

-----------------------------------------------------------------------------
(* The volunteers, the moderators and the rest *)

\* accept completes the team
Fill(q) ==
  /\ status[q] = "active"
  /\ Move(q, "in_progress")
  /\ UNCHANGED <<published, texts, trust, work, page, ghosts>>

\* _reopen_if_short, after a volunteer has left
Reopen(q) ==
  /\ status[q] = "in_progress"
  /\ Move(q, "active")
  /\ UNCHANGED <<published, texts, trust, work, page, ghosts>>

\* cancelled, completed or expired
Close(q) ==
  /\ status[q] \in UnfinishedStatuses \cup {"rejected"}
  /\ ~Locked(q)
  /\ Move(q, "closed")
  /\ returned' = returned \ {q}
  /\ UNCHANGED <<published, texts, trust, work, page, live, cleared, slipped>>

\* the "requests" tab of the queue, for one of the requests listed there
QueuePage(m) ==
  /\ \E q \in Requests :
       /\ status[q] = "pending_moderation"
       /\ page' = [page EXCEPT ![m] = [request |-> q, text |-> text[q]]]
  /\ UNCHANGED <<status, published, texts, trust, work, ghosts>>

\* decide_request: approve looks at the status only
Approve(m) ==
  LET q == page[m].request
  IN /\ page[m] # NoPage
     /\ status[q] = "pending_moderation"
     /\ Move(q, "active")
     /\ GoLive(q)
     /\ cleared' = cleared \cup {<<q, page[m].text>>}
     /\ slipped' = IF page[m].text # text[q] /\ ~Reviewing(q)
                   THEN slipped \cup {Present(q)} ELSE slipped
     /\ page' = [page EXCEPT ![m] = NoPage]
     /\ UNCHANGED <<texts, trust, work, returned>>

RejectRequest(m) ==
  LET q == page[m].request
  IN /\ page[m] # NoPage
     /\ status[q] = "pending_moderation"
     /\ Move(q, "rejected")
     /\ page' = [page EXCEPT ![m] = NoPage]
     /\ UNCHANGED <<published, texts, trust, work, ghosts>>

\* an email confirmed or changed, a verification given or taken
TrustChange ==
  /\ \E level \in Levels : level # trust /\ trust' = level
  /\ UNCHANGED <<status, published, texts, work, page, ghosts>>

-----------------------------------------------------------------------------

Init ==
  /\ status = [q \in Requests |-> "none"]
  /\ published = {}
  /\ text = [q \in Requests |-> 0]
  /\ forms = 0
  /\ trust = 1
  /\ work = [w \in Workers |-> Idle]
  /\ page = [m \in Moderators |-> NoPage]
  /\ live = {}
  /\ cleared = {}
  /\ slipped = {}
  /\ returned = {}

RecipientStep(w) ==
  \/ Load(w) \/ CreateCheck(w) \/ CreateSave(w) \/ PublishDraft(w)
  \/ PublishCheck(w) \/ PublishCommit(w)
  \/ EditOpen(w) \/ EditRead(w) \/ \E content \in BOOLEAN : EditSave(w, content)
  \/ AfterEdit(w) \/ GiveUp(w)

RequestStep(q) == Fill(q) \/ Reopen(q) \/ Close(q)
ModeratorStep(m) == QueuePage(m) \/ Approve(m) \/ RejectRequest(m)

Next ==
  \/ \E w \in Workers : RecipientStep(w)
  \/ \E q \in Requests : RequestStep(q)
  \/ \E m \in Moderators : ModeratorStep(m)
  \/ TrustChange

Spec == Init /\ [][Next]_vars

-----------------------------------------------------------------------------
(* Safety *)

\* However creations, publications, edits, moderation and the volunteers'
\* answers overlap, nobody reads a text that no moderator has read unless
\* Premoderated other requests of the recipient have gone live or the recipient
\* was verified; but for an edit whose after_edit is still to come, and for a text
\* that slipped past: its worker was killed before after_edit; after_edit found
\* the request in progress, since a volunteer was accepted meanwhile; a second
\* form read it before after_edit and put it back afterwards, with the status of
\* before; or a moderator approved from a page older than the edit.
PublicWasReviewed ==
  \A q \in Requests :
    status[q] \in Open =>
      \/ Present(q) \in cleared \cup slipped
      \/ Cardinality(live \ {q}) >= Premoderated
      \/ Reviewing(q)

\* creations that have passed the check
Creating == {w \in Workers : At(w, "create")}

\* The limit of open requests is exceeded, those about to be saved included, by
\* creations that overlapped, by rejected requests, which it does not count until
\* they are handed in again, and by those that a form read before puts back.
FewOverLimit ==
  Cardinality(Unfinished \ returned) + Cardinality(Creating) < MaxActive + Cardinality(Workers)
=============================================================================
