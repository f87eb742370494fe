-------------------------------- MODULE Pages --------------------------------
(***************************************************************************)
(* What the site shows of a request: who may open it and which buttons its *)
(* page has (HelpRequestDetailView and request_detail.html), the lists and *)
(* the tabs it is found under, and what the home page asks people to do.   *)
(*                                                                         *)
(* Pages change nothing, so every definition here is a function of the     *)
(* state of Lifecycle.  Their conditions repeat those of the services and  *)
(* of one another in other words; the properties say that the copies       *)
(* agree, and where they do not.                                           *)
(***************************************************************************)
EXTENDS Lifecycle

\* is_verified, and whether email_verified_at may be set: of a verified user
\* trust_level does not tell
Verified(u) == trust[u] = L2
MayBeConfirmed(u) == {c \in BOOLEAN : trust[u] < L2 => (c <=> trust[u] = L1)}

-----------------------------------------------------------------------------
(* Finding the request *)

\* HelpRequestQuerySet.visible_to: who gets the page and not a 404
VisibleTo(u) == status = "active" \/ u = Owner \/ response[u] # "none"

\* the list, the map and the newest requests of the home page
Listed == status = "active"
ListedAsTakeable(v) ==
  Listed /\ response[v] = "none" /\ (homeVisit => Verified(v))
NewestFor(v) ==
  status = "active" /\ response[v] = "none" /\ (homeVisit => Verified(v))

-----------------------------------------------------------------------------
(* The buttons of the request's page.  A button without a volunteer is the  *)
(* owner's; the view checks the role and leaves the rest to the service.    *)

PublishShown(confirmed) == status = "draft" /\ confirmed
CanEdit == status \in Editable
CanCancel == status \in Cancellable
ConfirmShown == status \in Working
DisputeShown == status = "awaiting_confirmation"
\* AnswerShown without the template's look at the request's status
AnswerShownWhilePending(v) == response[v] = "pending"
AnswerShown(v) == response[v] = "pending" /\ status = "active"
RemoveShown(v) == response[v] = "accepted" /\ status \in Open

IsAccepted(v) == VisibleTo(v) /\ response[v] = "accepted"
CanRespond(v) == VisibleTo(v) /\ status = "active" /\ response[v] = "none"
RespondShown(v) == CanRespond(v) /\ TrustOK(v)
CompleteShown(v) == IsAccepted(v) /\ status = "in_progress" /\ ~done[v]
WithdrawShown(v) ==
  \/ IsAccepted(v) /\ status \in Open /\ ~done[v]
  \/ VisibleTo(v) /\ response[v] = "pending"

\* The views behind the buttons.  The decorators see to the role, the query to
\* whose request or response it is, and a missing row is a 404.
Answered(v) == response[v] # "none"
PublishView == Publish
CancelView == Cancel
ConfirmView == ConfirmCompletion
DisputeView == DisputeCompletion
AcceptView(v) == Answered(v) /\ Accept(v)
RejectView(v) == Answered(v) /\ Reject(v)
RemoveView(v) == Answered(v) /\ Remove(v)
RespondView(v) == Respond(v)
WithdrawView(v) == Answered(v) /\ Withdraw(v)
CompleteView(v) == Answered(v) /\ MarkDone(v)

-----------------------------------------------------------------------------
(* The tabs of "my requests" and "my responses", the bar of progress *)

RequestSection ==
  CASE status \in Closed -> "past"
    [] status \in {"awaiting_confirmation", "draft", "rejected"} -> "needs"
    [] status = "active" /\ Waiting # {} -> "needs"
    [] OTHER -> "current"

ResponseSection(v) ==
  CASE response[v] = "accepted" /\ status = "in_progress" ->
         IF done[v] THEN "current" ELSE "needs"
    [] \/ response[v] = "pending"
       \/ response[v] = "accepted" /\ status = "awaiting_confirmation" -> "current"
    [] OTHER -> "past"

\* lifecycle_steps: the index of the current step, none for a closed request
StepOf(s) ==
  CASE s \in {"draft", "pending_moderation"} -> 0
    [] s = "active" -> 1
    [] s \in Working -> 2
    [] s = "completed" -> 3
    [] OTHER -> -1

-----------------------------------------------------------------------------
(* The home page: action_items, a list of items of different kinds, of       *)
(* which only the first are shown.  "elsewhere" holds the kinds of items     *)
(* that the rest of the site, other requests first of all, gives the same    *)
(* person.                                                                   *)

\* ItemOrder with the recipient's kinds turned round
DraftsFirst == <<"verification", "requests", "reports", "email",
                 "draft", "rejected", "responses", "awaiting",
                 "to_mark", "unread", "apply", "review">>
ItemOrder == <<"verification", "requests", "reports", "email",
               "awaiting", "responses", "rejected", "draft",
               "to_mark", "unread", "apply", "review">>
ItemKinds == {ItemOrder[n] : n \in DOMAIN ItemOrder}
Ahead == [k \in ItemKinds |->
            {ItemOrder[m] : m \in {i \in DOMAIN ItemOrder :
                                    \E n \in DOMAIN ItemOrder : i < n /\ ItemOrder[n] = k}}]

MaxActionItems == 4
AskedFirst(items) == {k \in items : Cardinality(items \cap Ahead[k]) < MaxActionItems}

Queues == {"verification", "requests", "reports"}
\* of anybody, a recipient or a volunteer, who is in the moderators' group
ModeratorItems(moderates, elsewhere) ==
  {k \in Queues : /\ moderates
                  /\ k \in elsewhere \/ (k = "requests" /\ status = "pending_moderation")}

EmailItem(confirmed) == IF confirmed THEN {} ELSE {"email"}
ReviewItem(elsewhere) == elsewhere \cap {"review"}

RecipientKinds == {"awaiting", "responses", "rejected", "draft"}
RecipientItem(k) ==
  CASE k = "awaiting" -> status = "awaiting_confirmation"
    [] k = "responses" -> status = "active" /\ Waiting # {}
    [] k = "rejected" -> status = "rejected"
    [] k = "draft" -> status = "draft"
RecipientItems(elsewhere) ==
  {k \in RecipientKinds : k \in elsewhere \/ RecipientItem(k)}

VolunteerItem(v, confirmed, elsewhere, k) ==
  CASE k = "to_mark" -> \/ k \in elsewhere
                        \/ response[v] = "accepted" /\ ~done[v] /\ status = "in_progress"
    [] k = "unread" -> k \in elsewhere
    [] k = "apply" -> k \in elsewhere /\ confirmed /\ ~Verified(v)
VolunteerItems(v, confirmed, elsewhere) ==
  {k \in {"to_mark", "unread", "apply"} : VolunteerItem(v, confirmed, elsewhere, k)}

OwnerHome(moderates, confirmed, elsewhere) ==
  ModeratorItems(moderates, elsewhere) \cup EmailItem(confirmed)
    \cup RecipientItems(elsewhere) \cup ReviewItem(elsewhere)
VolunteerHome(v, moderates, confirmed, elsewhere) ==
  ModeratorItems(moderates, elsewhere) \cup EmailItem(confirmed)
    \cup VolunteerItems(v, confirmed, elsewhere) \cup ReviewItem(elsewhere)

-----------------------------------------------------------------------------
(* Properties *)

\* A button that a freshly loaded page offers does what it says: the service
\* behind it, written apart from the template, accepts the call.  Not so for a
\* draft whose date has passed, for a volunteer who lost the trust level the
\* owner's page does not look at, and for editing after the date, when the form
\* refuses the old date and the answers given freeze it.
OfferedIsAccepted ==
  /\ \A c \in MayBeConfirmed(Owner) : PublishShown(c) => ENABLED PublishView \/ late > 0
  /\ CanEdit => ENABLED EditSome \/ (late > 0 /\ Team \cup Waiting # {})
  /\ CanCancel => ENABLED CancelView
  /\ ConfirmShown => ENABLED ConfirmView
  /\ DisputeShown => ENABLED DisputeView
  /\ \A v \in Volunteers :
       /\ AnswerShown(v) => (ENABLED AcceptView(v) \/ ~TrustOK(v)) /\ ENABLED RejectView(v)
       /\ RemoveShown(v) => ENABLED RemoveView(v)
       /\ RespondShown(v) => ENABLED RespondView(v)
       /\ CompleteShown(v) => ENABLED CompleteView(v)
       /\ WithdrawShown(v) => ENABLED WithdrawView(v)

\* Nobody is left without the button for what the services would let them do,
\* and a volunteer who could respond finds the request among those to take.
\* Two exceptions: a verified recipient whose email is not confirmed, and the
\* answer to a response while the request is back with the moderators.
AcceptedIsOffered ==
  /\ \A c \in MayBeConfirmed(Owner) : ENABLED PublishView => PublishShown(c) \/ ~c
  /\ ENABLED EditSome => CanEdit
  /\ ENABLED CancelView => CanCancel
  /\ ENABLED ConfirmView => ConfirmShown
  /\ ENABLED DisputeView => DisputeShown
  /\ \A v \in Volunteers :
       /\ ENABLED AcceptView(v) => AnswerShown(v)
       /\ ENABLED RejectView(v) => AnswerShown(v) \/ status \in {"pending_moderation", "rejected"}
       /\ ENABLED RemoveView(v) => RemoveShown(v)
       /\ ENABLED RespondView(v) => RespondShown(v) /\ ListedAsTakeable(v) /\ NewestFor(v)
       /\ ENABLED CompleteView(v) => CompleteShown(v)
       /\ ENABLED WithdrawView(v) => WithdrawShown(v)
       /\ ListedAsTakeable(v) => ENABLED RespondView(v) \/ ~EmailConfirmed(v)

PagesMatchServices == OfferedIsAccepted /\ AcceptedIsOffered

Elsewhere ==
  LET everything == ItemKinds \ {"email"}
  IN {{}, {"verification", "reports"}, everything \ {"requests"}, everything}

\* All three queues and the email leave no place for anything else.
Crowded(items) == Queues \cup {"email"} \subseteq items

\* Whoever a request waits for is told so on the home page, however much else
\* waits for them, and exactly when the request stands under "needs" in their
\* list.  The cut after four items drops nothing of a volunteer, whose items
\* exclude each other, and of a recipient only drafts and reviews.  It can drop
\* more of somebody who is a moderator besides, whose queues come first; but help
\* to be marked or confirmed only when all three queues wait and the email is
\* not confirmed.  Nothing is put before the queues.
WaitingIsShown ==
  \A busy \in Elsewhere, moderates \in BOOLEAN :
    LET queues == ModeratorItems(moderates, busy)
    IN /\ \A c \in MayBeConfirmed(Owner) :
            LET all == OwnerHome(moderates, c, busy)
                seen == AskedFirst(all)
            IN /\ RequestSection = "needs" /\ queues = {} =>
                    \E k \in RecipientKinds : RecipientItem(k) /\ k \in seen \cup {"draft"}
               /\ busy = {} => (RequestSection = "needs" <=> all # queues \cup EmailItem(c))
               /\ queues = {} => all \ seen \subseteq {"draft", "review"}
               /\ "awaiting" \in all \ seen => Crowded(all)
               /\ queues \subseteq seen
       /\ \A v \in Volunteers : \A c \in MayBeConfirmed(v) :
            LET all == VolunteerHome(v, moderates, c, busy)
                seen == AskedFirst(all)
            IN /\ queues = {} => seen = all
               /\ busy = {} => (ResponseSection(v) = "needs" <=> "to_mark" \in all)
               /\ "to_mark" \in all \ seen => Crowded(all)
               /\ queues \subseteq seen

\* The bar of progress on the page keeps its word however the request came
\* there: "published" is done only once volunteers could see the request, and
\* "recruited" only while somebody is on the team.
ProgressIsTrue ==
  /\ StepOf(status) >= 1 => published
  /\ StepOf(status) >= 2 => Team # {}

PagesTellTheTruth == WaitingIsShown /\ ProgressIsTrue
=============================================================================
