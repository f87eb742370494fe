----------------------------- MODULE Lifecycle -----------------------------
(***************************************************************************)
(* The life of one help request and of the volunteers' responses to it:    *)
(* the service functions of apps/requests/services.py, each of which locks *)
(* the request row and therefore is one action here, the serial form of    *)
(* the edit view, and the two periodic jobs that close requests.           *)
(*                                                                         *)
(* An action is named after its function.  Who calls it is in its comment: *)
(* a call by anybody else raises TransitionError and changes nothing.      *)
(* Time is kept as two ages that stop growing once every comparison in the *)
(* code has been decided, so the clock needs no bound.                     *)
(***************************************************************************)
EXTENDS Integers, FiniteSets

CONSTANTS
  Volunteers,        \* the volunteers who can see the request
  Owner,             \* its recipient
  MaxNeeded,         \* upper validator of volunteers_needed (10 in the code)
  Premoderated,      \* PREMODERATED_REQUESTS (3 in the code)
  Lead,              \* how far ahead needed_date can lie
  Duration,          \* expected duration of the help
  AutoConfirmAfter,  \* AUTO_CONFIRM_AFTER (72 hours)
  ExpireAfterEnd     \* EXPIRE_IN_PROGRESS_AFTER_END (7 days)

ASSUME LifecycleAssumption ==
  /\ IsFiniteSet(Volunteers)
  /\ Owner \notin Volunteers
  /\ MaxNeeded \in Nat \ {0}
  /\ {Premoderated, Lead, Duration, AutoConfirmAfter, ExpireAfterEnd} \subseteq Nat

VARIABLES
  status,     \* HelpRequest.status
  response,   \* the volunteers' Response.status; "none" without a Response row
  done,       \* whether Response.done_at is set
  needed,     \* volunteers_needed
  homeVisit,  \* help_format is home_visit, which needs an L2 volunteer
  published,  \* published_at is set
  late,       \* time since needed_date, negative before it
  age,        \* time since status_changed_at
  trust,      \* User.trust_level of the people involved: L0, L1 or L2
  others,     \* the recipient's other requests that were ever published
  due         \* auto_confirm has read the request as due and not yet locked it

vars == <<status, response, done, needed, homeVisit, published, late, age,
          trust, others, due>>

Users == Volunteers \cup {Owner}
L1 == 1
L2 == 2

Statuses == {"draft", "pending_moderation", "rejected", "active", "in_progress",
             "awaiting_confirmation", "completed", "cancelled", "expired"}
Open == {"active", "in_progress", "awaiting_confirmation"}
Working == {"in_progress", "awaiting_confirmation"}
Closed == {"completed", "cancelled", "expired"}
Editable == {"draft", "pending_moderation", "rejected", "active"}
Cancellable == {"draft", "pending_moderation", "rejected"} \cup Open

Answers == {"accepted", "rejected", "withdrawn", "removed", "closed"}
RStatuses == {"none", "pending"} \cup Answers

NeededChoices == 1 .. MaxNeeded
LateMax == Duration + ExpireAfterEnd + 1
AgeMax == AutoConfirmAfter + 1

TypeOK ==
  /\ status \in Statuses
  /\ response \in [Volunteers -> RStatuses]
  /\ done \in [Volunteers -> BOOLEAN]
  /\ needed \in 1 .. MaxNeeded
  /\ homeVisit \in BOOLEAN
  /\ published \in BOOLEAN
  /\ late \in -Lead .. LateMax
  /\ age \in 0 .. AgeMax
  /\ trust \in [Users -> 0 .. L2]
  /\ others \in 0 .. Premoderated + 1
  /\ due \in BOOLEAN

-----------------------------------------------------------------------------
(* Helpers *)

WithAnswer(resp, s) == {v \in Volunteers : resp[v] = s}
Team == WithAnswer(response, "accepted")
Waiting == WithAnswer(response, "pending")
Full(team, n) == Cardinality(team) >= n

MoveTo(s) == status' = s /\ age' = 0
Stay == UNCHANGED <<status, age>>

\* _close_pending without its queryset update
ForgetPending(resp) == resp
ClosePending(resp) ==
  [v \in Volunteers |-> IF resp[v] = "pending" THEN "closed" ELSE resp[v]]

StartWork(resp) == MoveTo("in_progress") /\ response' = ClosePending(resp)

PublishedCount == others + (IF published THEN 1 ELSE 0)
NeedsPremoderation == trust[Owner] < L2 /\ PublishedCount < Premoderated
NeedsPremoderationOnEdit == trust[Owner] < L2 /\ PublishedCount <= Premoderated

GoLive == MoveTo("active") /\ published' = TRUE

EmailConfirmed(v) == trust[v] >= L1
TrustOK(v) == trust[v] >= L1 /\ (homeVisit => trust[v] = L2)

AllDone(team, d) == \A v \in team : d[v]

\* back to recruiting whatever the date, or only while it is ahead
CarryOnAfterDate(team) == late >= 0
CarryOn(team) == late >= 0 /\ team # {}

\* _reopen_if_short that lets a team carry on without asking who is done
ReopenForConfirmation(team) ==
  LET target == IF CarryOn(team) THEN "awaiting_confirmation" ELSE "active"
  IN IF status \in Working /\ ~Full(team, needed) /\ status # target
     THEN MoveTo(target)
     ELSE Stay

\* _reopen_if_short once a volunteer has left the given team
ReopenIfShort(team) ==
  LET target == IF ~CarryOn(team) THEN "active"
                ELSE IF AllDone(team, done) THEN "awaiting_confirmation"
                ELSE "in_progress"
  IN IF status \in Working /\ ~Full(team, needed) /\ status # target
     THEN MoveTo(target)
     ELSE Stay

-----------------------------------------------------------------------------
(* Publishing, moderation and the serial edit view *)

\* The form is valid and create_request has saved the draft; Publish, called
\* next for an L1 recipient, is a transaction of its own.
Init ==
  /\ status = "draft"
  /\ response = [v \in Volunteers |-> "none"]
  /\ done = [v \in Volunteers |-> FALSE]
  /\ needed \in NeededChoices
  /\ homeVisit \in BOOLEAN
  /\ published = FALSE
  /\ late \in -Lead .. 0
  /\ age = 0
  /\ trust \in [Users -> 0 .. L2]
  /\ others \in 0 .. Premoderated + 1
  /\ due = FALSE

\* by the recipient
Publish ==
  /\ status = "draft"
  /\ trust[Owner] >= L1
  /\ late <= 0
  /\ \/ NeedsPremoderation /\ MoveTo("pending_moderation") /\ UNCHANGED published
     \/ ~NeedsPremoderation /\ GoLive
  /\ UNCHANGED <<response, done, needed, homeVisit, late, trust, others, due>>

\* by a moderator
Approve ==
  /\ status = "pending_moderation"
  /\ GoLive
  /\ UNCHANGED <<response, done, needed, homeVisit, late, trust, others, due>>

\* by a moderator, with a reason
RejectRequest ==
  /\ status = "pending_moderation"
  /\ MoveTo("rejected")
  /\ UNCHANGED <<response, done, needed, homeVisit, published, late, trust, others, due>>

\* editable_fields_error for a request read with the status st: the format, date
\* and address that volunteers answered to are frozen ("moved": one of them
\* changed), and so is room for those accepted.
EditAllowed(st, n, moved) ==
  /\ st \in Editable
  /\ \/ st = "rejected"
     \/ /\ moved => Team \cup Waiting = {}
        /\ Cardinality(Team) <= n

\* after_edit, for a form that asked for n volunteers; "content" tells whether
\* a content field changed
AfterEdit(n, content) ==
  LET review == content /\ NeedsPremoderationOnEdit
  IN CASE status = "rejected" -> MoveTo("pending_moderation") /\ UNCHANGED response
       [] status = "active" /\ review -> MoveTo("pending_moderation") /\ UNCHANGED response
       [] status = "active" /\ ~review /\ Full(Team, n) -> StartWork(response)
       [] OTHER -> Stay /\ UNCHANGED response

\* HelpRequestUpdateView when no other request runs between its reads and its
\* writes: the checks, the save of the form and after_edit.  The form requires a
\* date that is not in the past; "text" tells whether a content field other than
\* the format changed.  EditRace takes the view apart.
Edit(n, visit, date, text) ==
  /\ date <= 0
  /\ EditAllowed(status, n, date # late \/ visit # homeVisit)
  /\ needed' = n
  /\ homeVisit' = visit
  /\ late' = date
  /\ AfterEdit(n, text \/ visit # homeVisit)
  /\ UNCHANGED <<done, published, trust, others, due>>

EditSome ==
  \E n \in NeededChoices, visit, text \in BOOLEAN, date \in -Lead .. 0 :
    Edit(n, visit, date, text)

-----------------------------------------------------------------------------
(* Volunteers' responses *)

\* by the volunteer
Respond(v) ==
  /\ TrustOK(v)
  /\ status = "active"
  /\ response[v] = "none"
  /\ response' = [response EXCEPT ![v] = "pending"]
  /\ UNCHANGED <<status, done, needed, homeVisit, published, late, age, trust, others, due>>

\* by the recipient
Accept(v) ==
  LET resp == [response EXCEPT ![v] = "accepted"]
      full == Full(WithAnswer(resp, "accepted"), needed)
  IN /\ status = "active"
     /\ response[v] = "pending"
     /\ TrustOK(v)
     /\ \/ full /\ StartWork(resp)
        \/ ~full /\ Stay /\ response' = resp
     /\ UNCHANGED <<done, needed, homeVisit, published, late, trust, others, due>>

\* by the recipient; the status of the request does not matter
Reject(v) ==
  /\ response[v] = "pending"
  /\ response' = [response EXCEPT ![v] = "rejected"]
  /\ UNCHANGED <<status, done, needed, homeVisit, published, late, age, trust, others, due>>

\* by the volunteer, with a reason once accepted
Withdraw(v) ==
  /\ \/ response[v] = "pending" /\ Stay
     \/ /\ response[v] = "accepted"
        /\ status \in Open
        /\ ~done[v]
        /\ ReopenIfShort(Team \ {v})
  /\ response' = [response EXCEPT ![v] = "withdrawn"]
  /\ UNCHANGED <<done, needed, homeVisit, published, late, trust, others, due>>

\* by the recipient, with a reason
Remove(v) ==
  /\ response[v] = "accepted"
  /\ status \in Open
  /\ response' = [response EXCEPT ![v] = "removed"]
  /\ done' = [done EXCEPT ![v] = FALSE]
  /\ ReopenIfShort(Team \ {v})
  /\ UNCHANGED <<needed, homeVisit, published, late, trust, others, due>>

\* for a volunteer who lost the verification or was blocked; keeps done_at
RemoveByModerator(v) ==
  /\ status \in Open
  /\ \/ response[v] = "pending" /\ Stay
     \/ response[v] = "accepted" /\ ReopenIfShort(Team \ {v})
  /\ response' = [response EXCEPT ![v] = "removed"]
  /\ UNCHANGED <<done, needed, homeVisit, published, late, trust, others, due>>

-----------------------------------------------------------------------------
(* Finishing *)

\* by the volunteer
MarkDone(v) ==
  /\ response[v] = "accepted"
  /\ status = "in_progress"
  /\ ~done[v]
  /\ done' = [done EXCEPT ![v] = TRUE]
  /\ \/ AllDone(Team, done') /\ MoveTo("awaiting_confirmation")
     \/ ~AllDone(Team, done') /\ Stay
  /\ UNCHANGED <<response, needed, homeVisit, published, late, trust, others, due>>

\* by the recipient
ConfirmCompletion ==
  /\ status \in Working
  /\ MoveTo("completed")
  /\ UNCHANGED <<response, done, needed, homeVisit, published, late, trust, others, due>>

\* dispute_completion that keeps the reports of work
DisputeKeepingReports ==
  /\ status = "awaiting_confirmation"
  /\ MoveTo("in_progress")
  /\ UNCHANGED <<response, done, needed, homeVisit, published, late, trust, others, due>>

\* by the recipient
DisputeCompletion ==
  /\ status = "awaiting_confirmation"
  /\ done' = [v \in Volunteers |-> done[v] /\ v \notin Team]
  /\ MoveTo("in_progress")
  /\ UNCHANGED <<response, needed, homeVisit, published, late, trust, others, due>>

\* by the recipient (cancel), a moderator (cancel_by_moderator) or on behalf of
\* a recipient who left (_cancel_as_owner_left): they differ in who is told
Cancel ==
  /\ status \in Cancellable
  /\ MoveTo("cancelled")
  /\ response' = ClosePending(response)
  /\ UNCHANGED <<done, needed, homeVisit, published, late, trust, others, due>>

-----------------------------------------------------------------------------
(* Periodic jobs.  expire_overdue decides again under the lock, so what it  *)
(* read before does not matter; auto_confirm re-reads only the status.      *)

IsStaleRecruiting == status \in {"active", "pending_moderation"} /\ late > 0

IsStale ==
  \/ status \in {"active", "pending_moderation"} /\ late > 0
  \/ status = "in_progress" /\ late > Duration + ExpireAfterEnd

ExpireOverdue ==
  /\ IsStale
  /\ \/ status = "active" /\ Team # {} /\ StartWork(response)
     \/ /\ status # "active" \/ Team = {}
        /\ MoveTo("expired")
        /\ response' = ClosePending(response)
  /\ UNCHANGED <<done, needed, homeVisit, published, late, trust, others, due>>

AutoConfirmQuery ==
  /\ ~due
  /\ status = "awaiting_confirmation"
  /\ age > AutoConfirmAfter
  /\ due' = TRUE
  /\ UNCHANGED <<status, response, done, needed, homeVisit, published, late, age, trust, others>>

AutoConfirmLocked ==
  /\ due
  /\ due' = FALSE
  /\ \/ status = "awaiting_confirmation" /\ MoveTo("completed")
     \/ status # "awaiting_confirmation" /\ Stay
  /\ UNCHANGED <<response, done, needed, homeVisit, published, late, trust, others>>

-----------------------------------------------------------------------------
(* The environment: time, the accounts, the recipient's other requests *)

Tick ==
  /\ late' = IF late < LateMax THEN late + 1 ELSE late
  /\ age' = IF age < AgeMax THEN age + 1 ELSE age
  /\ UNCHANGED <<status, response, done, needed, homeVisit, published, trust, others, due>>

\* email confirmed or changed, verified or revoked (is_verified alone makes L2)
TrustChange(u) ==
  /\ \E level \in 0 .. L2 : trust' = [trust EXCEPT ![u] = level]
  /\ UNCHANGED <<status, response, done, needed, homeVisit, published, late, age, others, due>>

OtherPublished ==
  /\ others <= Premoderated
  /\ others' = others + 1
  /\ UNCHANGED <<status, response, done, needed, homeVisit, published, late, age, trust, due>>

-----------------------------------------------------------------------------

VolunteerStep(v) ==
  \/ Respond(v) \/ Accept(v) \/ Reject(v) \/ Withdraw(v) \/ Remove(v)
  \/ RemoveByModerator(v) \/ MarkDone(v)

\* everything but the edit view and the clock
ServiceStep ==
  \/ Publish \/ Approve \/ RejectRequest
  \/ \E v \in Volunteers : VolunteerStep(v)
  \/ ConfirmCompletion \/ DisputeCompletion \/ Cancel
  \/ ExpireOverdue \/ AutoConfirmQuery \/ AutoConfirmLocked
  \/ OtherPublished
  \/ \E u \in Users : TrustChange(u)

Next == ServiceStep \/ EditSome \/ Tick

Spec == Init /\ [][Next]_vars

\* The cron service calls the jobs every ten minutes (docs/adr/0004) and one
\* failing job does not stop the others; time passes.  Nobody has to click.
Fairness ==
  /\ WF_vars(Tick)
  /\ WF_vars(ExpireOverdue)
  /\ WF_vars(AutoConfirmQuery)
  /\ WF_vars(AutoConfirmLocked)

FairSpec == Spec /\ Fairness

-----------------------------------------------------------------------------
(* Safety *)

\* A response waits for an answer only while somebody may still give one: a
\* request that is being worked on or is over has none left.  withdraw and
\* reject act on a pending response whatever the request's status, so all that
\* protects an old request from them is that every exit closes the pending.
NoPendingLeftBehind ==
  Waiting # {} => status \in {"active", "pending_moderation", "rejected"}

\* Work is never under way without a volunteer: whoever leaves last sends the
\* request back to recruiting, also after the date (_reopen_if_short).
WorkHasTeam == status \in Working => Team # {}

\* A request waits for the recipient's confirmation only when every volunteer
\* still on it has reported the work as done, however the team has changed.
AwaitingMeansAllDone == status = "awaiting_confirmation" => AllDone(Team, done)

\* A request that was opened to volunteers has its published_at, which the
\* premoderation counts rely on.
OpenWasPublished == status \in Open \cup {"completed"} => published

\* A completed, cancelled or expired request is a closed book: neither it nor
\* any response or report of work on it changes again.
ClosedIsFinal ==
  [][(status \in Closed) => UNCHANGED <<status, response, done>>]_vars

\* A volunteer answers a request once and the answer given to a response is
\* final, but for an accepted volunteer who leaves or is taken off.
MayBecome(from, to) ==
  \/ to = from
  \/ from = "none" /\ to = "pending"
  \/ from = "pending" /\ to \in Answers
  \/ from = "accepted" /\ to \in {"withdrawn", "removed"}

ResponseMoves ==
  [][\A v \in Volunteers : MayBecome(response[v], response'[v])]_vars

\* Help is recorded as completed only with a volunteer who gave it, and nobody
\* is put on or off the team by the step that completes it.
CompletedWithTeam ==
  [][status # "completed" /\ status' = "completed" => Team # {} /\ Team' = Team]_vars

\* Everybody on the team is done and the request still counts as in progress:
\* mark_done refuses, auto_confirm does not see it, and it expires unless the
\* recipient thinks of confirming it.
Overlooked == status = "in_progress" /\ AllDone(Team, done)

\* docs/ROADMAP.md:28 calls awaiting_confirmation the state in which everybody
\* accepted has reported the work as done.  There are two ways round it and no
\* third: work restarts from recruiting with a team that kept its reports, or
\* somebody leaves a team that was larger than volunteers_needed.
OnlyARestartSkipsConfirmation ==
  [][~Overlooked /\ Overlooked' =>
       status = "active" \/ Cardinality(Team) > needed]_vars

-----------------------------------------------------------------------------
(* Liveness *)

Admitted == status \in {"pending_moderation"} \cup Open
Settled == status \in Closed \cup {"rejected"}

\* Nobody is kept waiting forever: with the clock and the jobs running, a
\* request that reached moderation or volunteers is closed or sent back, unless
\* its recipient goes on disputing the completion or moving the date for ever.
EveryRequestSettles ==
  \/ []<><<DisputeCompletion>>_vars
  \/ []<><<EditSome>>_vars
  \/ Admitted ~> Settled

-----------------------------------------------------------------------------
(* What the documents say and the code does not keep *)

\* docs/ROADMAP.md:39 and editable_fields_error: volunteers_needed is never
\* below the number of accepted volunteers.
NotOverfilled == Cardinality(Team) <= needed
=============================================================================
