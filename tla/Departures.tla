----------------------------- MODULE Departures -----------------------------
(***************************************************************************)
(* A volunteer loses the verification (revoke_verification), is blocked    *)
(* (act_on_report) or deletes the account (delete_account), beside the     *)
(* life of a request and the volunteer's own web requests.  The moderator's *)
(* handlers are not atomic: they change the account in one transaction,    *)
(* look for open responses, and take the volunteer off in another.         *)
(***************************************************************************)
EXTENDS Lifecycle

VARIABLES
  active,   \* User.is_active of the volunteers
  handler,  \* the moderator's handler about a volunteer, by its next step
  page,     \* request.user as loaded by the volunteer's web request
  around    \* ghost: what made the account and the responses differ

depVars == <<vars, active, handler, page, around>>
account == <<active, handler, page, around>>

NoPage == [trust |-> -1, active |-> FALSE]
Pages == [trust : 0 .. L2, active : {TRUE}]

Steps == {"idle", "sweep", "sweepRemove", "deactivate", "close", "leave", "closeRemove"}
Evasions == {"remoderated", "overwritten", "crashed"}  \* of any sweep
Ways == {"none", "answeredLate", "byAdmin"} \cup Evasions

DepTypeOK ==
  /\ TypeOK
  /\ active \in [Volunteers -> BOOLEAN]
  /\ handler \in [Volunteers -> [step : Steps, block : BOOLEAN]]
  /\ page \in [Volunteers -> Pages \cup {NoPage}]
  /\ around \in [Volunteers -> Ways]

Idle == [step |-> "idle", block |-> FALSE]
At(v, s) == handler[v].step = s
Go(v, s) == handler' = [handler EXCEPT ![v].step = s]
Finish(v) == handler' = [handler EXCEPT ![v] = Idle]
Noted(v, way) == IF around[v] \in Evasions THEN around[v] ELSE way

-----------------------------------------------------------------------------
(* revoke_verification *)

\* the transaction that takes is_verified away, alone or as part of a block
\* (the email of an L2 volunteer need not be confirmed)
Revoke(v, block) ==
  /\ At(v, "idle")
  /\ trust[v] = L2
  /\ \E level \in 0 .. L1 : trust' = [trust EXCEPT ![v] = level]
  /\ handler' = [handler EXCEPT ![v] = [step |-> "sweep", block |-> block]]
  /\ UNCHANGED <<status, response, done, needed, homeVisit, published, late, age, others,
                 due, active, page, around>>

HasOpenResponse(v) == response[v] \in {"pending", "accepted"} /\ status \in Open

AfterSweep(v) == IF handler[v].block THEN Go(v, "deactivate") ELSE Finish(v)

\* the query for the volunteer's responses on open requests
SweepQuery(v) ==
  /\ At(v, "sweep")
  /\ IF HasOpenResponse(v) THEN Go(v, "sweepRemove") ELSE AfterSweep(v)
  /\ UNCHANGED <<vars, active, page, around>>

\* leaving the ones already accepted to the recipient
TakeOffPending(v) ==
  \/ response[v] = "pending" /\ RemoveByModerator(v)
  \/ response[v] # "pending" /\ UNCHANGED vars

\* remove_by_moderator, which returns False when it finds nothing to do
TakeOff(v) ==
  \/ RemoveByModerator(v)
  \/ ~HasOpenResponse(v) /\ UNCHANGED vars

SweepRemove(v) ==
  /\ At(v, "sweepRemove")
  /\ TakeOff(v)
  /\ AfterSweep(v)
  /\ UNCHANGED <<active, page, around>>

-----------------------------------------------------------------------------
(* act_on_report about a user; delete_account *)

BlockUnverified(v) ==
  /\ At(v, "idle")
  /\ active[v]
  /\ trust[v] # L2
  /\ handler' = [handler EXCEPT ![v] = [step |-> "deactivate", block |-> TRUE]]
  /\ UNCHANGED <<vars, active, page, around>>

Deactivate(v) ==
  /\ At(v, "deactivate")
  /\ active' = [active EXCEPT ![v] = FALSE]
  /\ Go(v, "close")
  /\ UNCHANGED <<vars, page, around>>

\* close_open_work_of: the query
CloseQuery(v) ==
  /\ At(v, "close")
  /\ IF HasOpenResponse(v) THEN Go(v, "leave") ELSE Finish(v)
  /\ UNCHANGED <<vars, active, page, around>>

\* close_open_work_of: withdraw, or its TransitionError
CanWithdraw(v) ==
  \/ response[v] = "pending"
  \/ response[v] = "accepted" /\ status \in Open /\ ~done[v]

CloseLeave(v) ==
  /\ At(v, "leave")
  /\ \/ Withdraw(v) /\ Finish(v)
     \/ ~CanWithdraw(v) /\ Go(v, "closeRemove") /\ UNCHANGED vars
  /\ UNCHANGED <<active, page, around>>

CloseRemove(v) ==
  /\ At(v, "closeRemove")
  /\ TakeOff(v)
  /\ Finish(v)
  /\ UNCHANGED <<active, page, around>>

\* delete_account does the same in one transaction and takes every trust level
DeleteAccount(v) ==
  LET open == HasOpenResponse(v)
      gone == IF CanWithdraw(v) THEN "withdrawn" ELSE "removed"
  IN /\ active[v]
     /\ response' = IF open THEN [response EXCEPT ![v] = gone] ELSE response
     /\ \/ open /\ response[v] = "accepted" /\ ReopenIfShort(Team \ {v})
        \/ ~(open /\ response[v] = "accepted") /\ Stay
     /\ trust' = [trust EXCEPT ![v] = 0]
     /\ active' = [active EXCEPT ![v] = FALSE]
     /\ UNCHANGED <<done, needed, homeVisit, published, late, others, due, handler, page,
                    around>>

\* the worker is killed between two transactions of a handler
Crash(v) ==
  /\ ~At(v, "idle")
  /\ Finish(v)
  /\ around' = [around EXCEPT ![v] = Noted(v, "crashed")]
  /\ UNCHANGED <<vars, active, page>>

-----------------------------------------------------------------------------
(* The bulk actions of the Django admin, each one update of the account and   *)
(* nothing else: "verify" and "unblock" ask no more than "block" does.        *)

AdminBlock(v) ==
  /\ active[v]
  /\ active' = [active EXCEPT ![v] = FALSE]
  /\ around' = [around EXCEPT ![v] = Noted(v, "byAdmin")]
  /\ UNCHANGED <<vars, handler, page>>

AdminUnblock(v) ==
  /\ ~active[v]
  /\ active' = [active EXCEPT ![v] = TRUE]
  /\ UNCHANGED <<vars, handler, page, around>>

AdminVerify(v) ==
  /\ trust[v] # L2
  /\ trust' = [trust EXCEPT ![v] = L2]
  /\ UNCHANGED <<status, response, done, needed, homeVisit, published, late, age, others,
                 due, account>>

-----------------------------------------------------------------------------
(* The volunteer's web requests and account *)

\* the session loads request.user
PageLoad(v) ==
  /\ active[v] /\ page[v] = NoPage
  /\ page' = [page EXCEPT ![v] = [trust |-> trust[v], active |-> TRUE]]
  /\ UNCHANGED <<vars, active, handler, around>>

\* respond with the account as the page loaded it
PageRespond(v) ==
  /\ page[v] # NoPage
  /\ status = "active" /\ response[v] = "none"
  /\ page[v].trust >= L1 /\ (homeVisit => page[v].trust = L2)
  /\ response' = [response EXCEPT ![v] = "pending"]
  /\ page' = [page EXCEPT ![v] = NoPage]
  /\ around' = [around EXCEPT ![v] = IF active[v] THEN @ ELSE Noted(v, "answeredLate")]
  /\ UNCHANGED <<status, done, needed, homeVisit, published, late, age, trust, others, due,
                 active, handler>>

\* what the profile form makes of the trust level: a new email is unconfirmed,
\* which an L2 volunteer does not notice
FormTrust(level) == {level} \cup (IF level = L1 THEN {0} ELSE {})

\* ProfileEditView.post: user.save() writes the whole row the page loaded
PageProfile(v) ==
  /\ page[v] # NoPage
  /\ \E level \in FormTrust(page[v].trust) : trust' = [trust EXCEPT ![v] = level]
  /\ active' = [active EXCEPT ![v] = page[v].active]
  /\ page' = [page EXCEPT ![v] = NoPage]
  /\ around' = [around EXCEPT ![v] =
       IF trust[v] = page[v].trust /\ active[v] THEN @ ELSE Noted(v, "overwritten")]
  /\ UNCHANGED <<status, response, done, needed, homeVisit, published, late, age, others,
                 due, handler>>

\* the link of the confirmation mail
ConfirmEmail(v) ==
  /\ active[v]
  /\ trust[v] = 0
  /\ trust' = [trust EXCEPT ![v] = L1]
  /\ UNCHANGED <<status, response, done, needed, homeVisit, published, late, age, others,
                 due, account>>

\* approve_verification, which looks at nothing but the application (kept by a
\* blocked volunteer, deleted with the account), or redeem_invite
Verify(v) ==
  /\ trust[v] = L1 \/ (active[v] /\ trust[v] = 0)
  /\ trust' = [trust EXCEPT ![v] = L2]
  /\ UNCHANGED <<status, response, done, needed, homeVisit, published, late, age, others,
                 due, account>>

\* The request goes back to moderation or is edited after a rejection while
\* people are on it.
Remoderated(v) ==
  /\ response[v] \in {"pending", "accepted"}
  /\ status' = "pending_moderation"

RequestStep ==
  /\ \/ Publish \/ Approve \/ RejectRequest \/ EditSome
     \/ \E v \in Volunteers : Accept(v) \/ Reject(v) \/ Remove(v)
     \/ \E v \in Volunteers : active[v] /\ (Withdraw(v) \/ MarkDone(v))
     \/ ConfirmCompletion \/ DisputeCompletion \/ Cancel
     \/ ExpireOverdue \/ AutoConfirmQuery \/ AutoConfirmLocked \/ Tick
  /\ around' = [v \in Volunteers |->
                  IF Remoderated(v) THEN Noted(v, "remoderated") ELSE around[v]]
  /\ UNCHANGED <<active, handler, page>>

-----------------------------------------------------------------------------

DepInit ==
  /\ Init
  /\ active = [v \in Volunteers |-> TRUE]
  /\ handler = [v \in Volunteers |-> Idle]
  /\ page = [v \in Volunteers |-> NoPage]
  /\ around = [v \in Volunteers |-> "none"]

HandlerStep(v) ==
  \/ \E block \in BOOLEAN : Revoke(v, block)
  \/ SweepQuery(v) \/ SweepRemove(v)
  \/ BlockUnverified(v) \/ Deactivate(v) \/ CloseQuery(v) \/ CloseLeave(v) \/ CloseRemove(v)
  \/ Crash(v)

AccountStep(v) ==
  \/ PageLoad(v) \/ PageRespond(v) \/ PageProfile(v) \/ DeleteAccount(v) \/ ConfirmEmail(v)
  \/ Verify(v)

AdminStep(v) == AdminBlock(v) \/ AdminUnblock(v) \/ AdminVerify(v)

DepNext ==
  RequestStep \/ \E v \in Volunteers : HandlerStep(v) \/ AccountStep(v) \/ AdminStep(v)

DepSpec == DepInit /\ [][DepNext]_depVars

-----------------------------------------------------------------------------
(* Safety *)

OnHomeVisit(v) == response[v] = "accepted" /\ homeVisit /\ status \in Open
Sweeping(v) == handler[v].step \in {"sweep", "sweepRemove"}
Closing(v) == handler[v].step \in {"close", "leave", "closeRemove"}

\* However a revocation interleaves with respond and accept, an unverified
\* volunteer is on a home visit only while the sweep runs, unless the request
\* was moderated again with the volunteer on it, a stale profile form was
\* saved, or the handler died: accept looks at the account again.
\* RequestStep takes an edit in one step.  In the code one more way leads round
\* the rule: a form that makes the request a home visit, read while nobody was
\* accepted and saved (views.py:465 locks nothing) after an unverified volunteer
\* was.  EditRace has that save, without the accounts.
VisitNeedsVerified ==
  \A v \in Volunteers :
    OnHomeVisit(v) /\ trust[v] # L2
      => Sweeping(v) \/ around[v] \in Evasions

\* Nor does anybody go on waiting for a volunteer who is blocked or gone, except
\* after one of these, an answer that was under way, or a block in the admin,
\* which leaves the responses as they are.
NobodyWaitsForTheGone ==
  \A v \in Volunteers :
    HasOpenResponse(v) /\ ~active[v] => Closing(v) \/ around[v] # "none"
=============================================================================
