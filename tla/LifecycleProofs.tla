-------------------------- MODULE LifecycleProofs --------------------------
(***************************************************************************)
(* What TLC checks of Lifecycle and of the modules that put it together    *)
(* with its surroundings - LifecycleContract, Pages, EditRace, Jobs and    *)
(* Departures - proved for any number of volunteers and calls and any      *)
(* deadlines.                                                              *)
(*                                                                         *)
(* The inductive invariant of Lifecycle is the conjunction of its five     *)
(* invariants: no one of the middle three is inductive alone, since what a *)
(* volunteer who leaves does to the request depends on the team and on the *)
(* reports of work left behind.  Beside the edit view two of the five are  *)
(* lost, so the actions are first shown to keep what is left, Sound, and   *)
(* then, outside the edit view, the rest.                                  *)
(***************************************************************************)
EXTENDS LifecycleContract, Pages, EditRace, Jobs, Departures, FiniteSetTheorems, TLAPS

Inv ==
  /\ TypeOK
  /\ NoPendingLeftBehind
  /\ WorkHasTeam
  /\ AwaitingMeansAllDone
  /\ OpenWasPublished

\* What every step keeps, the save of a stale form included.
Sound == TypeOK /\ RaceWorkIsSound

-----------------------------------------------------------------------------
(* Lemmas about the helpers *)

LEMMA Constants ==
  /\ MaxNeeded \in Nat \ {0} /\ Premoderated \in Nat /\ Lead \in Nat
  /\ LateMax \in Nat /\ 0 \in 0 .. AgeMax /\ AgeMax \in Nat
BY LifecycleAssumption DEF LateMax, AgeMax

\* A full team has somebody in it, since at least one volunteer is needed.
LEMMA FullIsNotEmpty ==
  ASSUME NEW n \in 1 .. MaxNeeded, NEW S, Full(S, n)
  PROVE  S # {}
<1>1. SUFFICES ASSUME S = {} PROVE FALSE
  OBVIOUS
<1>2. Cardinality(S) = 0
  BY <1>1, FS_EmptySet
<1> QED
  BY <1>2, LifecycleAssumption DEF Full

\* Closing the pending responses leaves the accepted ones as they are, closes
\* every pending one and touches no other.
LEMMA ClosePendingEffect ==
  ASSUME NEW resp \in [Volunteers -> RStatuses]
  PROVE  /\ ClosePending(resp) \in [Volunteers -> RStatuses]
         /\ WithAnswer(ClosePending(resp), "pending") = {}
         /\ WithAnswer(ClosePending(resp), "accepted") = WithAnswer(resp, "accepted")
BY DEF ClosePending, WithAnswer, RStatuses, Answers

\* What _reopen_if_short may do to the request when the volunteer v has left.
LEMMA ReopenEffect ==
  ASSUME Sound, NEW v \in Volunteers, status \in Open, ReopenIfShort(Team \ {v})
  PROVE  /\ status' \in Open
         /\ age' \in 0 .. AgeMax
         /\ status' \in Working => status \in Working /\ Team \ {v} # {}
         /\ status' = "awaiting_confirmation" => AllDone(Team \ {v}, done)
<1> DEFINE left == Team \ {v}
<1> USE DEF Sound, TypeOK, Open, Working
<1>1. CASE status \in Working /\ ~Full(left, needed)
  <2>1. CASE ~CarryOn(left)
    BY <1>1, <2>1, LifecycleAssumption DEF ReopenIfShort, MoveTo, AgeMax
  <2>2. CASE CarryOn(left)
    <3>1. left # {}
      BY <2>2 DEF CarryOn
    <3>2. 0 \in 0 .. AgeMax
      BY LifecycleAssumption DEF AgeMax
    <3>3. CASE AllDone(left, done)
      BY <1>1, <2>2, <3>1, <3>2, <3>3 DEF ReopenIfShort, MoveTo, Stay
    <3>4. CASE ~AllDone(left, done)
      BY <1>1, <2>2, <3>1, <3>2, <3>4 DEF ReopenIfShort, MoveTo, Stay
    <3> QED
      BY <3>3, <3>4
  <2> QED
    BY <2>1, <2>2
<1>2. CASE ~(status \in Working /\ ~Full(left, needed))
  <2>1. status' = status /\ age' = age
    BY <1>2 DEF ReopenIfShort, Stay
  <2>2. status \in Working => left # {}
    BY <1>2, FullIsNotEmpty
  <2>3. status = "awaiting_confirmation" => AllDone(left, done)
    BY DEF RaceWorkIsSound, AllDone
  <2> QED
    BY <2>1, <2>2, <2>3
<1> QED
  BY <1>1, <1>2

\* Giving one volunteer's response the status s moves that volunteer between
\* the sets of volunteers and nobody else.
LEMMA AnswerEffect ==
  ASSUME NEW resp \in [Volunteers -> RStatuses], NEW v \in Volunteers,
         NEW s \in RStatuses, NEW t
  PROVE  /\ [resp EXCEPT ![v] = s] \in [Volunteers -> RStatuses]
         /\ s = t => WithAnswer([resp EXCEPT ![v] = s], t) = WithAnswer(resp, t) \cup {v}
         /\ s # t => WithAnswer([resp EXCEPT ![v] = s], t) = WithAnswer(resp, t) \ {v}
BY DEF WithAnswer

-----------------------------------------------------------------------------
(* The invariant holds at first and is kept by every action *)

LEMMA ModerationSound ==
  ASSUME Sound, Publish \/ Approve \/ RejectRequest
  PROVE  Sound'
<1>1. Team' = Team /\ Waiting' = Waiting
  BY DEF Publish, Approve, RejectRequest, Team, Waiting, WithAnswer
<1>2. TypeOK'
  BY Constants
  DEF Sound, TypeOK, Publish, Approve, RejectRequest, GoLive, MoveTo, Statuses
<1>3. status' \notin Working \cup Closed
  BY DEF Publish, Approve, RejectRequest, GoLive, MoveTo, Working, Closed
<1> QED
  BY <1>2, <1>3 DEF Sound, RaceWorkIsSound, Working

\* Starting the work answers everybody who waits and keeps the team.
LEMMA StartWorkEffect ==
  ASSUME NEW resp \in [Volunteers -> RStatuses], StartWork(resp)
  PROVE  /\ status' = "in_progress" /\ age' = 0
         /\ response' \in [Volunteers -> RStatuses]
         /\ Waiting' = {} /\ Team' = WithAnswer(resp, "accepted")
<1>1. response' = ClosePending(resp)
  BY DEF StartWork
<1> QED
  BY <1>1, ClosePendingEffect DEF StartWork, MoveTo, Waiting, Team, WithAnswer

\* after_edit starts the work only when the team is large enough for it.
LEMMA AfterEditSound ==
  ASSUME Sound, NEW n \in 1 .. MaxNeeded, NEW content, AfterEdit(n, content),
         needed' \in 1 .. MaxNeeded, homeVisit' \in BOOLEAN, late' \in -Lead .. LateMax,
         UNCHANGED <<done, published, trust, others, due>>
  PROVE  Sound'
<1>1. response \in [Volunteers -> RStatuses]
  BY DEF Sound, TypeOK
<1>2. CASE status = "active" /\ Full(Team, n) /\ StartWork(response)
  <2>1. Waiting' = {} /\ Team' = Team /\ Team # {}
    BY <1>1, <1>2, StartWorkEffect, FullIsNotEmpty DEF Team
  <2>2. status' = "in_progress" /\ age' = 0 /\ response' \in [Volunteers -> RStatuses]
    BY <1>1, <1>2, StartWorkEffect
  <2>3. TypeOK'
    BY <2>2, Constants DEF Sound, TypeOK, Statuses
  <2> QED
    BY <2>1, <2>2, <2>3 DEF Sound, RaceWorkIsSound
<1>3. CASE response' = response /\ (MoveTo("pending_moderation") \/ Stay)
  <2>1. Waiting' = Waiting /\ Team' = Team
    BY <1>3 DEF Waiting, Team, WithAnswer
  <2>2. TypeOK'
    BY <1>3, Constants DEF Sound, TypeOK, Statuses, MoveTo, Stay
  <2> QED
    BY <1>3, <2>1, <2>2 DEF Sound, RaceWorkIsSound, Working, Closed, MoveTo, Stay
<1> QED
  BY <1>2, <1>3 DEF AfterEdit

LEMMA EditSound == ASSUME Sound, EditSome PROVE Sound'
<1> PICK n \in NeededChoices, visit \in BOOLEAN, text \in BOOLEAN, date \in -Lead .. 0 :
      Edit(n, visit, date, text)
  BY DEF EditSome
<1>1. /\ needed' \in 1 .. MaxNeeded /\ homeVisit' \in BOOLEAN /\ late' \in -Lead .. LateMax
      /\ UNCHANGED <<done, published, trust, others, due>>
      /\ AfterEdit(n, text \/ visit # homeVisit)
  BY Constants DEF Edit, NeededChoices
<1> QED
  BY <1>1, AfterEditSound DEF NeededChoices

\* What respond does, whatever the account it was loaded with has become.
Offers(v) ==
  /\ status = "active"
  /\ response[v] = "none"
  /\ response' = [response EXCEPT ![v] = "pending"]
  /\ UNCHANGED <<status, done, needed, homeVisit, published, late, age, trust, others, due>>

LEMMA RespondOffers == ASSUME NEW v, Respond(v) PROVE Offers(v)
BY DEF Respond, Offers

LEMMA OffersSound == ASSUME Sound, NEW v \in Volunteers, Offers(v) PROVE Sound'
<1>1. response' = [response EXCEPT ![v] = "pending"] /\ "pending" \in RStatuses
  BY DEF Offers, RStatuses
<1>2. response' \in [Volunteers -> RStatuses] /\ Team' = Team \ {v}
  BY <1>1, AnswerEffect DEF Sound, TypeOK, Team, WithAnswer
<1>3. status' = "active" /\ UNCHANGED status
  BY DEF Offers
<1>4. TypeOK'
  BY <1>2 DEF Sound, TypeOK, Offers
<1> QED
  BY <1>2, <1>3, <1>4
  DEF Sound, RaceWorkIsSound, Working, Closed

LEMMA AcceptSound == ASSUME Sound, NEW v \in Volunteers, Accept(v) PROVE Sound'
<1> DEFINE resp == [response EXCEPT ![v] = "accepted"]
           team == WithAnswer(resp, "accepted")
<1>1. resp \in [Volunteers -> RStatuses]
  BY DEF Sound, TypeOK, RStatuses, Answers
<1>2. /\ status = "active"
      /\ UNCHANGED <<done, needed, homeVisit, published, late, trust, others, due>>
  BY DEF Accept
<1>3. CASE Full(team, needed) /\ StartWork(resp)
  <2>1. team # {}
    BY <1>3, FullIsNotEmpty DEF Sound, TypeOK
  <2>2. /\ status' = "in_progress" /\ age' = 0 /\ response' \in [Volunteers -> RStatuses]
        /\ Waiting' = {} /\ Team' = team
    BY <1>1, <1>3, StartWorkEffect
  <2>3. TypeOK'
    BY <1>2, <2>2, Constants DEF Sound, TypeOK, Statuses
  <2> QED
    BY <1>2, <2>1, <2>2, <2>3
    DEF Sound, RaceWorkIsSound
<1>4. CASE Stay /\ response' = resp
  <2>1. TypeOK'
    BY <1>1, <1>2, <1>4 DEF Sound, TypeOK, Stay
  <2> QED
    BY <1>2, <1>4, <2>1
    DEF Sound, RaceWorkIsSound, Working, Closed, Stay
<1> QED
  BY <1>3, <1>4 DEF Accept

LEMMA RejectSound == ASSUME Sound, NEW v \in Volunteers, Reject(v) PROVE Sound'
<1>1. response' = [response EXCEPT ![v] = "rejected"] /\ "rejected" \in RStatuses
  BY DEF Reject, RStatuses, Answers
<1>2. response' \in [Volunteers -> RStatuses] /\ Team' = Team \ {v} /\ Waiting' = Waiting \ {v}
  BY <1>1, AnswerEffect DEF Sound, TypeOK, Team, Waiting, WithAnswer
<1>3. Team' = Team
  BY <1>2 DEF Reject, Team, WithAnswer
<1>4. UNCHANGED <<status, done>>
  BY DEF Reject
<1>5. TypeOK'
  BY <1>2 DEF Sound, TypeOK, Reject
<1> QED
  BY <1>2, <1>3, <1>4, <1>5
  DEF Sound, RaceWorkIsSound, AllDone

\* What withdraw, remove, remove_by_moderator and delete_account have in common: a
\* volunteer who waited leaves at once, one of the team leaves an open request
\* behind, and nobody else's report or account changes.
Leaves(v) ==
  /\ \/ response[v] = "pending" /\ Stay
     \/ response[v] = "accepted" /\ status \in Open /\ ReopenIfShort(Team \ {v})
  /\ \E s \in {"withdrawn", "removed"} : response' = [response EXCEPT ![v] = s]
  /\ done' \in [Volunteers -> BOOLEAN] /\ \A w \in Volunteers \ {v} : done'[w] = done[w]
  /\ trust' \in [Users -> 0 .. L2] /\ \A w \in Volunteers \ {v} : trust'[w] = trust[w]
  /\ UNCHANGED <<needed, homeVisit, published, late, others, due>>

LEMMA LeavingActions ==
  ASSUME Sound, NEW v \in Volunteers, Withdraw(v) \/ Remove(v) \/ RemoveByModerator(v)
  PROVE  Leaves(v)
BY DEF Withdraw, Remove, RemoveByModerator, Leaves, Sound, TypeOK

LEMMA LeavesSound == ASSUME Sound, NEW v \in Volunteers, Leaves(v) PROVE Sound'
<1>1. PICK s \in {"withdrawn", "removed"} : response' = [response EXCEPT ![v] = s]
  BY DEF Leaves
<1>2. s \in RStatuses /\ s # "pending" /\ s # "accepted"
  BY DEF RStatuses, Answers
<1>3. /\ response' \in [Volunteers -> RStatuses]
      /\ Team' = Team \ {v} /\ Waiting' = Waiting \ {v}
  BY <1>1, <1>2, AnswerEffect DEF Sound, TypeOK, Team, Waiting, WithAnswer
<1>4. \A w \in Team \ {v} : done'[w] = done[w]
  BY DEF Leaves, Team, WithAnswer
<1>5. CASE response[v] = "pending" /\ Stay
  <2>1. v \in Waiting /\ Team' = Team
    BY <1>3, <1>5 DEF Waiting, Team, WithAnswer
  <2>2. status' = status /\ status \notin Working
    BY <1>5, <2>1 DEF Stay, Sound, RaceWorkIsSound, Working
  <2>3. TypeOK'
    BY <1>3, <1>5 DEF Leaves, Stay, Sound, TypeOK
  <2> QED
    BY <1>3, <2>1, <2>2, <2>3
    DEF Sound, RaceWorkIsSound, Working
<1>6. CASE response[v] = "accepted" /\ status \in Open /\ ReopenIfShort(Team \ {v})
  <2>1. /\ status' \in Open /\ age' \in 0 .. AgeMax
        /\ status' \in Working => status \in Working /\ Team \ {v} # {}
        /\ status' = "awaiting_confirmation" => AllDone(Team \ {v}, done)
    BY <1>6, ReopenEffect
  <2>2. TypeOK'
    BY <1>3, <2>1 DEF Leaves, Sound, TypeOK, Open, Statuses
  <2>3. Waiting' # {} => status' = "active"
    BY <1>3, <2>1, <1>6 DEF Sound, RaceWorkIsSound, Open, Working
  <2>4. status' = "awaiting_confirmation" => AllDone(Team', done')
    BY <1>3, <1>4, <2>1 DEF AllDone
  <2> QED
    BY <1>3, <2>1, <2>2, <2>3, <2>4
    DEF Sound, RaceWorkIsSound, Open, Closed, Working
<1> QED
  BY <1>5, <1>6 DEF Leaves

LEMMA MarkDoneSound == ASSUME Sound, NEW v \in Volunteers, MarkDone(v) PROVE Sound'
<1>1. Team' = Team /\ Waiting' = Waiting /\ v \in Team
  BY DEF MarkDone, Team, Waiting, WithAnswer
<1>2. /\ status' \in Working
      /\ status' = "awaiting_confirmation" => AllDone(Team, done')
      /\ Waiting = {}
  BY DEF MarkDone, MoveTo, Stay, Working, Sound, RaceWorkIsSound
<1>3. TypeOK'
  BY Constants DEF MarkDone, MoveTo, Stay, Sound, TypeOK, Statuses
<1> QED
  BY <1>1, <1>2, <1>3
  DEF Sound, RaceWorkIsSound

LEMMA CompletionSound == ASSUME Sound, ConfirmCompletion \/ DisputeCompletion PROVE Sound'
<1>1. Team' = Team /\ Waiting' = Waiting
  BY DEF ConfirmCompletion, DisputeCompletion, Team, Waiting, WithAnswer
<1>2. Team # {} /\ Waiting = {}
  BY DEF ConfirmCompletion, DisputeCompletion, Working, Sound, RaceWorkIsSound
<1>3. TypeOK'
  BY Constants
  DEF ConfirmCompletion, DisputeCompletion, MoveTo, Sound, TypeOK, Statuses
<1>4. status' \in {"completed", "in_progress"}
  BY DEF ConfirmCompletion, DisputeCompletion, MoveTo
<1> QED
  BY <1>1, <1>2, <1>3, <1>4
  DEF Sound, RaceWorkIsSound

\* Cancelling and expiring answer everybody who waits.
LEMMA ClosingSound == ASSUME Sound, Cancel \/ ExpireOverdue PROVE Sound'
<1>1. response \in [Volunteers -> RStatuses]
  BY DEF Sound, TypeOK
<1>2. UNCHANGED <<done, needed, homeVisit, published, late, trust, others, due>>
  BY DEF Cancel, ExpireOverdue
<1>3. CASE status = "active" /\ Team # {} /\ StartWork(response)
  <2>1. /\ status' = "in_progress" /\ age' = 0 /\ response' \in [Volunteers -> RStatuses]
        /\ Waiting' = {} /\ Team' = Team
    BY <1>1, <1>3, StartWorkEffect DEF Team
  <2>2. TypeOK'
    BY <1>2, <2>1, Constants DEF Sound, TypeOK, Statuses
  <2> QED
    BY <1>2, <1>3, <2>1, <2>2
    DEF Sound, RaceWorkIsSound, Open
<1>4. CASE /\ MoveTo("cancelled") \/ MoveTo("expired")
           /\ response' = ClosePending(response)
  <2>1. response' \in [Volunteers -> RStatuses] /\ Waiting' = {}
    BY <1>1, <1>4, ClosePendingEffect DEF Waiting, WithAnswer
  <2>2. TypeOK'
    BY <1>2, <1>4, <2>1, Constants DEF Sound, TypeOK, Statuses, MoveTo
  <2> QED
    BY <1>4, <2>1, <2>2
    DEF Sound, RaceWorkIsSound, Open, Working, MoveTo
<1> QED
  BY <1>3, <1>4 DEF Cancel, ExpireOverdue

LEMMA AutoConfirmSound == ASSUME Sound, AutoConfirmQuery \/ AutoConfirmLocked PROVE Sound'
<1>1. Team' = Team /\ Waiting' = Waiting
  BY DEF AutoConfirmQuery, AutoConfirmLocked, Team, Waiting, WithAnswer
<1>2. TypeOK'
  BY Constants
  DEF AutoConfirmQuery, AutoConfirmLocked, MoveTo, Stay, Sound, TypeOK, Statuses
<1>3. UNCHANGED <<done, published>>
  BY DEF AutoConfirmQuery, AutoConfirmLocked
<1>4. \/ UNCHANGED status
      \/ status = "awaiting_confirmation" /\ status' = "completed"
  BY DEF AutoConfirmQuery, AutoConfirmLocked, MoveTo, Stay
<1> QED
  BY <1>1, <1>2, <1>3, <1>4
  DEF Sound, RaceWorkIsSound, Working, Open, AllDone

LEMMA EnvironmentSound ==
  ASSUME Sound, Tick \/ OtherPublished \/ (\E u \in Users : TrustChange(u)) \/ UNCHANGED vars
  PROVE  Sound'
<1>1. Team' = Team /\ Waiting' = Waiting
  BY DEF Tick, OtherPublished, TrustChange, vars, Team, Waiting, WithAnswer
<1>2. UNCHANGED <<status, done, published>>
  BY DEF Tick, OtherPublished, TrustChange, vars
<1>3. TypeOK'
  <2>1. CASE Tick
    BY <2>1, Constants DEF Tick, Sound, TypeOK
  <2>2. CASE OtherPublished
    BY <2>2, Constants DEF OtherPublished, Sound, TypeOK
  <2>3. CASE \E u \in Users : TrustChange(u)
    BY <2>3 DEF TrustChange, Sound, TypeOK
  <2>4. CASE UNCHANGED vars
    BY <2>4 DEF vars, Sound, TypeOK
  <2> QED
    BY <2>1, <2>2, <2>3, <2>4
<1> QED
  BY <1>1, <1>2, <1>3
  DEF Sound, RaceWorkIsSound, AllDone

LEMMA NextSound == Sound /\ [Next]_vars => Sound'
<1> SUFFICES ASSUME Sound, [Next]_vars PROVE Sound'
  OBVIOUS
<1>1. CASE Publish \/ Approve \/ RejectRequest
  BY <1>1, ModerationSound
<1>2. CASE EditSome
  BY <1>2, EditSound
<1>3. ASSUME NEW v \in Volunteers, VolunteerStep(v) PROVE Sound'
  <2>1. CASE Respond(v)
    BY <2>1, RespondOffers, OffersSound
  <2>2. CASE Accept(v)
    BY <2>2, AcceptSound
  <2>3. CASE Reject(v)
    BY <2>3, RejectSound
  <2>4. CASE Withdraw(v) \/ Remove(v) \/ RemoveByModerator(v)
    BY <2>4, LeavingActions, LeavesSound
  <2>5. CASE MarkDone(v)
    BY <2>5, MarkDoneSound
  <2> QED
    BY <1>3, <2>1, <2>2, <2>3, <2>4, <2>5 DEF VolunteerStep
<1>4. CASE ConfirmCompletion \/ DisputeCompletion
  BY <1>4, CompletionSound
<1>5. CASE Cancel \/ ExpireOverdue
  BY <1>5, ClosingSound
<1>6. CASE AutoConfirmQuery \/ AutoConfirmLocked
  BY <1>6, AutoConfirmSound
<1>7. CASE Tick \/ OtherPublished \/ (\E u \in Users : TrustChange(u)) \/ UNCHANGED vars
  BY <1>7, EnvironmentSound
<1> QED
  BY <1>1, <1>2, <1>3, <1>4, <1>5, <1>6, <1>7 DEF Next, ServiceStep

-----------------------------------------------------------------------------
(* Outside the edit view nothing goes back to a draft or loses its date of    *)
(* publication either, so Inv is kept, too.                                   *)

LEMMA InitInv == Init => Inv
<1> SUFFICES ASSUME Init PROVE Inv
  OBVIOUS
<1>1. TypeOK
  <2>1. response \in [Volunteers -> RStatuses] /\ done \in [Volunteers -> BOOLEAN]
    BY DEF Init, RStatuses
  <2>2. status \in Statuses /\ needed \in 1 .. MaxNeeded
    BY DEF Init, Statuses, NeededChoices
  <2>3. late \in -Lead .. LateMax /\ age \in 0 .. AgeMax
    BY Constants DEF Init
  <2> QED
    BY <2>1, <2>2, <2>3 DEF Init, TypeOK
<1>2. Team = {} /\ Waiting = {}
  BY DEF Init, Team, Waiting, WithAnswer
<1> QED
  BY <1>1, <1>2
  DEF Inv, Init, NoPendingLeftBehind, WorkHasTeam, AwaitingMeansAllDone,
      OpenWasPublished, Working, Open

LEMMA InvIsSound == Inv => Sound
BY DEF Inv, TypeOK, Statuses, Sound, RaceWorkIsSound, NoPendingLeftBehind, WorkHasTeam,
       AwaitingMeansAllDone, Working, Closed

\* What a step of the lifecycle leaves alone or brings about, as far as the
\* status and the publication go.
PublishedBefore ==
  /\ published => published'
  /\ status' \in Open \cup {"completed"} => status \in Open \cup {"completed"} \/ published'
  /\ status' = "draft" => status = "draft" /\ Waiting' \subseteq Waiting

LEMMA SoundGivesInv == ASSUME Inv, Sound', PublishedBefore PROVE Inv'
<1>1. Waiting' # {} => status' \notin Working \cup Closed
  BY DEF Sound, RaceWorkIsSound
<1>2. status' # "draft" \/ Waiting' = {}
  BY DEF PublishedBefore, Inv, NoPendingLeftBehind
<1>3. NoPendingLeftBehind'
  BY <1>1, <1>2 DEF NoPendingLeftBehind, Sound, TypeOK, Statuses, Working, Closed
<1>4. OpenWasPublished'
  BY DEF PublishedBefore, Inv, OpenWasPublished
<1> QED
  BY <1>3, <1>4
  DEF Inv, Sound, RaceWorkIsSound, WorkHasTeam, AwaitingMeansAllDone

LEMMA LeavesPublished ==
  ASSUME Inv, NEW v \in Volunteers, Leaves(v) PROVE PublishedBefore
<1>1. CASE response[v] = "pending" /\ Stay
  <2>1. status # "draft"
    BY <1>1 DEF Inv, NoPendingLeftBehind, Waiting, WithAnswer
  <2> QED
    BY <1>1, <2>1 DEF Leaves, Stay, PublishedBefore
<1>2. CASE response[v] = "accepted" /\ status \in Open /\ ReopenIfShort(Team \ {v})
  BY <1>2, InvIsSound, ReopenEffect DEF Leaves, PublishedBefore, Open
<1> QED
  BY <1>1, <1>2 DEF Leaves

LEMMA LeavesInv == ASSUME Inv, NEW v \in Volunteers, Leaves(v) PROVE Inv'
BY InvIsSound, LeavesSound, LeavesPublished, SoundGivesInv

LEMMA OffersInv == ASSUME Inv, NEW v \in Volunteers, Offers(v) PROVE Inv'
<1>1. PublishedBefore
  BY DEF Offers, PublishedBefore, Open
<1> QED
  BY <1>1, InvIsSound, OffersSound, SoundGivesInv

LEMMA NextPublished == ASSUME Inv, [Next]_vars PROVE PublishedBefore
<1> USE DEF PublishedBefore, Open, MoveTo, Stay
<1>1. CASE Publish \/ Approve \/ RejectRequest
  BY <1>1 DEF Publish, Approve, RejectRequest, GoLive
<1>2. CASE EditSome
  <2>1. /\ published' = published
        /\ \/ status' = "pending_moderation"
           \/ status = "active" /\ StartWork(response)
           \/ status' = status /\ response' = response
    BY <1>2 DEF EditSome, Edit, AfterEdit
  <2> QED
    BY <2>1 DEF StartWork, Waiting, WithAnswer
<1>3. ASSUME NEW v \in Volunteers, VolunteerStep(v) PROVE PublishedBefore
  <2>1. CASE Respond(v) \/ Accept(v)
    BY <2>1 DEF Respond, Accept, StartWork
  <2>2. CASE Reject(v)
    <3>1. status # "draft"
      BY <2>2 DEF Reject, Inv, NoPendingLeftBehind, Waiting, WithAnswer
    <3> QED
      BY <2>2, <3>1 DEF Reject
  <2>3. CASE Withdraw(v) \/ Remove(v) \/ RemoveByModerator(v)
    BY <2>3, InvIsSound, LeavingActions, LeavesPublished
  <2>4. CASE MarkDone(v)
    BY <2>4 DEF MarkDone
  <2> QED
    BY <1>3, <2>1, <2>2, <2>3, <2>4 DEF VolunteerStep
<1>4. CASE ConfirmCompletion \/ DisputeCompletion
  BY <1>4 DEF ConfirmCompletion, DisputeCompletion, Working
<1>5. CASE Cancel \/ ExpireOverdue
  BY <1>5 DEF Cancel, ExpireOverdue, StartWork
<1>6. CASE AutoConfirmQuery \/ AutoConfirmLocked
  BY <1>6 DEF AutoConfirmQuery, AutoConfirmLocked, Waiting, WithAnswer
<1>7. CASE Tick \/ OtherPublished \/ (\E u \in Users : TrustChange(u)) \/ UNCHANGED vars
  BY <1>7 DEF Tick, OtherPublished, TrustChange, vars, Waiting, WithAnswer
<1> QED
  BY <1>1, <1>2, <1>3, <1>4, <1>5, <1>6, <1>7 DEF Next, ServiceStep

LEMMA NextInv == Inv /\ [Next]_vars => Inv'
BY InvIsSound, NextSound, NextPublished, SoundGivesInv

-----------------------------------------------------------------------------
(* The theorems *)

\* Every reachable state of a request, for any number of volunteers and any
\* deadlines, satisfies the inductive invariant.
THEOREM InvHolds == Spec => []Inv
BY InitInv, NextInv, PTL DEF Spec

\* The variables keep their types (models.py: the status fields and the
\* validators of volunteers_needed).
THEOREM TypeCorrect == Spec => []TypeOK
BY InvHolds, PTL DEF Inv

\* No service function leaves a pending response on a request that is being
\* worked on or is closed.
THEOREM PendingAnswered == Spec => []NoPendingLeftBehind
BY InvHolds, PTL DEF Inv

\* A request being worked on, or waiting for confirmation, has a volunteer.
THEOREM WorkNeverAbandoned == Spec => []WorkHasTeam
BY InvHolds, PTL DEF Inv

\* The recipient is asked to confirm only when everybody on the team is done.
THEOREM ConfirmationIsDue == Spec => []AwaitingMeansAllDone
BY InvHolds, PTL DEF Inv

\* Open and completed requests have their published_at.
THEOREM PublishedFirst == Spec => []OpenWasPublished
BY InvHolds, PTL DEF Inv

\* No service function and no job finds anything to do on a closed request:
\* withdraw and reject, which do not look at its status, find nothing pending.
LEMMA ClosedIsLeftAlone ==
  ASSUME Sound, [Next]_vars, status \in Closed
  PROVE  UNCHANGED <<status, response, done>>
<1>1. status \notin Open /\ status \notin Working /\ status \notin Editable
      /\ status \notin Cancellable /\ ~IsStale
  BY DEF Closed, Open, Working, Editable, Cancellable, IsStale
<1>2. \A v \in Volunteers : response[v] # "pending"
  BY DEF Closed, Sound, RaceWorkIsSound, Waiting, WithAnswer
<1>3. ASSUME NEW v \in Volunteers PROVE ~VolunteerStep(v)
  BY <1>1, <1>2
  DEF VolunteerStep, Respond, Accept, Reject, Withdraw, Remove, RemoveByModerator,
      MarkDone, Open, Closed
<1>4. ~(\/ Publish \/ Approve \/ RejectRequest \/ EditSome
        \/ ConfirmCompletion \/ DisputeCompletion \/ Cancel \/ ExpireOverdue
        \/ AutoConfirmQuery)
  BY <1>1
  DEF Publish, Approve, RejectRequest, EditSome, Edit, AfterEdit, EditAllowed, Closed,
      ConfirmCompletion, DisputeCompletion, Cancel, ExpireOverdue, AutoConfirmQuery
<1>5. AutoConfirmLocked => UNCHANGED <<status, response, done>>
  BY DEF AutoConfirmLocked, Stay, Closed
<1>6. Tick \/ OtherPublished \/ (\E u \in Users : TrustChange(u))
      => UNCHANGED <<status, response, done>>
  BY DEF Tick, OtherPublished, TrustChange
<1> QED
  BY <1>3, <1>4, <1>5, <1>6 DEF Next, ServiceStep, vars

\* A closed request stays closed with its responses and reports of work:
\* withdraw and reject, which do not look at the request's status, find nothing
\* to act on because nothing is pending.
THEOREM ClosedStaysClosed == Spec => ClosedIsFinal
<1>1. Inv /\ [Next]_vars => [(status \in Closed) => UNCHANGED <<status, response, done>>]_vars
  BY InvIsSound, ClosedIsLeftAlone
<1> QED
  BY <1>1, InvHolds, PTL DEF Spec, ClosedIsFinal

\* The answer given to a response is final, but for an accepted volunteer who
\* leaves or is taken off.
THEOREM AnswersAreFinal == Spec => ResponseMoves
<1> USE DEF MayBecome, Answers
<1>1. TypeOK /\ [Next]_vars => [\A v \in Volunteers : MayBecome(response[v], response'[v])]_vars
  <2> SUFFICES ASSUME TypeOK, Next, NEW v \in Volunteers
               PROVE  MayBecome(response[v], response'[v])
    BY DEF vars
  <2>1. CASE response' = ClosePending(response)
    BY <2>1 DEF ClosePending
  <2>2. CASE response' = response
    BY <2>2
  <2>3. ASSUME NEW w \in Volunteers, VolunteerStep(w)
        PROVE  MayBecome(response[v], response'[v])
    <3>1. CASE Accept(w)
      BY <3>1 DEF Accept, StartWork, ClosePending, TypeOK, RStatuses
    <3>2. CASE MarkDone(w)
      BY <3>2 DEF MarkDone
    <3>3. CASE Respond(w) \/ Reject(w)
      BY <3>3 DEF Respond, Reject, TypeOK
    <3>4. CASE Withdraw(w) \/ Remove(w) \/ RemoveByModerator(w)
      BY <3>4 DEF Withdraw, Remove, RemoveByModerator, TypeOK
    <3> QED
      BY <2>3, <3>1, <3>2, <3>3, <3>4 DEF VolunteerStep
  <2>4. \/ response' = response \/ response' = ClosePending(response)
        \/ \E w \in Volunteers : VolunteerStep(w)
    BY DEF Next, ServiceStep, Publish, Approve, RejectRequest, EditSome, Edit, AfterEdit, StartWork,
           ConfirmCompletion, DisputeCompletion, Cancel, ExpireOverdue,
           AutoConfirmQuery, AutoConfirmLocked, Tick, OtherPublished, TrustChange
  <2> QED
    BY <2>1, <2>2, <2>3, <2>4
<1> QED
  BY <1>1, TypeCorrect, PTL DEF Spec, ResponseMoves

\* Only the recipient's confirmation and auto_confirm complete a request.
LEMMA CompletedByTeam ==
  ASSUME Inv, [Next]_vars, status # "completed", status' = "completed"
  PROVE  Team # {} /\ Team' = Team
<1> Next
  BY DEF vars
<1>1. ~\E v \in Volunteers : VolunteerStep(v)
  BY DEF VolunteerStep, Respond, Accept, Reject, Withdraw, Remove, RemoveByModerator,
         MarkDone, ReopenIfShort, StartWork, MoveTo, Stay
<1>2. ConfirmCompletion \/ AutoConfirmLocked
  BY <1>1
  DEF Next, ServiceStep, Publish, Approve, RejectRequest, EditSome, Edit, AfterEdit, GoLive, StartWork, MoveTo,
      Stay, DisputeCompletion, Cancel, ExpireOverdue, AutoConfirmQuery, Tick,
      OtherPublished, TrustChange
<1>3. status \in Working /\ response' = response
  BY <1>2 DEF ConfirmCompletion, AutoConfirmLocked, Stay, Working
<1> QED
  BY <1>3 DEF Inv, WorkHasTeam, Team, WithAnswer

\* Help is recorded as completed, by the recipient or by auto_confirm, only
\* with the team that gave it.
THEOREM CompletionHasTeam == Spec => CompletedWithTeam
<1>1. Inv /\ [Next]_vars
        => [status # "completed" /\ status' = "completed" => Team # {} /\ Team' = Team]_vars
  BY CompletedByTeam
<1> QED
  BY <1>1, InvHolds, PTL DEF Spec, CompletedWithTeam

\* Whoever leaves a team that still has all it needs was one too many; from a
\* smaller one nobody leaves work behind that looks unfinished though it is not.
LEMMA LeavesOverlooks ==
  ASSUME Inv, NEW v \in Volunteers, Leaves(v), ~Overlooked, Overlooked'
  PROVE  status = "active" \/ Cardinality(Team) > needed
<1>1. PICK s \in {"withdrawn", "removed"} : response' = [response EXCEPT ![v] = s]
  BY DEF Leaves
<1>2. Team' = Team \ {v}
  BY <1>1 DEF Inv, TypeOK, Team, WithAnswer
<1>3. AllDone(Team', done') => AllDone(Team \ {v}, done)
  BY <1>2 DEF AllDone, Leaves, Team, WithAnswer
<1>4. CASE response[v] = "pending" /\ Stay
  BY <1>2, <1>3, <1>4 DEF Overlooked, Stay, Team, WithAnswer
<1>5. CASE response[v] = "accepted" /\ status \in Open /\ ReopenIfShort(Team \ {v})
  <2>1. status' = "in_progress" /\ AllDone(Team \ {v}, done)
    BY <1>3 DEF Overlooked
  <2>2. CASE status \in Working /\ ~Full(Team \ {v}, needed)
    <3>1. ~CarryOn(Team \ {v}) => status' = "active"
      BY <1>5, <2>2 DEF ReopenIfShort, MoveTo, Working
    <3>2. CarryOn(Team \ {v}) => status' = "awaiting_confirmation"
      BY <1>5, <2>1, <2>2 DEF ReopenIfShort, MoveTo, Stay, Working
    <3> QED
      BY <2>1, <3>1, <3>2
  <2>3. CASE status \in Working /\ Full(Team \ {v}, needed)
    <3>1. v \in Team /\ IsFiniteSet(Team)
      BY <1>5, LifecycleAssumption, FS_Subset DEF Team, WithAnswer
    <3>2. Cardinality(Team \ {v}) = Cardinality(Team) - 1
      BY <3>1, FS_RemoveElement
    <3>3. Cardinality(Team) \in Nat
      BY <3>1, FS_CardinalityType
    <3>4. needed \in Nat
      BY Constants DEF Inv, TypeOK
    <3> QED
      BY <2>3, <3>2, <3>3, <3>4 DEF Full
  <2>4. CASE status \notin Working
    BY <1>5, <2>4 DEF Open, Working
  <2> QED
    BY <2>2, <2>3, <2>4
<1> QED
  BY <1>4, <1>5 DEF Leaves

\* A team that is done is passed over, as docs/ROADMAP.md does not foresee, by
\* restarting from recruiting with the reports it had, or by losing one who was
\* more than needed; mark_done, the other departures and disputes never do it.
THEOREM OnlyRestartsOverlook == Spec => OnlyARestartSkipsConfirmation
<1>1. ASSUME Inv, Next, ~Overlooked, Overlooked'
      PROVE  status = "active" \/ Cardinality(Team) > needed
  <2>1. status' = "in_progress" /\ AllDone(Team', done')
    BY <1>1 DEF Overlooked
  <2>2. CASE UNCHANGED <<status, response, done>>
    BY <1>1, <2>2 DEF Overlooked, Team, WithAnswer
  <2>3. ~Publish /\ ~Approve /\ ~RejectRequest /\ ~ConfirmCompletion /\ ~Cancel
    BY <2>1
    DEF Publish, Approve, RejectRequest, GoLive, ConfirmCompletion, Cancel, MoveTo
  <2>4. CASE EditSome
    BY <2>1, <2>4 DEF EditSome, Edit, EditAllowed, AfterEdit, Editable, MoveTo, Stay
  <2>5. CASE ExpireOverdue
    BY <2>1, <2>5 DEF ExpireOverdue, MoveTo
  <2>6. CASE DisputeCompletion
    <3>1. Team' = Team /\ Team # {} /\ Team \subseteq Volunteers
      BY <1>1, <2>6 DEF DisputeCompletion, Inv, WorkHasTeam, Working, Team, WithAnswer
    <3>2. \A w \in Team : ~done'[w]
      BY <2>6, <3>1 DEF DisputeCompletion
    <3> QED
      BY <2>1, <3>1, <3>2 DEF AllDone
  <2>7. ASSUME NEW v \in Volunteers, VolunteerStep(v)
        PROVE  status = "active" \/ Cardinality(Team) > needed
    <3>1. CASE Respond(v) \/ Accept(v)
      BY <3>1 DEF Respond, Accept
    <3>2. CASE Reject(v)
      <4>1. Team' = Team
        BY <1>1, <3>2 DEF Reject, Inv, TypeOK, Team, WithAnswer
      <4> QED
        BY <1>1, <3>2, <4>1 DEF Reject, Overlooked
    <3>3. CASE Withdraw(v) \/ Remove(v) \/ RemoveByModerator(v)
      BY <1>1, <3>3, InvIsSound, LeavingActions, LeavesOverlooks
    <3>4. CASE MarkDone(v)
      <4>1. Team' = Team
        BY <3>4 DEF MarkDone, Team, WithAnswer
      <4> QED
        BY <2>1, <3>4, <4>1 DEF MarkDone, MoveTo
    <3> QED
      BY <2>7, <3>1, <3>2, <3>3, <3>4 DEF VolunteerStep
  <2>8. AutoConfirmQuery \/ AutoConfirmLocked \/ OtherPublished \/ Tick
        \/ (\E u \in Users : TrustChange(u)) => UNCHANGED <<status, response, done>>
    BY <2>1
    DEF AutoConfirmQuery, AutoConfirmLocked, OtherPublished, Tick, TrustChange, MoveTo, Stay
  <2> QED
    BY <1>1, <2>2, <2>3, <2>4, <2>5, <2>6, <2>7, <2>8 DEF Next, ServiceStep
<1>2. Inv /\ [Next]_vars
        => [~Overlooked /\ Overlooked' =>
              status = "active" \/ Cardinality(Team) > needed]_vars
  BY <1>1
<1> QED
  BY <1>2, InvHolds, PTL DEF Spec, OnlyARestartSkipsConfirmation

-----------------------------------------------------------------------------
(* The home page and the bar of progress *)

\* The order in which the home page asks, as a set and place by place.
LEMMA KindsInOrder ==
  /\ DOMAIN ItemOrder = 1 .. 12
  /\ ItemKinds = {"verification", "requests", "reports", "email", "awaiting", "responses",
                  "rejected", "draft", "to_mark", "unread", "apply", "review"}
<1>1. DOMAIN ItemOrder = 1 .. 12
  BY DEF ItemOrder
<1>2. ItemKinds = {ItemOrder[n] : n \in {1,2,3,4,5,6,7,8,9,10,11,12}}
  <2>1. 1 .. 12 = {1,2,3,4,5,6,7,8,9,10,11,12}
    OBVIOUS
  <2> QED
    BY <1>1, <2>1 DEF ItemKinds
<1>3. /\ ItemOrder[1] = "verification" /\ ItemOrder[2] = "requests" /\ ItemOrder[3] = "reports"
      /\ ItemOrder[4] = "email" /\ ItemOrder[5] = "awaiting" /\ ItemOrder[6] = "responses"
      /\ ItemOrder[7] = "rejected" /\ ItemOrder[8] = "draft" /\ ItemOrder[9] = "to_mark"
      /\ ItemOrder[10] = "unread" /\ ItemOrder[11] = "apply" /\ ItemOrder[12] = "review"
  BY DEF ItemOrder
<1> QED
  BY <1>1, <1>2, <1>3

LEMMA AheadOf ==
  ASSUME NEW n \in 1 .. 12
  PROVE  Ahead[ItemOrder[n]] = {ItemOrder[m] : m \in 1 .. (n - 1)}
<1>1. ItemOrder[n] \in ItemKinds
  BY KindsInOrder DEF ItemKinds
<1>2. \A m \in 1 .. 12 : ItemOrder[m] = ItemOrder[n] => m = n
  BY DEF ItemOrder
<1>3. {i \in DOMAIN ItemOrder : \E m \in DOMAIN ItemOrder : i < m /\ ItemOrder[m] = ItemOrder[n]}
        = 1 .. (n - 1)
  BY <1>2, KindsInOrder
<1> QED
  BY <1>1, <1>3 DEF Ahead

LEMMA OneMore ==
  ASSUME NEW S, NEW x, NEW n \in Nat, IsFiniteSet(S), Cardinality(S) <= n
  PROVE  IsFiniteSet(S \cup {x}) /\ Cardinality(S \cup {x}) <= n + 1
<1>1. Cardinality(S) \in Nat
  BY FS_CardinalityType
<1>2. /\ IsFiniteSet(S \cup {x})
      /\ Cardinality(S \cup {x}) = IF x \in S THEN Cardinality(S) ELSE Cardinality(S) + 1
  BY FS_AddElement
<1> QED
  BY <1>1, <1>2

\* An item with at most three others before it is not cut off.
LEMMA FewAreAskedFirst ==
  ASSUME NEW items, NEW k \in items, NEW a, NEW b, NEW c, items \cap Ahead[k] \subseteq {a, b, c}
  PROVE  k \in AskedFirst(items)
<1> DEFINE A == {} \cup {a}
           B == A \cup {b}
           C == B \cup {c}
<1>1. IsFiniteSet({}) /\ Cardinality({}) <= 0
  BY FS_EmptySet
<1>2. IsFiniteSet(A) /\ Cardinality(A) <= 1
  <2>1. IsFiniteSet({} \cup {a}) /\ Cardinality({} \cup {a}) <= 0 + 1
    BY <1>1, OneMore
  <2> QED
    BY <2>1
<1>3. IsFiniteSet(B) /\ Cardinality(B) <= 2
  <2> HIDE DEF A
  <2>1. IsFiniteSet(A \cup {b}) /\ Cardinality(A \cup {b}) <= 1 + 1
    BY <1>2, OneMore
  <2> QED
    BY <2>1
<1>4. IsFiniteSet(C) /\ Cardinality(C) <= 3
  <2> HIDE DEF B
  <2>1. IsFiniteSet(B \cup {c}) /\ Cardinality(B \cup {c}) <= 2 + 1
    BY <1>3, OneMore
  <2> QED
    BY <2>1
<1>5. Cardinality(items \cap Ahead[k]) <= 3 /\ Cardinality(items \cap Ahead[k]) \in Nat
  <2>1. items \cap Ahead[k] \subseteq C
    OBVIOUS
  <2> HIDE DEF C
  <2>2. Cardinality(C) \in Nat /\ IsFiniteSet(items \cap Ahead[k])
    BY <1>4, <2>1, FS_Subset, FS_CardinalityType
  <2> QED
    BY <1>4, <2>1, <2>2, FS_Subset, FS_CardinalityType
<1> QED
  BY <1>5 DEF AskedFirst, MaxActionItems

LEMMA AheadIs ==
  /\ Ahead["verification"] = {}
  /\ Ahead["requests"] = {"verification"}
  /\ Ahead["reports"] = {"verification", "requests"}
  /\ Ahead["email"] = {"verification", "requests", "reports"}
  /\ Ahead["awaiting"] = Ahead["email"] \cup {"email"}
  /\ Ahead["responses"] = Ahead["awaiting"] \cup {"awaiting"}
  /\ Ahead["rejected"] = Ahead["responses"] \cup {"responses"}
  /\ Ahead["to_mark"] = Ahead["rejected"] \cup {"rejected", "draft"}
  /\ Ahead["unread"] = Ahead["to_mark"] \cup {"to_mark"}
  /\ Ahead["apply"] = Ahead["unread"] \cup {"unread"}
  /\ Ahead["review"] = Ahead["apply"] \cup {"apply"}
<1>1. \A n \in 2 .. 12 : Ahead[ItemOrder[n]] = Ahead[ItemOrder[n - 1]] \cup {ItemOrder[n - 1]}
  <2> SUFFICES ASSUME NEW n \in 2 .. 12
               PROVE  Ahead[ItemOrder[n]] = Ahead[ItemOrder[n - 1]] \cup {ItemOrder[n - 1]}
    OBVIOUS
  <2>1. n \in 1 .. 12 /\ n - 1 \in 1 .. 12 /\ 1 .. (n - 1) = (1 .. ((n - 1) - 1)) \cup {n - 1}
    OBVIOUS
  <2> QED
    BY <2>1, AheadOf
<1>2. Ahead[ItemOrder[1]] = {}
  BY AheadOf
<1>3. /\ ItemOrder[1] = "verification" /\ ItemOrder[2] = "requests" /\ ItemOrder[3] = "reports"
      /\ ItemOrder[4] = "email" /\ ItemOrder[5] = "awaiting" /\ ItemOrder[6] = "responses"
      /\ ItemOrder[7] = "rejected" /\ ItemOrder[8] = "draft" /\ ItemOrder[9] = "to_mark"
      /\ ItemOrder[10] = "unread" /\ ItemOrder[11] = "apply" /\ ItemOrder[12] = "review"
  BY DEF ItemOrder
<1>4. Ahead["verification"] = {} /\ Ahead["requests"] = Ahead["verification"] \cup {"verification"}
      /\ Ahead["reports"] = Ahead["requests"] \cup {"requests"}
      /\ Ahead["email"] = Ahead["reports"] \cup {"reports"}
  BY <1>1, <1>2, <1>3
<1>5. /\ Ahead["awaiting"] = Ahead["email"] \cup {"email"}
      /\ Ahead["responses"] = Ahead["awaiting"] \cup {"awaiting"}
      /\ Ahead["rejected"] = Ahead["responses"] \cup {"responses"}
      /\ Ahead["draft"] = Ahead["rejected"] \cup {"rejected"}
  BY <1>1, <1>3
<1>6. /\ Ahead["to_mark"] = Ahead["draft"] \cup {"draft"}
      /\ Ahead["unread"] = Ahead["to_mark"] \cup {"to_mark"}
      /\ Ahead["apply"] = Ahead["unread"] \cup {"unread"}
      /\ Ahead["review"] = Ahead["apply"] \cup {"apply"}
  BY <1>1, <1>3
<1> QED
  BY <1>4, <1>5, <1>6

\* The queues come first, and of what follows them help to be confirmed or marked
\* is the first; it is dropped only when four items are ahead.
LEMMA FirstAreShown ==
  ASSUME NEW all, NEW first \in {"awaiting", "to_mark"},
         all \cap Ahead[first] \subseteq Queues \cup {"email"}
  PROVE  /\ all \cap Queues \subseteq AskedFirst(all)
         /\ first \in all \ AskedFirst(all) => Crowded(all)
<1>1. ASSUME NEW k \in all \cap Queues PROVE k \in AskedFirst(all)
  <2>1. all \cap Ahead[k] \subseteq {"verification", "requests", "reports"}
    BY AheadIs DEF Queues
  <2> QED
    BY <2>1, FewAreAskedFirst
<1>2. ASSUME first \in all, ~Crowded(all) PROVE first \in AskedFirst(all)
  <2>1. PICK k \in Queues \cup {"email"} : k \notin all
    BY <1>2 DEF Crowded
  <2>2. \/ all \cap Ahead[first] \subseteq {"requests", "reports", "email"}
        \/ all \cap Ahead[first] \subseteq {"verification", "reports", "email"}
        \/ all \cap Ahead[first] \subseteq {"verification", "requests", "email"}
        \/ all \cap Ahead[first] \subseteq {"verification", "requests", "reports"}
    BY <2>1 DEF Queues
  <2> QED
    BY <1>2, <2>2, FewAreAskedFirst
<1> QED
  BY <1>1, <1>2

\* A recipient has at most the email and two kinds of items before the third, so
\* only drafts and reviews fall off the end, but for the queues of a moderator.
LEMMA OwnerIsShown ==
  ASSUME TypeOK, NEW busy \in Elsewhere, NEW c \in BOOLEAN, NEW moderates \in BOOLEAN
  PROVE  LET queues == ModeratorItems(moderates, busy)
             all == OwnerHome(moderates, c, busy)
             seen == AskedFirst(all)
         IN /\ RequestSection = "needs" /\ queues = {} =>
                 \E k \in RecipientKinds : RecipientItem(k) /\ k \in seen \cup {"draft"}
            /\ busy = {} => (RequestSection = "needs" <=> all # queues \cup EmailItem(c))
            /\ queues = {} => all \ seen \subseteq {"draft", "review"}
            /\ "awaiting" \in all \ seen => Crowded(all)
            /\ queues \subseteq seen
<1> DEFINE queues == ModeratorItems(moderates, busy)
           all == OwnerHome(moderates, c, busy)
           seen == AskedFirst(all)
<1>1. /\ all \subseteq Queues \cup {"email", "review"} \cup RecipientKinds
      /\ queues \subseteq all /\ queues \subseteq Queues
      /\ queues = {} => all \cap Queues = {}
  BY DEF OwnerHome, ModeratorItems, EmailItem, RecipientItems, ReviewItem, Queues, RecipientKinds
<1>2. ASSUME queues = {}, NEW k \in all, k \in {"email", "awaiting", "responses", "rejected"}
      PROVE  k \in seen
  <2> HIDE DEF all, queues
  <2>1. all \cap Ahead[k] \subseteq {"email", "awaiting", "responses"}
    BY <1>1, <1>2, AheadIs DEF RecipientKinds, Queues
  <2> QED
    BY <1>2, <2>1, FewAreAskedFirst
<1>3. queues = {} => all \ seen \subseteq {"draft", "review"}
  <2> SUFFICES ASSUME queues = {}, NEW k \in all \ seen PROVE k \in {"draft", "review"}
    OBVIOUS
  <2>1. k \in {"email", "review"} \cup RecipientKinds
    BY <1>1
  <2> QED
    BY <1>2, <2>1 DEF RecipientKinds
<1>4. RequestSection = "needs" <=> \E k \in RecipientKinds : RecipientItem(k)
  BY DEF TypeOK, Statuses, RequestSection, RecipientKinds, RecipientItem, Closed
<1>5. \A k \in RecipientKinds : RecipientItem(k) => k \in all /\ k \notin queues \cup EmailItem(c)
  BY DEF OwnerHome, RecipientItems, RecipientKinds, EmailItem, ModeratorItems, Queues
<1>6. RequestSection = "needs" /\ queues = {} =>
        \E k \in RecipientKinds : RecipientItem(k) /\ k \in seen \cup {"draft"}
  <2> SUFFICES ASSUME RequestSection = "needs", queues = {}
               PROVE  \E k \in RecipientKinds : RecipientItem(k) /\ k \in seen \cup {"draft"}
    OBVIOUS
  <2>1. PICK k \in RecipientKinds : RecipientItem(k)
    BY <1>4
  <2>2. k \in all /\ k \in {"awaiting", "responses", "rejected", "draft"}
    BY <1>5, <2>1 DEF RecipientKinds
  <2>3. k \in seen \/ k = "draft"
    BY <1>2, <2>2
  <2> QED
    BY <2>1, <2>3
<1>7. busy = {} => (RequestSection = "needs" <=> all # queues \cup EmailItem(c))
  <2> SUFFICES ASSUME busy = {} PROVE RequestSection = "needs" <=> all # queues \cup EmailItem(c)
    OBVIOUS
  <2>1. all = queues \cup EmailItem(c) \cup {k \in RecipientKinds : RecipientItem(k)}
    BY DEF OwnerHome, RecipientItems, ReviewItem
  <2> HIDE DEF all, queues
  <2> QED
    BY <1>4, <1>5, <2>1
<1>8. all \cap Ahead["awaiting"] \subseteq Queues \cup {"email"}
  BY AheadIs DEF Queues
<1>9. ("awaiting" \in all \ seen => Crowded(all)) /\ queues \subseteq seen
  <2> HIDE DEF all, queues
  <2> QED
    BY <1>1, <1>8, FirstAreShown
<1> QED
  BY <1>3, <1>6, <1>7, <1>9

\* The email and the application for verification are not asked for together, so
\* a volunteer's five kinds of items are never five.
LEMMA VolunteerIsShown ==
  ASSUME TypeOK, NEW busy \in Elsewhere, NEW v \in Volunteers, NEW c \in BOOLEAN,
         NEW moderates \in BOOLEAN
  PROVE  LET queues == ModeratorItems(moderates, busy)
             all == VolunteerHome(v, moderates, c, busy)
             seen == AskedFirst(all)
         IN /\ queues = {} => seen = all
            /\ busy = {} => (ResponseSection(v) = "needs" <=> "to_mark" \in all)
            /\ "to_mark" \in all \ seen => Crowded(all)
            /\ queues \subseteq seen
<1> DEFINE queues == ModeratorItems(moderates, busy)
           all == VolunteerHome(v, moderates, c, busy)
           seen == AskedFirst(all)
<1>1. /\ all \subseteq Queues \cup {"email", "to_mark", "unread", "apply", "review"}
      /\ queues \subseteq all /\ queues \subseteq Queues
      /\ queues = {} => all \cap Queues = {}
  BY DEF VolunteerHome, ModeratorItems, EmailItem, VolunteerItems, ReviewItem, Queues
<1>2. ~({"email", "apply"} \subseteq all)
  BY DEF VolunteerHome, ModeratorItems, EmailItem, VolunteerItems, VolunteerItem, ReviewItem, Queues
<1>3. queues = {} => seen = all
  <2> SUFFICES ASSUME queues = {}, NEW k \in all PROVE k \in AskedFirst(all)
    BY DEF AskedFirst
  <2> HIDE DEF all, queues
  <2>1. \/ all \cap Ahead[k] \subseteq {"email", "to_mark", "unread"}
        \/ all \cap Ahead[k] \subseteq {"apply", "to_mark", "unread"}
    BY <1>1, <1>2, AheadIs DEF Queues
  <2> QED
    BY <2>1, FewAreAskedFirst
<1>4. busy = {} => (ResponseSection(v) = "needs" <=> "to_mark" \in all)
  <2>1. done[v] \in BOOLEAN
    BY DEF TypeOK
  <2> SUFFICES ASSUME busy = {} PROVE ResponseSection(v) = "needs" <=> "to_mark" \in all
    OBVIOUS
  <2>2. "to_mark" \in all <=> response[v] = "accepted" /\ ~done[v] /\ status = "in_progress"
    BY DEF VolunteerHome, ModeratorItems, EmailItem, VolunteerItems, VolunteerItem, ReviewItem, Queues
  <2>3. ResponseSection(v) = "needs" <=> response[v] = "accepted" /\ ~done[v] /\ status = "in_progress"
    BY <2>1 DEF ResponseSection
  <2> QED
    BY <2>2, <2>3
<1>5. all \cap Ahead["to_mark"] \subseteq Queues \cup {"email"}
  <2> HIDE DEF all
  <2> QED
    BY <1>1, AheadIs DEF Queues
<1>6. ("to_mark" \in all \ seen => Crowded(all)) /\ queues \subseteq seen
  <2> HIDE DEF all, queues
  <2> QED
    BY <1>1, <1>5, FirstAreShown
<1> QED
  BY <1>3, <1>4, <1>6

LEMMA WaitingShown == ASSUME TypeOK PROVE WaitingIsShown
<1>1. \A u : MayBeConfirmed(u) \subseteq BOOLEAN
  BY DEF MayBeConfirmed
<1> QED
  BY <1>1, OwnerIsShown, VolunteerIsShown DEF WaitingIsShown

HelpHadTeam == status = "completed" => Team # {}

\* The team of a completed request is the one that helped, since what is
\* completed is left alone (ProgressIsTrue).
LEMMA NextHelpHadTeam == Inv /\ HelpHadTeam /\ [Next]_vars => HelpHadTeam'
<1> SUFFICES ASSUME Inv, HelpHadTeam, [Next]_vars, status' = "completed" PROVE Team' # {}
  BY DEF HelpHadTeam
<1>1. CASE status = "completed"
  <2>1. response' = response
    BY <1>1, InvIsSound, ClosedIsLeftAlone DEF Closed
  <2> QED
    BY <1>1, <2>1 DEF HelpHadTeam, Team, WithAnswer
<1>2. CASE status # "completed"
  BY <1>2, CompletedByTeam
<1> QED
  BY <1>1, <1>2

LEMMA ProgressShown == ASSUME Inv, HelpHadTeam PROVE ProgressIsTrue
<1>1. status \in Statuses
  BY DEF Inv, TypeOK
<1>2. StepOf(status) >= 1 => status \in Open \cup {"completed"}
  BY <1>1 DEF StepOf, Statuses, Open, Working
<1>3. StepOf(status) >= 2 => status \in Working \cup {"completed"}
  BY <1>1 DEF StepOf, Statuses, Working
<1> QED
  BY <1>2, <1>3 DEF Inv, OpenWasPublished, WorkHasTeam, HelpHadTeam, ProgressIsTrue

\* Whatever else waits for them, everybody whom the request waits for is asked
\* on the home page (action_items) and finds it under "needs"
\* (request_section, response_section), but for moderators, whose queues come
\* first; the bar of progress (lifecycle_steps)
\* claims no publication and no team that was not there.
THEOREM PagesAreTrue == Spec => []PagesTellTheTruth
<1>1. Init => HelpHadTeam
  BY DEF Init, HelpHadTeam
<1>2. Spec => []HelpHadTeam
  BY <1>1, NextHelpHadTeam, InvHolds, PTL DEF Spec
<1>3. Inv /\ HelpHadTeam => PagesTellTheTruth
  BY WaitingShown, ProgressShown DEF Inv, PagesTellTheTruth
<1> QED
  BY <1>2, <1>3, InvHolds, PTL

\* The half of AcceptedIsOffered that is about steps, and so needs no ENABLED:
\* what a view has done for somebody, the page had a button for.
ServedWasOffered ==
  [][/\ \A c \in MayBeConfirmed(Owner) : PublishView => PublishShown(c) \/ ~c
     /\ EditSome => CanEdit
     /\ CancelView => CanCancel
     /\ ConfirmView => ConfirmShown
     /\ DisputeView => DisputeShown
     /\ \A v \in Volunteers :
          /\ AcceptView(v) => AnswerShown(v)
          /\ RejectView(v) => AnswerShown(v) \/ status \in {"pending_moderation", "rejected"}
          /\ RemoveView(v) => RemoveShown(v)
          /\ RespondView(v) => RespondShown(v) /\ ListedAsTakeable(v) /\ NewestFor(v)
          /\ CompleteView(v) => CompleteShown(v)
          /\ WithdrawView(v) => WithdrawShown(v)]_vars

LEMMA OwnersButtons ==
  /\ \A c \in BOOLEAN : PublishView => PublishShown(c) \/ ~c
  /\ EditSome => CanEdit
  /\ CancelView => CanCancel
  /\ ConfirmView => ConfirmShown
  /\ DisputeView => DisputeShown
BY DEF PublishView, Publish, PublishShown, EditSome, Edit, EditAllowed, CanEdit,
       CancelView, Cancel, CanCancel, ConfirmView, ConfirmCompletion, ConfirmShown,
       DisputeView, DisputeCompletion, DisputeShown

\* A pending response outlives recruiting only where its request may return to
\* it, which is the one place where the template offers less than the service.
LEMMA AnswersButtons ==
  ASSUME Inv, NEW v \in Volunteers
  PROVE  /\ AcceptView(v) => AnswerShown(v)
         /\ RejectView(v) => AnswerShown(v) \/ status \in {"pending_moderation", "rejected"}
         /\ RemoveView(v) => RemoveShown(v)
<1>1. response[v] = "pending" => status \in {"active", "pending_moderation", "rejected"}
  BY DEF Inv, NoPendingLeftBehind, Waiting, WithAnswer
<1> QED
  BY <1>1 DEF AcceptView, Accept, AnswerShown, RejectView, Reject, RemoveView, Remove, RemoveShown

LEMMA VolunteersButtons ==
  ASSUME NEW v \in Volunteers
  PROVE  /\ RespondView(v) => RespondShown(v) /\ ListedAsTakeable(v) /\ NewestFor(v)
         /\ CompleteView(v) => CompleteShown(v)
         /\ WithdrawView(v) => WithdrawShown(v)
<1>1. RespondView(v) => RespondShown(v) /\ ListedAsTakeable(v) /\ NewestFor(v)
  BY DEF RespondView, Respond, RespondShown, CanRespond, VisibleTo, TrustOK, ListedAsTakeable,
         Listed, NewestFor, Verified
<1>2. CompleteView(v) => CompleteShown(v)
  BY DEF CompleteView, MarkDone, CompleteShown, IsAccepted, VisibleTo
<1>3. WithdrawView(v) => WithdrawShown(v)
  BY DEF WithdrawView, Withdraw, WithdrawShown, IsAccepted, VisibleTo
<1> QED
  BY <1>1, <1>2, <1>3

\* No service does for its caller what the page did not offer: the conditions of
\* the templates and of the lists leave nobody out (request_detail.html,
\* HelpRequestDetailView, HelpRequestListView).
THEOREM WhatIsServedWasOffered == Spec => ServedWasOffered
<1>1. MayBeConfirmed(Owner) \subseteq BOOLEAN
  BY DEF MayBeConfirmed
<1>2. Inv /\ [Next]_vars =>
        [/\ \A c \in MayBeConfirmed(Owner) : PublishView => PublishShown(c) \/ ~c
         /\ EditSome => CanEdit
         /\ CancelView => CanCancel
         /\ ConfirmView => ConfirmShown
         /\ DisputeView => DisputeShown
         /\ \A v \in Volunteers :
              /\ AcceptView(v) => AnswerShown(v)
              /\ RejectView(v) => AnswerShown(v) \/ status \in {"pending_moderation", "rejected"}
              /\ RemoveView(v) => RemoveShown(v)
              /\ RespondView(v) => RespondShown(v) /\ ListedAsTakeable(v) /\ NewestFor(v)
              /\ CompleteView(v) => CompleteShown(v)
              /\ WithdrawView(v) => WithdrawShown(v)]_vars
  BY <1>1, OwnersButtons, AnswersButtons, VolunteersButtons
<1> QED
  BY <1>2, InvHolds, PTL DEF Spec, ServedWasOffered

-----------------------------------------------------------------------------
(* Refinement of HelpContract *)

LEMMA StageValues ==
  /\ \A s \in {"draft", "pending_moderation", "rejected"} : StageOf(s) = "private"
  /\ StageOf("active") = "recruiting"
  /\ \A s \in Working : StageOf(s) = "working"
  /\ StageOf("completed") = "helped"
  /\ \A s \in {"cancelled", "expired"} : StageOf(s) = "over"
BY DEF StageOf, Working

\* An action that changes no response changes nothing the contract calls a
\* volunteer's position.
LEMMA SamePositions ==
  ASSUME response' = response
  PROVE  Waiting' = Waiting /\ Team' = Team /\ Gone' = Gone
BY DEF Waiting, Team, Gone, WithAnswer

\* Closing the pending responses sends those who wait away.
LEMMA PendingSentAway ==
  ASSUME TypeOK, response' = ClosePending(response)
  PROVE  Waiting' = {} /\ Team' = Team /\ Gone' = Gone \cup Waiting
BY DEF TypeOK, ClosePending, Waiting, Team, Gone, WithAnswer, Answers

LEMMA ContractInit == Init => Contract!Init
BY StageValues DEF Init, Contract!Init, Stage, Waiting, Team, Gone, WithAnswer, Answers

\* The recipient's and the moderator's steps before and during recruiting.
LEMMA ModerationKeeps ==
  ASSUME Inv, Publish \/ Approve \/ RejectRequest \/ EditSome
  PROVE  [Contract!Next]_(Contract!vars)
<1> USE StageValues DEF Stage, MoveTo, Stay, GoLive
<1>1. CASE Publish \/ Approve \/ RejectRequest
  <2>1. Waiting' = Waiting /\ Team' = Team /\ Gone' = Gone
    BY <1>1, SamePositions DEF Publish, Approve, RejectRequest
  <2>2. Stage = "private" /\ Stage' \in {"private", "recruiting"}
    BY <1>1 DEF Publish, Approve, RejectRequest
  <2> QED
    BY <2>1, <2>2 DEF Contract!Next, Contract!Show, Contract!vars
<1>2. CASE EditSome
  <2> PICK n \in NeededChoices, visit \in BOOLEAN, text \in BOOLEAN, date \in -Lead .. 0 :
        Edit(n, visit, date, text)
    BY <1>2 DEF EditSome
  <2>1. CASE status = "active" /\ Full(Team, n) /\ StartWork(response)
    <3>1. Waiting' = {} /\ Team' = Team /\ Gone' = Gone \cup Waiting
      BY <2>1, PendingSentAway DEF Inv, StartWork
    <3>2. Team # {}
      BY <2>1, FullIsNotEmpty DEF NeededChoices
    <3>3. Stage = "recruiting" /\ Stage' = "working"
      BY <2>1 DEF StartWork, Working
    <3> QED
      BY <3>1, <3>2, <3>3 DEF Contract!Next, Contract!Start, Contract!AnswerAll
  <2>2. CASE /\ response' = response
             /\ \/ status' = status
                \/ status \in {"rejected", "active"} /\ status' = "pending_moderation"
    <3>1. Waiting' = Waiting /\ Team' = Team /\ Gone' = Gone
      BY <2>2, SamePositions
    <3>2. \/ Stage' = Stage
          \/ Stage = "recruiting" /\ Stage' = "private"
      BY <2>2
    <3> QED
      BY <3>1, <3>2 DEF Contract!Next, Contract!Hide, Contract!vars
  <2>3. \/ status = "active" /\ Full(Team, n) /\ StartWork(response)
        \/ /\ response' = response
           /\ \/ status' = status
              \/ status \in {"rejected", "active"} /\ status' = "pending_moderation"
    BY DEF Edit, AfterEdit
  <2> QED
    BY <2>1, <2>2, <2>3
<1> QED
  BY <1>1, <1>2

LEMMA OffersKeeps ==
  ASSUME Inv, NEW v \in Volunteers, Offers(v)
  PROVE  [Contract!Next]_(Contract!vars)
<1>1. /\ Waiting' = Waiting \cup {v} /\ Team' = Team /\ Gone' = Gone
      /\ v \notin Waiting \cup Team \cup Gone
  BY DEF Inv, TypeOK, Offers, Waiting, Team, Gone, WithAnswer, Answers
<1>2. Stage = "recruiting" /\ Stage' = Stage
  BY StageValues DEF Stage, Offers
<1> QED
  BY <1>1, <1>2 DEF Contract!Next, Contract!Offer

LEMMA LeavesKeeps ==
  ASSUME Inv, NEW v \in Volunteers, Leaves(v)
  PROVE  [Contract!Next]_(Contract!vars)
<1> USE StageValues DEF Stage
<1>1. PICK s \in {"withdrawn", "removed"} : response' = [response EXCEPT ![v] = s]
  BY DEF Leaves
<1>2. Waiting' = Waiting \ {v} /\ Team' = Team \ {v} /\ Gone' = Gone \cup {v}
  BY <1>1 DEF Inv, TypeOK, Waiting, Team, Gone, WithAnswer, Answers
<1>3. CASE response[v] = "pending" /\ Stay
  <2>1. v \in Waiting /\ v \notin Team /\ Stage' = Stage
    BY <1>3 DEF Waiting, Team, WithAnswer, Stay
  <2> QED
    BY <1>2, <2>1 DEF Contract!Next, Contract!Decline
<1>4. CASE response[v] = "accepted" /\ status \in Open /\ ReopenIfShort(Team \ {v})
  <2>1. v \in Team /\ v \notin Waiting
    BY <1>4 DEF Team, Waiting, WithAnswer
  <2>2. status' \in Open /\ (status' \in Working => status \in Working /\ Team \ {v} # {})
    BY <1>4, InvIsSound, ReopenEffect
  <2>3. /\ Stage \in {"recruiting", "working"} /\ Stage' \in {"recruiting", Stage}
        /\ Team \ {v} = {} => Stage' = "recruiting"
    BY <1>4, <2>2 DEF Open, Working
  <2> QED
    BY <1>2, <2>1, <2>3 DEF Contract!Next, Contract!Leave
<1> QED
  BY <1>3, <1>4 DEF Leaves

\* A volunteer's step is an offer, an answer to one, a departure, or no move.
LEMMA VolunteerKeeps ==
  ASSUME Inv, NEW v \in Volunteers, VolunteerStep(v)
  PROVE  [Contract!Next]_(Contract!vars)
<1> USE StageValues DEF Stage
<1>0. response \in [Volunteers -> RStatuses]
  BY DEF Inv, TypeOK
<1>1. CASE Respond(v)
  BY <1>1, RespondOffers, OffersKeeps
<1>2. CASE Accept(v)
  <2> DEFINE resp == [response EXCEPT ![v] = "accepted"]
  <2>1. Stage = "recruiting" /\ v \in Waiting
    BY <1>2 DEF Accept, Waiting, WithAnswer
  <2>2. CASE StartWork(resp)
    <3>1. /\ Waiting' = {} /\ Team' = Team \cup {v}
          /\ Gone' = Gone \cup (Waiting \ {v})
      BY <1>0, <2>1, <2>2
      DEF StartWork, ClosePending, Waiting, Team, Gone, WithAnswer, Answers
    <3>2. Stage' = "working"
      BY <2>2 DEF StartWork, MoveTo, Working
    <3> QED
      BY <2>1, <3>1, <3>2 DEF Contract!Next, Contract!Take, Contract!AnswerAll
  <2>3. CASE Stay /\ response' = resp
    <3>1. Waiting' = Waiting \ {v} /\ Team' = Team \cup {v} /\ Gone' = Gone
      BY <1>0, <2>1, <2>3 DEF Waiting, Team, Gone, WithAnswer, Answers
    <3>2. Stage' = Stage
      BY <2>3 DEF Stay
    <3> QED
      BY <2>1, <3>1, <3>2 DEF Contract!Next, Contract!Take
  <2> QED
    BY <1>2, <2>2, <2>3 DEF Accept
<1>3. CASE Reject(v)
  <2>1. /\ v \in Waiting /\ Waiting' = Waiting \ {v} /\ Team' = Team
        /\ Gone' = Gone \cup {v} /\ Stage' = Stage
    BY <1>0, <1>3 DEF Reject, Waiting, Team, Gone, WithAnswer, Answers
  <2> QED
    BY <2>1 DEF Contract!Next, Contract!Decline
<1>4. CASE Withdraw(v) \/ Remove(v) \/ RemoveByModerator(v)
  BY <1>4, InvIsSound, LeavingActions, LeavesKeeps
<1>5. CASE MarkDone(v)
  <2>1. Waiting' = Waiting /\ Team' = Team /\ Gone' = Gone
    BY <1>5, SamePositions DEF MarkDone
  <2>2. Stage' = Stage
    BY <1>5 DEF MarkDone, MoveTo, Stay, Working
  <2> QED
    BY <2>1, <2>2 DEF Contract!vars
<1> QED
  BY <1>1, <1>2, <1>3, <1>4, <1>5 DEF VolunteerStep

\* Completing is help given; cancelling and expiring drop the request.
LEMMA FinishKeeps ==
  ASSUME Inv, \/ ConfirmCompletion \/ DisputeCompletion \/ Cancel \/ ExpireOverdue
              \/ AutoConfirmQuery \/ AutoConfirmLocked
  PROVE  [Contract!Next]_(Contract!vars)
<1> USE StageValues DEF Stage, MoveTo, Stay
<1>1. CASE ConfirmCompletion \/ DisputeCompletion \/ AutoConfirmQuery \/ AutoConfirmLocked
  <2>1. Waiting' = Waiting /\ Team' = Team /\ Gone' = Gone
    BY <1>1, SamePositions
    DEF ConfirmCompletion, DisputeCompletion, AutoConfirmQuery, AutoConfirmLocked
  <2>2. \/ Stage' = Stage
        \/ Stage = "working" /\ Stage' = "helped"
    BY <1>1
    DEF ConfirmCompletion, DisputeCompletion, AutoConfirmQuery, AutoConfirmLocked, Working
  <2> QED
    BY <2>1, <2>2 DEF Contract!Next, Contract!Help, Contract!vars
<1>2. CASE status = "active" /\ Team # {} /\ StartWork(response)
  <2>1. Waiting' = {} /\ Team' = Team /\ Gone' = Gone \cup Waiting
    BY <1>2, PendingSentAway DEF Inv, StartWork
  <2>2. Stage = "recruiting" /\ Stage' = "working"
    BY <1>2 DEF StartWork, Working
  <2> QED
    BY <1>2, <2>1, <2>2 DEF Contract!Next, Contract!Start, Contract!AnswerAll
<1>3. CASE /\ status \in Cancellable
           /\ MoveTo("cancelled") \/ MoveTo("expired")
           /\ response' = ClosePending(response)
  <2>1. Waiting' = {} /\ Team' = Team /\ Gone' = Gone \cup Waiting
    BY <1>3, PendingSentAway DEF Inv
  <2>2. Stage \in {"private", "recruiting", "working"} /\ Stage' = "over"
    BY <1>3 DEF Cancellable, Open, Working
  <2> QED
    BY <2>1, <2>2 DEF Contract!Next, Contract!Drop, Contract!AnswerAll
<1>4. Cancel => <1>3!1
  BY DEF Cancel
<1>5. ExpireOverdue /\ ~(status = "active" /\ Team # {} /\ StartWork(response)) => <1>3!1
  BY DEF ExpireOverdue, IsStale, Cancellable, Open
<1> QED
  BY <1>1, <1>2, <1>3, <1>4, <1>5

\* What changes neither the status nor a response changes nothing in the contract.
LEMMA QuietKeeps == ASSUME UNCHANGED <<status, response>> PROVE UNCHANGED Contract!vars
BY SamePositions DEF Contract!vars, Stage

LEMMA NextKeeps == Inv /\ [Next]_vars => [Contract!Next]_(Contract!vars)
<1> SUFFICES ASSUME Inv, [Next]_vars PROVE [Contract!Next]_(Contract!vars)
  OBVIOUS
<1>1. CASE Publish \/ Approve \/ RejectRequest \/ EditSome
  BY <1>1, ModerationKeeps
<1>2. CASE \E v \in Volunteers : VolunteerStep(v)
  BY <1>2, VolunteerKeeps
<1>3. CASE \/ ConfirmCompletion \/ DisputeCompletion \/ Cancel \/ ExpireOverdue
           \/ AutoConfirmQuery \/ AutoConfirmLocked
  BY <1>3, FinishKeeps
<1>4. CASE Tick \/ OtherPublished \/ (\E u \in Users : TrustChange(u)) \/ UNCHANGED vars
  <2>1. UNCHANGED <<status, response>>
    BY <1>4 DEF Tick, OtherPublished, TrustChange, vars
  <2> QED
    BY <2>1, QuietKeeps
<1> QED
  BY <1>1, <1>2, <1>3, <1>4 DEF Next, ServiceStep

\* A request keeps the contract with the people in it: every step any service
\* function or job takes is a step of HelpContract or changes nothing they see.
THEOREM LifecycleKeepsContract == Spec => KeepsContract
BY NextKeeps, ContractInit, InvHolds, PTL DEF Spec, KeepsContract, Contract!Spec

-----------------------------------------------------------------------------
(* EditRace: the edit view beside the service functions                      *)

FormOK == form \in FormType \cup {NoForm}

LEMMA FormInHand == ASSUME FormOK, form.step # "none" PROVE form \in FormType
BY DEF FormOK, NoForm

LEMMA LaterKeepsType == ASSUME NEW r \in FormType PROVE Later(r) \in FormType
<1>1. /\ r.late \in -Lead .. LateMax /\ r.age \in 0 .. AgeMax
      /\ LateMax \in Nat /\ Lead \in Nat /\ AgeMax \in Nat
  BY Constants DEF FormType
<1>2. /\ (IF r.late < LateMax THEN r.late + 1 ELSE r.late) \in -Lead .. LateMax
      /\ (IF r.age < AgeMax THEN r.age + 1 ELSE r.age) \in 0 .. AgeMax
  BY <1>1
<1> QED
  BY <1>2 DEF Later, FormType

LEMMA RaceInitInv == RaceInit => Sound /\ FormOK
BY InitInv, InvIsSound DEF RaceInit, FormOK

\* The save brings a request back to a status in which editing is allowed, in
\* which nothing is asked of the team.
LEMMA FormSaveSound == ASSUME Sound, FormOK, FormSave PROVE Sound' /\ FormOK'
<1>1. form \in FormType
  BY FormInHand DEF FormSave
<1>2. status' \in Editable /\ age' \in 0 .. AgeMax /\ published' \in BOOLEAN
      /\ needed' \in 1 .. MaxNeeded /\ homeVisit' \in BOOLEAN /\ late' \in -Lead .. LateMax
      /\ UNCHANGED <<response, done, trust, others, due>>
  BY <1>1 DEF FormSave, FormType
<1>3. TypeOK'
  BY <1>2 DEF Sound, TypeOK, Editable, Statuses
<1>4. RaceWorkIsSound'
  BY <1>2 DEF RaceWorkIsSound, Editable, Working, Closed
<1>5. FormOK'
  BY <1>1 DEF FormSave, FormOK, FormType
<1> QED
  BY <1>3, <1>4, <1>5 DEF Sound

LEMMA RaceStepInv ==
  ASSUME Sound, FormOK, [RaceNext]_raceVars
  PROVE  Sound' /\ FormOK'
<1>1. CASE ServiceStep /\ UNCHANGED form
  BY <1>1, NextSound DEF Next, FormOK
<1>2. CASE RaceTick
  <2>1. Sound'
    BY <1>2, NextSound DEF RaceTick, Next
  <2>2. FormOK'
    BY <1>2, LaterKeepsType DEF RaceTick, FormOK
  <2> QED
    BY <2>1, <2>2
<1>3. CASE FormRead
  <2>1. Sound'
    BY <1>3, NextSound DEF FormRead
  <2>2. PICK n \in NeededChoices, visit \in BOOLEAN, text \in BOOLEAN, date \in -Lead .. 0 :
          form' = [step |-> "read", status |-> status, age |-> age, published |-> published,
                   needed |-> n, homeVisit |-> visit, late |-> date,
                   moved |-> date # late \/ visit # homeVisit,
                   content |-> text \/ visit # homeVisit]
    BY <1>3 DEF FormRead
  <2>3. /\ status \in Editable /\ age \in 0 .. AgeMax /\ published \in BOOLEAN
        /\ n \in 1 .. MaxNeeded /\ date \in -Lead .. LateMax
    BY <1>3, Constants DEF FormRead, Sound, TypeOK, NeededChoices
  <2>4. form' \in FormType
    BY <2>2, <2>3 DEF FormType
  <2> QED
    BY <2>1, <2>4 DEF FormOK
<1>4. CASE form # NoForm /\ FormCheck
  <2>1. Sound'
    BY <1>4, NextSound DEF FormCheck
  <2>2. form \in FormType
    BY <1>4, FormInHand DEF FormCheck
  <2>3. FormOK'
    BY <1>4, <2>2 DEF FormCheck, FormOK, FormType
  <2> QED
    BY <2>1, <2>3
<1>5. CASE form # NoForm /\ FormSave
  BY <1>5, FormSaveSound
<1>6. CASE form # NoForm /\ FormAfterEdit
  <2>1. AfterEdit(needed, form.content)
        /\ UNCHANGED <<done, needed, homeVisit, published, late, trust, others, due>>
    BY <1>6 DEF FormAfterEdit
  <2>2. Sound'
    BY <2>1, AfterEditSound DEF Sound, TypeOK
  <2> QED
    BY <1>6, <2>2 DEF FormAfterEdit, FormOK
<1>7. CASE UNCHANGED raceVars
  BY <1>7, NextSound DEF raceVars, FormOK
<1> QED
  BY <1>1, <1>2, <1>3, <1>4, <1>5, <1>6, <1>7 DEF RaceNext

LEMMA RaceSound == RaceSpec => [](Sound /\ FormOK)
BY RaceInitInv, RaceStepInv, PTL DEF RaceSpec

\* However the unlocked save of the edit view interleaves with the service
\* functions, work is never under way without a volunteer or with somebody left
\* waiting, and no confirmation is asked for too early: the save can only bring
\* back a status in which editing is allowed.
THEOREM RaceStaysSound == RaceSpec => []RaceInv
<1>1. Sound /\ FormOK => RaceInv
  BY DEF Sound, FormOK, RaceInv, RaceTypeOK
<1> QED
  BY <1>1, RaceSound, PTL

\* A closed request comes back to life by the save of a form read before it was
\* closed, in the status the form was read in and with the responses as they
\* are, and in no other way.
THEOREM OnlyTheSaveReopens == RaceSpec => OnlyAStaleFormReopens
<1>1. Sound /\ [RaceNext]_raceVars
        => [(status \in Closed) /\ status' \notin Closed
              => form.step = "checked" /\ form.status = status' /\ UNCHANGED response]_raceVars
  <2> SUFFICES ASSUME Sound, RaceNext, status \in Closed, status' \notin Closed
               PROVE  form.step = "checked" /\ form.status = status' /\ UNCHANGED response
    OBVIOUS
  <2>1. ~ServiceStep /\ ~RaceTick
    BY ClosedIsLeftAlone DEF RaceTick, Next
  <2>2. ~FormRead /\ ~FormCheck
    BY DEF FormRead, FormCheck, vars
  <2>3. ~FormAfterEdit
    BY DEF FormAfterEdit, AfterEdit, Stay, Closed
  <2>4. FormSave
    BY <2>1, <2>2, <2>3 DEF RaceNext
  <2> QED
    BY <2>4 DEF FormSave
<1> QED
  BY <1>1, RaceSound, PTL DEF RaceSpec, OnlyAStaleFormReopens

-----------------------------------------------------------------------------
(* Jobs: overlapping and interrupted calls of the cron endpoint              *)

\* Whatever the calls do to the request is what Lifecycle lets somebody do.
LEMMA JobsStepIsStep == [JobsNext]_jvars => [Next]_vars
<1> SUFFICES ASSUME [JobsNext]_jvars PROVE [Next]_vars
  OBVIOUS
<1>1. CASE Click \/ Command \/ Elapse
  BY <1>1 DEF Click, Command, Elapse, Next, ServiceStep
<1>2. ASSUME NEW c \in Calls, ExpireJob(c) PROVE [Next]_vars
  BY <1>2 DEF ExpireJob, Next, ServiceStep
<1>3. ASSUME NEW c \in Calls, ConfirmLocked(c) PROVE [Next]_vars
  <2>1. CASE status = "awaiting_confirmation" /\ MoveTo("completed")
    BY <1>3, <2>1 DEF ConfirmLocked, ConfirmCompletion, Working, Next, ServiceStep
  <2>2. CASE Stay
    BY <1>3, <2>2 DEF ConfirmLocked, Stay, vars
  <2> QED
    BY <1>3, <2>1, <2>2 DEF ConfirmLocked
<1>4. ASSUME NEW c \in Calls, \/ ConfirmQuery(c) \/ RemindQuery(c) \/ NudgeOwner(c)
                              \/ NudgeTeamAndSave(c) \/ Fail(c)
      PROVE  [Next]_vars
  BY <1>4 DEF ConfirmQuery, RemindQuery, NudgeOwner, NudgeTeamAndSave, Fail
<1>5. CASE UNCHANGED jvars
  BY <1>5 DEF jvars
<1> QED
  BY <1>1, <1>2, <1>3, <1>4, <1>5 DEF JobsNext, Run

\* Any number of calls of the endpoint, overlapping, failing or killed half-way,
\* and the command run by hand do to a request what the serial jobs may do, so
\* that everything proved of Lifecycle holds beside them.
THEOREM JobsImplementLifecycle == JobsSpec => Spec
<1>1. JobsInit => Init
  BY DEF JobsInit
<1> QED
  BY <1>1, JobsStepIsStep, PTL DEF JobsSpec, Spec

\* In particular nobody on the request is promised more than is kept.
THEOREM JobsKeepContract == JobsSpec => KeepsContract
BY JobsImplementLifecycle, LifecycleKeepsContract, PTL

CallsOK ==
  /\ call \in [Calls -> Places]
  /\ fresh \in [Calls -> BOOLEAN]
  /\ {reminded, nudged, slipped} \subseteq BOOLEAN
  /\ failures \in 0 .. MaxFailures

\* As long as no pass slipped, one call at a time has a candidate in its hands,
\* which has no mark yet, and a notice sent is followed by its mark.
OnePass ==
  ~slipped =>
    /\ \A c, d \in Calls : Reminding(c) /\ Reminding(d) => c = d
    /\ \A c \in Calls : Reminding(c) => ~reminded
    /\ nudged => reminded \/ \E c \in Calls : call[c] = "save"

\* What a call that nobody disturbed knows of the request by the job it is at:
\* nothing but work expires any more, then nothing is to be confirmed any more.
Known(c) ==
  /\ IsStale => status = "in_progress"
  /\ call[c] = "confirming" => status = "awaiting_confirmation"
  /\ call[c] \in {"remind", "owner", "save"} => ~ConfirmDue
  /\ Reminding(c) => status = "in_progress"

Undisturbed == \A c \in Calls : fresh[c] /\ ~NotCalled(c) => Known(c)

JobsInv == CallsOK /\ OnePass /\ Undisturbed

LEMMA AdvanceEffect ==
  ASSUME CallsOK, NEW c \in Calls, NEW next \in Places, Advance(c, next)
  PROVE  /\ call' \in [Calls -> Places] /\ fresh' \in [Calls -> BOOLEAN]
         /\ call'[c] = next /\ \A d \in Calls \ {c} : call'[d] = call[d] /\ ~fresh'[d]
         /\ fresh'[c] => NotCalled(c) \/ fresh[c]
BY DEF CallsOK, Advance

\* While nobody takes up a candidate or lets go of one, OnePass is not touched.
LEMMA SamePass ==
  ASSUME OnePass, UNCHANGED <<reminded, nudged, slipped>>,
         \A d \in Calls : /\ Reminding(d)' => Reminding(d)
                          /\ call[d] = "save" => call'[d] = "save"
  PROVE  OnePass'
BY DEF OnePass

LEMMA JobsInitInv == JobsInit => JobsInv
<1> SUFFICES ASSUME JobsInit PROVE JobsInv
  OBVIOUS
<1>1. CallsOK
  <2>1. call \in [Calls -> Places] /\ fresh \in [Calls -> BOOLEAN]
    BY DEF JobsInit, Places
  <2>2. failures \in 0 .. MaxFailures
    BY JobsAssumption DEF JobsInit
  <2> QED
    BY <2>1, <2>2 DEF JobsInit, CallsOK
<1>2. \A c \in Calls : ~Reminding(c) /\ ~fresh[c]
  BY DEF JobsInit, Reminding
<1> QED
  BY <1>1, <1>2 DEF JobsInv, OnePass, Undisturbed, JobsInit

\* Whatever people do makes no call know anything.
LEMMA DisturbKeeps == ASSUME JobsInv, Disturb PROVE JobsInv'
<1>1. CallsOK' /\ \A c \in Calls : ~fresh'[c]
  BY DEF JobsInv, CallsOK, Disturb, others_
<1>2. OnePass'
  BY SamePass DEF JobsInv, Disturb, others_, Reminding
<1> QED
  BY <1>1, <1>2 DEF JobsInv, Undisturbed

LEMMA ExpireJobKeeps == ASSUME JobsInv, NEW c \in Calls, ExpireJob(c) PROVE JobsInv'
<1>1. CallsOK /\ OnePass /\ "confirm" \in Places /\ Advance(c, "confirm") /\ UNCHANGED others_
      /\ call[c] = "expire"
  BY DEF JobsInv, ExpireJob, Places, NotCalled
<1>2. /\ call' \in [Calls -> Places] /\ fresh' \in [Calls -> BOOLEAN]
      /\ call'[c] = "confirm" /\ \A d \in Calls \ {c} : call'[d] = call[d] /\ ~fresh'[d]
  BY <1>1, AdvanceEffect
<1>3. CallsOK'
  BY <1>1, <1>2 DEF CallsOK, others_
<1>4. OnePass'
  BY <1>1, <1>2, SamePass DEF Reminding, others_
<1>5. IsStale' => status' = "in_progress"
  BY DEF ExpireJob, ExpireOverdue, StartWork, MoveTo, IsStale, vars
<1> QED
  BY <1>2, <1>3, <1>4, <1>5 DEF JobsInv, Undisturbed, Known, Reminding

LEMMA ConfirmKeeps ==
  ASSUME JobsInv, NEW c \in Calls, ConfirmQuery(c) \/ ConfirmLocked(c)
  PROVE  JobsInv'
<1>1. CallsOK /\ OnePass /\ UNCHANGED others_ /\ ~NotCalled(c)
      /\ call[c] \in {"confirm", "confirming"}
  BY DEF JobsInv, ConfirmQuery, ConfirmLocked, NotCalled
<1>2. PICK next \in {"confirming", "remind"} : Advance(c, next)
  BY DEF ConfirmQuery, ConfirmLocked
<1>3. /\ call' \in [Calls -> Places] /\ fresh' \in [Calls -> BOOLEAN]
      /\ call'[c] = next /\ \A d \in Calls \ {c} : call'[d] = call[d] /\ ~fresh'[d]
      /\ fresh'[c] => fresh[c]
  <2>1. next \in Places
    BY DEF Places
  <2> QED
    BY <1>1, <1>2, <2>1, AdvanceEffect
<1>4. CallsOK'
  BY <1>1, <1>3 DEF CallsOK, others_
<1>5. OnePass'
  BY <1>1, <1>3, SamePass DEF Reminding, others_
<1>6. ASSUME fresh'[c] PROVE Known(c)'
  <2>1. Known(c)
    BY <1>1, <1>3, <1>6 DEF JobsInv, Undisturbed
  <2>2. CASE ConfirmQuery(c)
    <3>1. next = IF ConfirmDue THEN "confirming" ELSE "remind"
      BY <1>1, <1>3, <2>2 DEF ConfirmQuery, Advance, CallsOK
    <3> QED
      BY <1>3, <2>1, <2>2, <3>1 DEF ConfirmQuery, Known, ConfirmDue, IsStale, Reminding, vars
  <2>3. CASE ConfirmLocked(c)
    <3>1. status = "awaiting_confirmation" /\ status' = "completed"
      BY <2>1, <2>3 DEF ConfirmLocked, Known, MoveTo
    <3>2. call'[c] = "remind"
      BY <1>1, <2>3 DEF ConfirmLocked, Advance, CallsOK
    <3> QED
      BY <3>1, <3>2 DEF Known, ConfirmDue, IsStale, Reminding
  <2> QED
    BY <2>2, <2>3
<1> QED
  BY <1>3, <1>4, <1>5, <1>6 DEF JobsInv, Undisturbed

\* Taking up the candidate while another call has it is a slip.
LEMMA RemindQueryKeeps == ASSUME JobsInv, NEW c \in Calls, RemindQuery(c) PROVE JobsInv'
<1>1. /\ CallsOK /\ OnePass /\ ~NotCalled(c) /\ call[c] = "remind"
      /\ UNCHANGED <<vars, reminded, nudged, failures>>
  BY DEF JobsInv, RemindQuery, NotCalled
<1>2. CASE /\ RemindDue
           /\ slipped' = (slipped \/ \E d \in Calls \ {c} : Reminding(d))
           /\ Advance(c, "owner")
  <2>1. /\ call' \in [Calls -> Places] /\ fresh' \in [Calls -> BOOLEAN]
        /\ call'[c] = "owner" /\ \A d \in Calls \ {c} : call'[d] = call[d] /\ ~fresh'[d]
        /\ fresh'[c] => fresh[c]
    BY <1>1, <1>2, AdvanceEffect DEF Places
  <2>2. CallsOK'
    BY <1>1, <1>2, <2>1 DEF CallsOK
  <2>3. OnePass'
    <3>1. SUFFICES ASSUME ~slipped' PROVE OnePass'
      BY DEF OnePass
    <3>2. ~slipped /\ ~reminded' /\ \A d \in Calls \ {c} : ~Reminding(d)
      BY <1>1, <1>2, <3>1 DEF RemindDue
    <3>3. \A d \in Calls : Reminding(d)' => d = c
      BY <2>1, <3>2 DEF Reminding
    <3>4. ~nudged'
      BY <1>1, <3>2 DEF OnePass, Reminding
    <3> QED
      BY <3>2, <3>3, <3>4 DEF OnePass
  <2>4. fresh'[c] => Known(c)'
    BY <1>1, <1>2, <2>1
    DEF JobsInv, Undisturbed, Known, RemindDue, ConfirmDue, IsStale, Reminding, vars
  <2> QED
    BY <2>1, <2>2, <2>3, <2>4 DEF JobsInv, Undisturbed
<1>3. CASE Advance(c, "expire") /\ UNCHANGED slipped
  <2>1. /\ call' \in [Calls -> Places] /\ fresh' \in [Calls -> BOOLEAN]
        /\ call'[c] = "expire" /\ \A d \in Calls \ {c} : call'[d] = call[d] /\ ~fresh'[d]
    BY <1>1, <1>3, AdvanceEffect DEF Places
  <2>2. CallsOK'
    BY <1>1, <1>3, <2>1 DEF CallsOK
  <2>3. OnePass'
    BY <1>1, <1>3, <2>1, SamePass DEF Reminding
  <2> QED
    BY <2>1, <2>2, <2>3 DEF JobsInv, Undisturbed, NotCalled
<1> QED
  BY <1>2, <1>3 DEF RemindQuery

LEMMA NudgeKeeps ==
  ASSUME JobsInv, NEW c \in Calls, NudgeOwner(c) \/ NudgeTeamAndSave(c)
  PROVE  JobsInv'
<1>1. CallsOK /\ OnePass /\ UNCHANGED <<vars, slipped, failures>>
  BY DEF JobsInv, NudgeOwner, NudgeTeamAndSave
<1>2. CASE NudgeOwner(c)
  <2>1. /\ call[c] = "owner" /\ nudged' = TRUE /\ reminded' = reminded
        /\ Advance(c, "save") /\ "save" \in Places
    BY <1>2 DEF NudgeOwner, Places
  <2>2. /\ call' \in [Calls -> Places] /\ fresh' \in [Calls -> BOOLEAN]
        /\ call'[c] = "save" /\ \A d \in Calls \ {c} : call'[d] = call[d] /\ ~fresh'[d]
        /\ fresh'[c] => fresh[c]
    BY <1>1, <2>1, AdvanceEffect DEF NotCalled
  <2>3. CallsOK'
    BY <1>1, <2>1, <2>2 DEF CallsOK
  <2>4. OnePass'
    BY <1>1, <2>1, <2>2 DEF OnePass, Reminding
  <2>5. fresh'[c] => Known(c)'
    BY <1>1, <2>1, <2>2
    DEF JobsInv, Undisturbed, NotCalled, Known, ConfirmDue, IsStale, Reminding, vars
  <2> QED
    BY <2>2, <2>3, <2>4, <2>5 DEF JobsInv, Undisturbed
<1>3. CASE NudgeTeamAndSave(c)
  <2>1. /\ call[c] = "save" /\ reminded' = TRUE /\ nudged' = nudged
        /\ Advance(c, "expire") /\ "expire" \in Places
    BY <1>3 DEF NudgeTeamAndSave, SaveReminder, Places
  <2>2. /\ call' \in [Calls -> Places] /\ fresh' \in [Calls -> BOOLEAN]
        /\ call'[c] = "expire" /\ \A d \in Calls \ {c} : call'[d] = call[d] /\ ~fresh'[d]
    BY <1>1, <2>1, AdvanceEffect
  <2>3. CallsOK'
    BY <1>1, <2>1, <2>2 DEF CallsOK
  <2>4. ~slipped' => \A d \in Calls : ~Reminding(d)'
    BY <1>1, <2>1, <2>2 DEF OnePass, Reminding
  <2>5. OnePass'
    BY <2>1, <2>4 DEF OnePass
  <2> QED
    BY <2>2, <2>3, <2>5 DEF JobsInv, Undisturbed, NotCalled
<1> QED
  BY <1>2, <1>3

\* A pass killed between the notice and the mark is a slip; at any other place
\* the next call starts as if there had been none.
LEMMA FailKeeps == ASSUME JobsInv, NEW c \in Calls, Fail(c) PROVE JobsInv'
<1>1. /\ CallsOK /\ OnePass /\ failures < MaxFailures /\ failures' = failures + 1
      /\ slipped' = (slipped \/ call[c] = "save") /\ UNCHANGED <<reminded, nudged>>
      /\ \A d \in Calls : ~fresh'[d] /\ fresh' \in [Calls -> BOOLEAN]
  BY DEF JobsInv, Fail
<1>2. PICK next \in {NextJob(c), "expire"} : call' = [call EXCEPT ![c] = next]
  BY DEF Fail
<1>3. next \in {"expire", "confirm", "remind"}
  BY DEF NextJob
<1>4. call' \in [Calls -> Places] /\ ~Reminding(c)' /\ \A d \in Calls \ {c} : call'[d] = call[d]
  BY <1>1, <1>2, <1>3 DEF CallsOK, Places, Reminding
<1>5. CallsOK'
  BY <1>1, <1>4, JobsAssumption DEF CallsOK
<1>6. OnePass'
  <2>1. CASE call[c] = "save"
    BY <1>1, <2>1 DEF OnePass
  <2>2. CASE call[c] # "save"
    <3>1. slipped' = slipped
      BY <1>1, <2>2 DEF CallsOK
    <3>2. \A d \in Calls : (Reminding(d)' => Reminding(d)) /\ (call[d] = "save" => call'[d] = "save")
      BY <1>4, <2>2 DEF Reminding
    <3> QED
      BY <1>1, <3>1, <3>2, SamePass
  <2> QED
    BY <2>1, <2>2
<1> QED
  BY <1>1, <1>5, <1>6 DEF JobsInv, Undisturbed

LEMMA JobsNextInv == JobsInv /\ [JobsNext]_jvars => JobsInv'
<1> SUFFICES ASSUME JobsInv, [JobsNext]_jvars PROVE JobsInv'
  OBVIOUS
<1>1. CASE Click \/ Command \/ Elapse
  BY <1>1, DisturbKeeps DEF Click, Command, Elapse
<1>2. ASSUME NEW c \in Calls, Run(c) \/ Fail(c) PROVE JobsInv'
  BY <1>2, ExpireJobKeeps, ConfirmKeeps, RemindQueryKeeps, NudgeKeeps, FailKeeps DEF Run
<1>3. CASE UNCHANGED jvars
  BY <1>3
  DEF jvars, vars, JobsInv, CallsOK, OnePass, Undisturbed, Known, NotCalled, Reminding,
      IsStale, ConfirmDue
<1> QED
  BY <1>1, <1>2, <1>3 DEF JobsNext

LEMMA JobsInvHolds == JobsSpec => []JobsInv
BY JobsInitInv, JobsNextInv, PTL DEF JobsSpec

\* The request and the calls keep their types, and no more calls fail than are
\* allowed to.
THEOREM JobsTyped == JobsSpec => []JobsTypeOK
<1>1. Inv /\ JobsInv => JobsTypeOK
  BY DEF Inv, JobsInv, CallsOK, JobsTypeOK
<1>2. JobsSpec => []Inv
  BY JobsImplementLifecycle, InvHolds, PTL
<1> QED
  BY <1>1, <1>2, JobsInvHolds, PTL

\* The recipient of a request is reminded once unless a pass is killed between
\* the notice and the mark or two overlap, however many calls there are, and a
\* call that nobody disturbed reminds only of work under way (send_reminders).
THEOREM OneNudge == JobsSpec => NudgedOnceInTime
<1>1. JobsInv => \A c \in Calls : call[c] = "owner" =>
        (nudged => slipped) /\ (status = "in_progress" \/ ~fresh[c])
  BY DEF JobsInv, OnePass, Undisturbed, Known, NotCalled, Reminding
<1>2. JobsInv => [\A c \in Calls : NudgeOwner(c) =>
                    /\ nudged => slipped
                    /\ status = "in_progress" \/ ~fresh[c]]_jvars
  BY <1>1 DEF NudgeOwner
<1> QED
  BY <1>2, JobsInvHolds, PTL DEF NudgedOnceInTime

\* A call that ran to its end undisturbed leaves nothing for the next, but for a
\* team that expire_overdue put to work on a date long past.  It takes a
\* reminder that comes before the expiry, as 24 hours come before 7 days.
THEOREM NothingLeftToDo == JobsSpec => CallLeavesNothingToDo
<1>1. ASSUME CallsOK, Undisturbed, TypeOK, JobsNext, NEW c \in Calls, EndOfCall(c), fresh[c]
      PROVE  NothingToDo' \/ (status' = "in_progress" /\ IsStale' /\ reminded')
  <2>1. ~NotCalled(c) /\ call'[c] = "expire" /\ failures' = failures
    BY <1>1 DEF EndOfCall
  <2>2. ~Click /\ ~Command /\ ~Elapse
    BY <2>1 DEF Click, Command, Elapse, Disturb, NotCalled
  <2>3. ASSUME NEW d \in Calls, Run(d) \/ Fail(d) PROVE d = c
    <3>1. \E next : call' = [call EXCEPT ![d] = next]
      BY <2>3
      DEF Run, Fail, ExpireJob, ConfirmQuery, ConfirmLocked, RemindQuery, NudgeOwner,
          NudgeTeamAndSave, Advance
    <3> QED
      BY <1>1, <2>1, <3>1 DEF CallsOK, NotCalled
  <2>4. ~Fail(c)
    BY <1>1, <2>1 DEF Fail, CallsOK
  <2>5. Run(c)
    BY <1>1, <2>2, <2>3, <2>4 DEF JobsNext
  <2>6. (RemindQuery(c) /\ ~RemindDue) \/ NudgeTeamAndSave(c)
    <3>1. \A next : Advance(c, next) => next = "expire"
      BY <1>1, <2>1 DEF Advance, CallsOK
    <3> QED
      BY <2>5, <3>1
      DEF Run, ExpireJob, ConfirmQuery, ConfirmLocked, RemindQuery, NudgeOwner
  <2>7. Known(c) /\ UNCHANGED vars
    BY <1>1, <2>1, <2>6 DEF Undisturbed, RemindQuery, NudgeTeamAndSave
  <2>8. ~ConfirmDue'
    BY <2>6, <2>7 DEF Known, RemindQuery, NudgeTeamAndSave, ConfirmDue, vars
  <2>9. ~RemindDue'
    BY <2>6, <2>7 DEF RemindQuery, NudgeTeamAndSave, SaveReminder, RemindDue, vars
  <2>10. ASSUME IsStale' PROVE status' = "in_progress" /\ reminded'
    <3>1. status = "in_progress" /\ late > Duration + ExpireAfterEnd
      BY <2>7, <2>10 DEF Known, IsStale, vars
    <3>2. late > RemindAfter /\ late >= Duration + RemindAfter
      <4>1. late \in Int
        BY <1>1, Constants DEF TypeOK
      <4> QED
        BY <3>1, <4>1, LifecycleAssumption, JobsAssumption
    <3> QED
      BY <2>6, <2>7, <3>1, <3>2
      DEF RemindQuery, NudgeTeamAndSave, SaveReminder, RemindDue, vars
  <2> QED
    BY <2>8, <2>9, <2>10 DEF NothingToDo
<1>2. TypeOK /\ JobsInv /\ [JobsNext]_jvars
        => [\A c \in Calls : EndOfCall(c) /\ fresh[c] =>
              NothingToDo' \/ (status' = "in_progress" /\ IsStale' /\ reminded')]_jvars
  BY <1>1 DEF JobsInv
<1>3. JobsSpec => []TypeOK
  BY JobsImplementLifecycle, TypeCorrect, PTL
<1> QED
  BY <1>2, <1>3, JobsInvHolds, PTL DEF JobsSpec, CallLeavesNothingToDo

-----------------------------------------------------------------------------
(* Departures: volunteers who are revoked, blocked or deleted beside it.  The *)
(* two properties speak of open requests only.  What makes them inductive is  *)
(* what becomes of a response while the request is not open: nobody answers a *)
(* draft, and whoever is on a request that is moderated or rejected was kept  *)
(* on it by an edit, which is noted.                                          *)

Staying == {"pending", "accepted"}

DraftUnanswered(u) == status = "draft" => response[u] = "none"

KeptIsNoted(u) ==
  response[u] \in Staying /\ status \in {"pending_moderation", "rejected"}
    => around[u] \in Evasions

VisitVerified(u) ==
  OnHomeVisit(u) /\ trust[u] # L2 => Sweeping(u) \/ around[u] \in Evasions

NotGone(u) == HasOpenResponse(u) /\ ~active[u] => Closing(u) \/ around[u] # "none"

Safe(u) == DraftUnanswered(u) /\ KeptIsNoted(u) /\ VisitVerified(u) /\ NotGone(u)

AccountsOK ==
  /\ active \in [Volunteers -> BOOLEAN]
  /\ handler \in [Volunteers -> [step : Steps, block : BOOLEAN]]
  /\ page \in [Volunteers -> Pages \cup {NoPage}]
  /\ around \in [Volunteers -> Ways]

DepInv == Inv /\ AccountsOK /\ \A u \in Volunteers : Safe(u)

-----------------------------------------------------------------------------
(* What a step does to one volunteer *)

\* A volunteer who is still on the request after a step was on it before, and
\* either it is moderated again, which is noted, or it was open already or just
\* passed moderation with the same format.
Follows(u) ==
  \/ response'[u] \notin Staying
  \/ /\ response[u] \in Staying
     /\ \/ response'[u] = response[u]
        \/ response'[u] = "accepted" /\ TrustOK(u)
     /\ \/ /\ status' = "pending_moderation"
           /\ status = "pending_moderation" \/ around'[u] \in Evasions
        \/ status' = "rejected" /\ status \in {"pending_moderation", "rejected"}
        \/ status' \in Closed
        \/ /\ status' \in Open
           /\ status \in Open \cup {"pending_moderation"}
           /\ homeVisit' = homeVisit

DraftStays == status' = "draft" => status = "draft" /\ response' = response

\* What is noted stays noted, and a handler on its way stays on it or has seen
\* to it that the volunteer is on no open request.
Watched(u) ==
  /\ around[u] \in Evasions => around'[u] \in Evasions
  /\ around[u] # "none" => around'[u] # "none"
  /\ \/ response'[u] \notin Staying
     \/ status' \notin Open
     \/ /\ (trust[u] = L2 \/ Sweeping(u)) /\ trust'[u] # L2
           => Sweeping(u)' \/ around'[u] \in Evasions
        /\ (active[u] \/ Closing(u)) /\ ~active'[u]
           => Closing(u)' \/ around'[u] # "none"

LEMMA StaysSafe ==
  ASSUME NEW u \in Volunteers, Safe(u), Follows(u), DraftStays, Watched(u),
         around[u] \in Ways
  PROVE  Safe(u)'
<1> USE DEF Safe
<1>1. DraftUnanswered(u)'
  BY DEF DraftUnanswered, DraftStays
<1>2. KeptIsNoted(u)'
  BY DEF KeptIsNoted, Follows, Watched, Staying, Open, Closed
<1>3. ASSUME response'[u] \in Staying, status' \in Open
      PROVE  /\ response[u] \in Staying
             /\ response'[u] # response[u] => response'[u] = "accepted" /\ TrustOK(u)
             /\ homeVisit' = homeVisit
             /\ status \in Open \/ around[u] \in Evasions
  BY <1>3 DEF Follows, KeptIsNoted, Closed, Open
<1>4. VisitVerified(u)'
  <2> SUFFICES ASSUME OnHomeVisit(u)', trust'[u] # L2, ~Sweeping(u)', around'[u] \notin Evasions
               PROVE  FALSE
    BY DEF VisitVerified
  <2>1. response'[u] = "accepted" /\ homeVisit' /\ status' \in Open
    BY DEF OnHomeVisit
  <2>2. trust[u] # L2 /\ ~Sweeping(u) /\ around[u] \notin Evasions
    BY <2>1 DEF Watched, Staying
  <2>3. homeVisit /\ status \in Open /\ response'[u] = response[u]
    BY <1>3, <2>1, <2>2 DEF Staying, TrustOK
  <2> QED
    BY <2>1, <2>2, <2>3 DEF VisitVerified, OnHomeVisit
<1>5. NotGone(u)'
  <2> SUFFICES ASSUME HasOpenResponse(u)', ~active'[u], ~Closing(u)', around'[u] = "none"
               PROVE  FALSE
    BY DEF NotGone
  <2>1. response'[u] \in Staying /\ status' \in Open
    BY DEF HasOpenResponse, Staying
  <2>2. ~active[u] /\ ~Closing(u) /\ around[u] = "none"
    BY <2>1 DEF Watched
  <2>3. response[u] \in Staying /\ status \in Open
    BY <1>3, <2>1, <2>2 DEF Evasions
  <2> QED
    BY <2>2, <2>3 DEF NotGone, HasOpenResponse, Staying
<1> QED
  BY <1>1, <1>2, <1>4, <1>5

\* Steps that leave the request alone.
LEMMA AccountOnly ==
  ASSUME Inv, NEW u \in Volunteers, Safe(u), UNCHANGED <<status, response, homeVisit>>
  PROVE  Follows(u) /\ DraftStays
BY DEF Inv, TypeOK, Statuses, Safe, DraftUnanswered, Follows, DraftStays, Staying, Open, Closed

\* A volunteer who leaves changes nothing for the others.
LEMMA LeavingFollows ==
  ASSUME Inv, NEW v \in Volunteers, NEW u \in Volunteers, Safe(u),
         \E s \in {"withdrawn", "removed"} : response' = [response EXCEPT ![v] = s],
         \/ Stay /\ response[v] = "pending"
         \/ status \in Open /\ status' \in Open,
         homeVisit' = homeVisit
  PROVE  Follows(u) /\ DraftStays
<1>1. response \in [Volunteers -> RStatuses] /\ status \in Statuses
  BY DEF Inv, TypeOK
<1>2. response'[v] \notin Staying
  BY <1>1 DEF Staying
<1>3. u # v => response'[u] = response[u]
  BY <1>1
<1>4. Follows(u)
  BY <1>1, <1>2, <1>3 DEF Stay, Statuses, Safe, DraftUnanswered, Follows, Staying, Open, Closed
<1>5. status = "draft" => Waiting = {}
  BY DEF Inv, NoPendingLeftBehind
<1> QED
  BY <1>4, <1>5 DEF DraftStays, Stay, Open, Waiting, WithAnswer

-----------------------------------------------------------------------------
(* The steps of the request *)

LEMMA ModerationFollows ==
  ASSUME Inv, NEW u \in Volunteers, Safe(u), Publish \/ Approve \/ RejectRequest
  PROVE  Follows(u) /\ DraftStays
<1> USE DEF Safe, DraftUnanswered, Follows, DraftStays, Staying, Open, Closed, MoveTo, GoLive
<1>1. CASE Publish
  BY <1>1 DEF Publish
<1>2. CASE Approve
  BY <1>2 DEF Approve
<1>3. CASE RejectRequest
  BY <1>3 DEF RejectRequest
<1> QED
  BY <1>1, <1>2, <1>3

\* An edit changes the format only while nobody waits or is accepted, or sends
\* the request to moderation.
LEMMA EditFollows ==
  ASSUME Inv, NEW u \in Volunteers, Safe(u), EditSome,
         status' = "pending_moderation" /\ response'[u] \in Staying => around'[u] \in Evasions
  PROVE  Follows(u) /\ DraftStays
<1> PICK n \in NeededChoices, visit \in BOOLEAN, text \in BOOLEAN, date \in -Lead .. 0 :
      Edit(n, visit, date, text)
  BY DEF EditSome
<1>1. response \in [Volunteers -> RStatuses]
  BY DEF Inv, TypeOK
<1>2. homeVisit' = visit /\ AfterEdit(n, text \/ visit # homeVisit)
      /\ EditAllowed(status, n, date # late \/ visit # homeVisit)
  BY DEF Edit
<1>3. status \in Editable
  BY <1>2 DEF EditAllowed
<1>4. CASE status = "rejected"
  BY <1>2, <1>4 DEF AfterEdit, MoveTo, Follows, DraftStays, Staying
<1>5. CASE status # "rejected" /\ visit # homeVisit
  <2>1. Team \cup Waiting = {}
    BY <1>2, <1>5 DEF EditAllowed
  <2>2. response[u] \notin Staying
    BY <2>1 DEF Team, Waiting, WithAnswer, Staying
  <2>3. response' = response \/ response' = ClosePending(response)
    BY <1>2 DEF AfterEdit, StartWork
  <2>4. response'[u] \notin Staying
    BY <2>2, <2>3, <1>1 DEF ClosePending, Staying
  <2>5. DraftStays
    BY <1>2 DEF AfterEdit, StartWork, MoveTo, Stay, DraftStays
  <2> QED
    BY <2>4, <2>5 DEF Follows
<1>6. CASE status # "rejected" /\ visit = homeVisit
  <2>1. CASE status' = "pending_moderation" /\ response' = response
    BY <2>1 DEF Follows, DraftStays
  <2>2. CASE status = "active" /\ StartWork(response)
    BY <2>2, <1>1, <1>2, <1>6 DEF StartWork, MoveTo, ClosePending, Follows, DraftStays,
       Staying, Open
  <2>3. CASE status' = status /\ response' = response
    BY <2>3, <1>2, <1>3, <1>6
    DEF Editable, Safe, DraftUnanswered, Follows, DraftStays, Staying, Open
  <2> QED
    BY <1>2, <1>6, <2>1, <2>2, <2>3 DEF AfterEdit, MoveTo, Stay
<1> QED
  BY <1>4, <1>5, <1>6

LEMMA AnswerFollows ==
  ASSUME Inv, NEW u \in Volunteers, Safe(u), NEW v \in Volunteers, Accept(v) \/ Reject(v)
  PROVE  Follows(u) /\ DraftStays
<1>1. response \in [Volunteers -> RStatuses] /\ status \in Statuses
  BY DEF Inv, TypeOK
<1>2. CASE Accept(v)
  <2> DEFINE resp == [response EXCEPT ![v] = "accepted"]
  <2>1. status = "active" /\ response[v] = "pending" /\ TrustOK(v) /\ homeVisit' = homeVisit
    BY <1>2 DEF Accept
  <2>2. \/ status' = "in_progress" /\ response' = ClosePending(resp)
        \/ status' = status /\ response' = resp
    BY <1>2 DEF Accept, StartWork, MoveTo, Stay
  <2>3. resp[u] = IF u = v THEN "accepted" ELSE response[u]
    BY <1>1
  <2>4. status' \in Open /\ status \in Open /\ status' # "draft"
    BY <2>1, <2>2 DEF Open
  <2>5. response'[u] = resp[u] \/ response'[u] = "closed"
    BY <2>2 DEF ClosePending
  <2> QED
    BY <2>1, <2>3, <2>4, <2>5 DEF Follows, DraftStays, Staying
<1>3. CASE Reject(v)
  <2>1. /\ response[v] = "pending" /\ response' = [response EXCEPT ![v] = "rejected"]
        /\ UNCHANGED <<status, homeVisit>>
    BY <1>3 DEF Reject
  <2>2. status # "draft"
    BY <2>1 DEF Inv, NoPendingLeftBehind, Waiting, WithAnswer
  <2>3. response'[u] = response[u] \/ response'[u] = "rejected"
    BY <1>1, <2>1
  <2> QED
    BY <1>1, <2>1, <2>2, <2>3 DEF Follows, DraftStays, Staying, Statuses, Open, Closed
<1> QED
  BY <1>2, <1>3

\* The volunteer's own leaving, and the moderator's.
LEMMA LeavesFollows ==
  ASSUME Inv, NEW u \in Volunteers, Safe(u), NEW v \in Volunteers, Leaves(v)
  PROVE  Follows(u) /\ DraftStays
<1>1. CASE response[v] = "pending" /\ Stay
  BY <1>1, LeavingFollows DEF Leaves
<1>2. CASE response[v] = "accepted" /\ status \in Open /\ ReopenIfShort(Team \ {v})
  BY <1>2, LeavingFollows, InvIsSound, ReopenEffect DEF Leaves
<1> QED
  BY <1>1, <1>2 DEF Leaves

LEMMA FinishFollows ==
  ASSUME Inv, NEW u \in Volunteers, Safe(u),
         \/ \E v \in Volunteers : MarkDone(v)
         \/ ConfirmCompletion \/ DisputeCompletion \/ Cancel \/ ExpireOverdue
         \/ AutoConfirmQuery \/ AutoConfirmLocked \/ Tick
  PROVE  Follows(u) /\ DraftStays
<1>1. response \in [Volunteers -> RStatuses] /\ status \in Statuses
  BY DEF Inv, TypeOK
<1>2. CASE UNCHANGED <<status, response, homeVisit>>
  BY <1>2, AccountOnly
<1>3. CASE \E v \in Volunteers : MarkDone(v)
  <2>1. status \in Open /\ status' \in Open /\ status' # "draft"
        /\ UNCHANGED <<response, homeVisit>>
    BY <1>3 DEF MarkDone, MoveTo, Stay, Open
  <2> QED
    BY <2>1 DEF Follows, DraftStays
<1>4. CASE DisputeCompletion
  BY <1>4 DEF DisputeCompletion, MoveTo, Follows, DraftStays, Open
<1>5. CASE ConfirmCompletion \/ Cancel
  <2>1. status' \in Closed /\ (response' = response \/ response' = ClosePending(response))
    BY <1>5 DEF ConfirmCompletion, Cancel, MoveTo, Closed
  <2> QED
    BY <1>1, <2>1 DEF ClosePending, Follows, DraftStays, Staying, Closed
<1>6. CASE ExpireOverdue
  <2>1. /\ \/ status' \in Closed
           \/ status = "active" /\ status' = "in_progress"
        /\ response' = ClosePending(response) /\ homeVisit' = homeVisit
    BY <1>6 DEF ExpireOverdue, StartWork, MoveTo, Closed
  <2> QED
    BY <1>1, <2>1 DEF ClosePending, Follows, DraftStays, Staying, Closed, Open
<1>7. CASE AutoConfirmLocked /\ MoveTo("completed")
  BY <1>7 DEF AutoConfirmLocked, MoveTo, Follows, DraftStays, Staying, Closed
<1> QED
  BY <1>2, <1>3, <1>4, <1>5, <1>6, <1>7 DEF AutoConfirmQuery, AutoConfirmLocked, Stay, Tick

-----------------------------------------------------------------------------
(* Every step keeps the invariant *)

LEMMA DepInitInv == DepInit => DepInv
<1> SUFFICES ASSUME DepInit PROVE DepInv
  OBVIOUS
<1>1. Inv
  BY InitInv DEF DepInit
<1>2. AccountsOK
  BY DEF DepInit, AccountsOK, Idle, Steps, Ways
<1>3. ASSUME NEW u \in Volunteers PROVE Safe(u)
  BY DEF DepInit, Init, Safe, DraftUnanswered, KeptIsNoted, VisitVerified, NotGone,
         OnHomeVisit, HasOpenResponse, Staying
<1> QED
  BY <1>1, <1>2, <1>3 DEF DepInv

LEMMA NotedIsWay ==
  ASSUME AccountsOK, NEW v \in Volunteers, NEW way \in Ways \ {"none"}
  PROVE  /\ Noted(v, way) \in Ways \ {"none"}
         /\ way \in Evasions \/ around[v] \in Evasions => Noted(v, way) \in Evasions
BY DEF Noted, Ways, Evasions

\* Once the request is seen to be left in order, the volunteers are.
LEMMA AllSafe ==
  ASSUME DepInv, Inv', AccountsOK',
         \A u \in Volunteers : Follows(u) /\ DraftStays /\ Watched(u)
  PROVE  DepInv'
<1>1. ASSUME NEW u \in Volunteers PROVE Safe(u)'
  BY StaysSafe DEF DepInv, AccountsOK
<1> QED
  BY <1>1 DEF DepInv

LEMMA RequestStepInv == ASSUME DepInv, RequestStep PROVE DepInv'
<1> DEFINE Act ==
      \/ Publish \/ Approve \/ RejectRequest \/ EditSome
      \/ \E v \in Volunteers : Accept(v) \/ Reject(v) \/ Remove(v)
      \/ \E v \in Volunteers : active[v] /\ (Withdraw(v) \/ MarkDone(v))
      \/ ConfirmCompletion \/ DisputeCompletion \/ Cancel
      \/ ExpireOverdue \/ AutoConfirmQuery \/ AutoConfirmLocked \/ Tick
<1>1. Act /\ UNCHANGED <<active, handler, page>>
  BY DEF RequestStep
<1>2. around' = [v \in Volunteers |->
                   IF Remoderated(v) THEN Noted(v, "remoderated") ELSE around[v]]
  BY DEF RequestStep
<1>3. Inv /\ AccountsOK
  BY DEF DepInv
<1>4. Inv'
  <2>1. Act => Next
    BY DEF Next, ServiceStep, VolunteerStep
  <2> QED
    BY <1>1, <1>3, <2>1, NextInv
<1>5. trust' = trust
  <2>1. CASE Publish \/ Approve \/ RejectRequest
    BY <2>1 DEF Publish, Approve, RejectRequest
  <2>2. CASE EditSome
    BY <2>2 DEF EditSome, Edit
  <2>3. CASE \E v \in Volunteers : Accept(v) \/ Reject(v) \/ Remove(v) \/ Withdraw(v) \/ MarkDone(v)
    BY <2>3 DEF Accept, Reject, Remove, Withdraw, MarkDone
  <2>4. CASE ConfirmCompletion \/ DisputeCompletion \/ Cancel
    BY <2>4 DEF ConfirmCompletion, DisputeCompletion, Cancel
  <2>5. CASE ExpireOverdue \/ AutoConfirmQuery \/ AutoConfirmLocked \/ Tick
    BY <2>5 DEF ExpireOverdue, AutoConfirmQuery, AutoConfirmLocked, Tick
  <2> QED
    BY <1>1, <2>1, <2>2, <2>3, <2>4, <2>5
<1>6. ASSUME NEW u \in Volunteers
      PROVE  /\ around'[u] \in Ways
             /\ around[u] \in Evasions => around'[u] \in Evasions
             /\ around[u] # "none" => around'[u] # "none"
             /\ Remoderated(u) => around'[u] \in Evasions
  <2>1. "remoderated" \in Ways \ {"none"} /\ "remoderated" \in Evasions
    BY DEF Ways, Evasions
  <2>2. Noted(u, "remoderated") \in Ways \ {"none"} /\ Noted(u, "remoderated") \in Evasions
    BY <1>3, <2>1, NotedIsWay
  <2>3. around[u] \in Ways
    BY <1>3 DEF AccountsOK
  <2> QED
    BY <1>2, <2>2, <2>3
<1>7. AccountsOK'
  <2>1. around' \in [Volunteers -> Ways]
    BY <1>2, <1>6
  <2> QED
    BY <1>1, <1>3, <2>1 DEF AccountsOK
<1>8. ASSUME NEW u \in Volunteers PROVE Follows(u) /\ DraftStays
  <2>1. Safe(u)
    BY DEF DepInv
  <2>2. CASE Publish \/ Approve \/ RejectRequest
    BY <1>3, <2>1, <2>2, ModerationFollows
  <2>3. CASE EditSome
    <3>1. ASSUME status' = "pending_moderation", response'[u] \in Staying
          PROVE  around'[u] \in Evasions
      <4>1. response \in [Volunteers -> RStatuses]
        BY <1>3 DEF Inv, TypeOK
      <4>2. response' = response \/ response' = ClosePending(response)
        BY <2>3 DEF EditSome, Edit, AfterEdit, StartWork
      <4>3. response[u] \in Staying
        BY <3>1, <4>1, <4>2 DEF ClosePending, Staying
      <4> QED
        BY <1>6, <3>1, <4>3 DEF Remoderated, Staying
    <3> QED
      BY <1>3, <2>1, <2>3, <3>1, EditFollows
  <2>4. ASSUME NEW v \in Volunteers, Accept(v) \/ Reject(v) PROVE Follows(u) /\ DraftStays
    BY <1>3, <2>1, <2>4, AnswerFollows
  <2>5. ASSUME NEW v \in Volunteers, Remove(v) \/ Withdraw(v) PROVE Follows(u) /\ DraftStays
    BY <1>3, <2>1, <2>5, InvIsSound, LeavingActions, LeavesFollows
  <2>6. CASE \/ \E v \in Volunteers : MarkDone(v)
             \/ ConfirmCompletion \/ DisputeCompletion \/ Cancel \/ ExpireOverdue
             \/ AutoConfirmQuery \/ AutoConfirmLocked \/ Tick
    BY <1>3, <2>1, <2>6, FinishFollows
  <2> QED
    BY <1>1, <2>2, <2>3, <2>4, <2>5, <2>6
<1>9. ASSUME NEW u \in Volunteers PROVE Watched(u)
  BY <1>1, <1>5, <1>6 DEF Watched, Sweeping, Closing
<1> HIDE DEF Act
<1> QED
  BY <1>4, <1>7, <1>8, <1>9, AllSafe

\* Only the account of v changes: what that leaves to show.
LEMMA AccountStepInv ==
  ASSUME DepInv, NEW v \in Volunteers, Inv', AccountsOK',
         UNCHANGED <<status, response, homeVisit>>,
         \A u \in Volunteers \ {v} : /\ trust'[u] = trust[u] /\ active'[u] = active[u]
                                     /\ handler'[u] = handler[u] /\ around'[u] = around[u],
         Watched(v)
  PROVE  DepInv'
<1>1. ASSUME NEW u \in Volunteers PROVE Follows(u) /\ DraftStays
  BY AccountOnly DEF DepInv
<1>2. ASSUME NEW u \in Volunteers \ {v} PROVE Watched(u)
  BY DEF Watched, Sweeping, Closing
<1> QED
  BY <1>1, <1>2, AllSafe

\* The volunteer leaves the request, which settles it for the volunteer.
LEMMA LeaveStepInv ==
  ASSUME DepInv, NEW v \in Volunteers, Leaves(v), AccountsOK',
         \A u \in Volunteers \ {v} : handler'[u] = handler[u] /\ active'[u] = active[u],
         UNCHANGED around
  PROVE  DepInv'
<1>1. Inv'
  BY LeavesInv DEF DepInv
<1>2. ASSUME NEW u \in Volunteers PROVE Follows(u) /\ DraftStays
  BY LeavesFollows DEF DepInv
<1>3. ASSUME NEW u \in Volunteers PROVE Watched(u)
  <2>1. CASE u = v
    <3>1. response \in [Volunteers -> RStatuses]
      BY DEF DepInv, Inv, TypeOK
    <3>2. response'[v] \notin Staying
      BY <3>1 DEF Leaves, Staying
    <3> QED
      BY <2>1, <3>2 DEF Watched
  <2>2. CASE u # v
    BY <2>2 DEF Watched, Sweeping, Closing, Leaves
  <2> QED
    BY <2>1, <2>2
<1> QED
  BY <1>1, <1>2, <1>3, AllSafe

-----------------------------------------------------------------------------
(* The moderator's handlers *)

LEMMA HandlerMoves ==
  ASSUME AccountsOK, NEW v \in Volunteers,
         AfterSweep(v) \/ Finish(v) \/ \E s \in Steps : Go(v, s)
  PROVE  /\ handler' \in [Volunteers -> [step : Steps, block : BOOLEAN]]
         /\ \A u \in Volunteers \ {v} : handler'[u] = handler[u]
         /\ \A s \in Steps : Go(v, s) => handler'[v].step = s
<1>1. "deactivate" \in Steps /\ Idle \in [step : Steps, block : BOOLEAN]
  BY DEF Steps, Idle
<1>2. Finish(v) \/ \E s \in Steps : Go(v, s)
  BY <1>1 DEF AfterSweep
<1>3. handler \in [Volunteers -> [step : Steps, block : BOOLEAN]]
  BY DEF AccountsOK
<1>4. CASE Finish(v)
  BY <1>1, <1>3, <1>4 DEF Finish, Go
<1>5. CASE \E s \in Steps : Go(v, s)
  BY <1>3, <1>5 DEF Go
<1> QED
  BY <1>2, <1>4, <1>5

LEMMA SameRequest ==
  ASSUME Inv, UNCHANGED vars
  PROVE  Inv' /\ UNCHANGED <<status, response, homeVisit, trust>>
BY NextInv DEF vars

\* The account is taken out of a user's hands, or given back.
LEMMA TrustStepInv ==
  ASSUME Inv, NEW v \in Volunteers,
         \E level \in 0 .. L2 : trust' = [trust EXCEPT ![v] = level],
         UNCHANGED <<status, response, done, needed, homeVisit, published, late, age, others, due>>
  PROVE  Inv' /\ \A u \in Volunteers \ {v} : trust'[u] = trust[u]
<1>1. v \in Users /\ TrustChange(v)
  BY DEF Users, TrustChange
<1>2. \A u \in Volunteers : u \in Users
  BY DEF Users
<1> QED
  BY <1>1, <1>2, NextInv DEF Inv, TypeOK, Next, ServiceStep

LEMMA RevokeKeeps ==
  ASSUME DepInv, NEW v \in Volunteers, NEW block \in BOOLEAN, Revoke(v, block)
  PROVE  DepInv'
<1>1. Inv /\ AccountsOK
  BY DEF DepInv
<1>2. PICK level \in 0 .. L1 : trust' = [trust EXCEPT ![v] = level]
  BY DEF Revoke
<1>3. level \in 0 .. L2
  BY DEF L1, L2
<1>4. Inv' /\ \A u \in Volunteers \ {v} : trust'[u] = trust[u]
  BY <1>1, <1>2, <1>3, TrustStepInv DEF Revoke
<1>5. /\ handler' = [handler EXCEPT ![v] = [step |-> "sweep", block |-> block]]
      /\ UNCHANGED <<active, page, around>>
  BY DEF Revoke
<1>6. AccountsOK' /\ Sweeping(v)' /\ \A u \in Volunteers \ {v} : handler'[u] = handler[u]
  BY <1>1, <1>5 DEF AccountsOK, Steps, Sweeping
<1>7. At(v, "idle") /\ handler[v].step = "idle"
  BY DEF Revoke, At
<1>8. Watched(v)
  BY <1>5, <1>6, <1>7 DEF Watched, Closing
<1> QED
  BY <1>4, <1>5, <1>6, <1>8, AccountStepInv DEF Revoke

LEMMA QueryKeeps ==
  ASSUME DepInv, NEW v \in Volunteers, SweepQuery(v) \/ CloseQuery(v)
  PROVE  DepInv'
<1>1. Inv /\ AccountsOK
  BY DEF DepInv
<1>2. UNCHANGED vars /\ UNCHANGED <<active, page, around>>
  BY DEF SweepQuery, CloseQuery
<1>3. Inv' /\ UNCHANGED <<status, response, homeVisit, trust>>
  BY <1>1, <1>2, SameRequest
<1>4. "sweepRemove" \in Steps /\ "leave" \in Steps
  BY DEF Steps
<1>5. /\ handler' \in [Volunteers -> [step : Steps, block : BOOLEAN]]
      /\ \A u \in Volunteers \ {v} : handler'[u] = handler[u]
      /\ \A s \in Steps : Go(v, s) => handler'[v].step = s
  BY <1>1, <1>4, HandlerMoves DEF SweepQuery, CloseQuery
<1>6. AccountsOK'
  BY <1>1, <1>2, <1>5 DEF AccountsOK
<1>7. Watched(v)
  <2>1. CASE ~HasOpenResponse(v)
    BY <1>2, <1>3, <2>1 DEF HasOpenResponse, Watched, Staying
  <2>2. CASE HasOpenResponse(v) /\ SweepQuery(v)
    <3>1. handler'[v].step = "sweepRemove" /\ handler[v].step = "sweep"
      BY <1>4, <1>5, <2>2 DEF SweepQuery, At
    <3> QED
      BY <1>2, <3>1 DEF Watched, Sweeping, Closing
  <2>3. CASE HasOpenResponse(v) /\ CloseQuery(v)
    <3>1. handler'[v].step = "leave" /\ handler[v].step = "close"
      BY <1>4, <1>5, <2>3 DEF CloseQuery, At
    <3> QED
      BY <1>2, <1>3, <3>1 DEF Watched, Sweeping, Closing
  <2> QED
    BY <2>1, <2>2, <2>3
<1> QED
  BY <1>2, <1>3, <1>5, <1>6, <1>7, AccountStepInv

\* remove_by_moderator leaves no open response behind, whether or not it found
\* one.
LEMMA RemoveKeeps ==
  ASSUME DepInv, NEW v \in Volunteers, SweepRemove(v) \/ CloseRemove(v)
  PROVE  DepInv'
<1>1. Inv /\ AccountsOK
  BY DEF DepInv
<1>2. UNCHANGED <<active, page, around>> /\ TakeOff(v) /\ (AfterSweep(v) \/ Finish(v))
  BY DEF SweepRemove, CloseRemove
<1>3. /\ handler' \in [Volunteers -> [step : Steps, block : BOOLEAN]]
      /\ \A u \in Volunteers \ {v} : handler'[u] = handler[u]
  BY <1>1, <1>2, HandlerMoves
<1>4. AccountsOK'
  BY <1>1, <1>2, <1>3 DEF AccountsOK
<1>5. CASE RemoveByModerator(v)
  BY <1>1, <1>2, <1>3, <1>4, <1>5, InvIsSound, LeavingActions, LeaveStepInv
<1>6. CASE ~HasOpenResponse(v) /\ UNCHANGED vars
  <2>1. Inv' /\ UNCHANGED <<status, response, homeVisit, trust>>
    BY <1>1, <1>6, SameRequest
  <2>2. Watched(v)
    BY <1>2, <1>6, <2>1 DEF HasOpenResponse, Watched, Staying
  <2> QED
    BY <1>2, <1>3, <1>4, <2>1, <2>2, AccountStepInv
<1> QED
  BY <1>2, <1>5, <1>6 DEF TakeOff

LEMMA CloseLeaveKeeps ==
  ASSUME DepInv, NEW v \in Volunteers, CloseLeave(v)
  PROVE  DepInv'
<1>1. Inv /\ AccountsOK
  BY DEF DepInv
<1>2. UNCHANGED <<active, page, around>> /\ "closeRemove" \in Steps /\ handler[v].step = "leave"
  BY DEF CloseLeave, Steps, At
<1>3. /\ handler' \in [Volunteers -> [step : Steps, block : BOOLEAN]]
      /\ \A u \in Volunteers \ {v} : handler'[u] = handler[u]
      /\ \A s \in Steps : Go(v, s) => handler'[v].step = s
  BY <1>1, <1>2, HandlerMoves DEF CloseLeave
<1>4. AccountsOK'
  BY <1>1, <1>2, <1>3 DEF AccountsOK
<1>5. CASE Withdraw(v)
  BY <1>1, <1>2, <1>3, <1>4, <1>5, InvIsSound, LeavingActions, LeaveStepInv
<1>6. CASE Go(v, "closeRemove") /\ UNCHANGED vars
  <2>1. Inv' /\ UNCHANGED <<status, response, homeVisit, trust>>
    BY <1>1, <1>6, SameRequest
  <2>2. Watched(v)
    BY <1>2, <1>3, <1>6, <2>1 DEF Watched, Sweeping, Closing
  <2> QED
    BY <1>2, <1>3, <1>4, <2>1, <2>2, AccountStepInv
<1> QED
  BY <1>5, <1>6 DEF CloseLeave

LEMMA BlockKeeps ==
  ASSUME DepInv, NEW v \in Volunteers, BlockUnverified(v) \/ Deactivate(v) \/ Crash(v)
  PROVE  DepInv'
<1>1. Inv /\ AccountsOK /\ around[v] \in Ways
  BY DEF DepInv, AccountsOK
<1>2. UNCHANGED vars /\ page' = page
  BY DEF BlockUnverified, Deactivate, Crash
<1>3. Inv' /\ UNCHANGED <<status, response, homeVisit, trust>>
  BY <1>1, <1>2, SameRequest
<1>4. CASE BlockUnverified(v)
  <2>1. /\ handler' = [handler EXCEPT ![v] = [step |-> "deactivate", block |-> TRUE]]
        /\ UNCHANGED <<active, around>> /\ handler[v].step = "idle"
    BY <1>4 DEF BlockUnverified, At
  <2>2. AccountsOK' /\ \A u \in Volunteers \ {v} : handler'[u] = handler[u]
    BY <1>1, <1>2, <2>1 DEF AccountsOK, Steps
  <2>3. Watched(v)
    BY <1>3, <2>1 DEF Watched, Sweeping, Closing
  <2> QED
    BY <1>3, <2>1, <2>2, <2>3, AccountStepInv
<1>5. CASE Deactivate(v)
  <2>1. /\ "close" \in Steps /\ Go(v, "close") /\ around' = around
        /\ active' = [active EXCEPT ![v] = FALSE] /\ handler[v].step = "deactivate"
    BY <1>5 DEF Deactivate, At, Steps
  <2>2. /\ handler' \in [Volunteers -> [step : Steps, block : BOOLEAN]]
        /\ \A u \in Volunteers \ {v} : handler'[u] = handler[u] /\ active'[u] = active[u]
        /\ handler'[v].step = "close"
    BY <1>1, <2>1, HandlerMoves DEF AccountsOK
  <2>3. AccountsOK'
    BY <1>1, <1>2, <2>1, <2>2 DEF AccountsOK
  <2>4. Watched(v)
    BY <1>3, <2>1, <2>2 DEF Watched, Sweeping, Closing
  <2> QED
    BY <1>3, <2>1, <2>2, <2>3, <2>4, AccountStepInv
<1>6. CASE Crash(v)
  <2>1. "crashed" \in Ways \ {"none"} /\ "crashed" \in Evasions
    BY DEF Ways, Evasions
  <2>2. Noted(v, "crashed") \in Ways \ {"none"} /\ Noted(v, "crashed") \in Evasions
    BY <1>1, <2>1, NotedIsWay
  <2>3. Finish(v) /\ active' = active /\ around' = [around EXCEPT ![v] = Noted(v, "crashed")]
    BY <1>6 DEF Crash
  <2>4. /\ handler' \in [Volunteers -> [step : Steps, block : BOOLEAN]]
        /\ \A u \in Volunteers \ {v} : handler'[u] = handler[u] /\ around'[u] = around[u]
        /\ around' \in [Volunteers -> Ways] /\ around'[v] = Noted(v, "crashed")
    BY <1>1, <2>2, <2>3, HandlerMoves DEF AccountsOK
  <2>5. AccountsOK'
    BY <1>1, <1>2, <2>3, <2>4 DEF AccountsOK
  <2>6. Watched(v)
    BY <2>2, <2>4 DEF Watched
  <2> QED
    BY <1>3, <2>3, <2>4, <2>5, <2>6, AccountStepInv
<1> QED
  BY <1>4, <1>5, <1>6

-----------------------------------------------------------------------------
(* The volunteer's pages, and the administrator *)

LEMMA AdminKeeps ==
  ASSUME DepInv, NEW v \in Volunteers, AdminBlock(v) \/ AdminUnblock(v) \/ PageLoad(v)
  PROVE  DepInv'
<1>1. Inv /\ AccountsOK /\ around[v] \in Ways
  BY DEF DepInv, AccountsOK
<1>2. UNCHANGED vars /\ handler' = handler
  BY DEF AdminBlock, AdminUnblock, PageLoad
<1>3. Inv' /\ UNCHANGED <<status, response, homeVisit, trust>>
  BY <1>1, <1>2, SameRequest
<1>4. CASE AdminBlock(v)
  <2>1. "byAdmin" \in Ways \ {"none"}
    BY DEF Ways
  <2>2. /\ Noted(v, "byAdmin") \in Ways \ {"none"}
        /\ around[v] \in Evasions => Noted(v, "byAdmin") \in Evasions
    BY <1>1, <2>1, NotedIsWay
  <2>3. /\ active' = [active EXCEPT ![v] = FALSE] /\ page' = page
        /\ around' = [around EXCEPT ![v] = Noted(v, "byAdmin")]
    BY <1>4 DEF AdminBlock
  <2>4. /\ \A u \in Volunteers \ {v} : active'[u] = active[u] /\ around'[u] = around[u]
        /\ around' \in [Volunteers -> Ways] /\ around'[v] = Noted(v, "byAdmin")
        /\ active' \in [Volunteers -> BOOLEAN]
    BY <1>1, <2>2, <2>3 DEF AccountsOK
  <2>5. AccountsOK'
    BY <1>1, <1>2, <2>3, <2>4 DEF AccountsOK
  <2>6. Watched(v)
    BY <1>2, <1>3, <2>2, <2>4 DEF Watched, Sweeping
  <2> QED
    BY <1>2, <1>3, <2>4, <2>5, <2>6, AccountStepInv
<1>5. CASE AdminUnblock(v)
  <2>1. active' = [active EXCEPT ![v] = TRUE] /\ UNCHANGED <<page, around>>
    BY <1>5 DEF AdminUnblock
  <2>2. AccountsOK' /\ active'[v] /\ \A u \in Volunteers \ {v} : active'[u] = active[u]
    BY <1>1, <1>2, <2>1 DEF AccountsOK
  <2>3. Watched(v)
    BY <1>2, <1>3, <2>1, <2>2 DEF Watched, Sweeping
  <2> QED
    BY <1>2, <1>3, <2>1, <2>2, <2>3, AccountStepInv
<1>6. CASE PageLoad(v)
  <2>1. /\ page' = [page EXCEPT ![v] = [trust |-> trust[v], active |-> TRUE]]
        /\ UNCHANGED <<active, around>>
    BY <1>6 DEF PageLoad
  <2>2. trust[v] \in 0 .. L2
    BY <1>1 DEF Inv, TypeOK, Users
  <2>3. AccountsOK'
    BY <1>1, <1>2, <2>1, <2>2 DEF AccountsOK, Pages
  <2>4. Watched(v)
    BY <1>2, <1>3, <2>1 DEF Watched, Sweeping, Closing
  <2> QED
    BY <1>2, <1>3, <2>1, <2>3, <2>4, AccountStepInv
<1> QED
  BY <1>4, <1>5, <1>6

LEMMA GainKeeps ==
  ASSUME DepInv, NEW v \in Volunteers, AdminVerify(v) \/ ConfirmEmail(v) \/ Verify(v)
  PROVE  DepInv'
<1>1. Inv /\ AccountsOK /\ trust \in [Users -> 0 .. L2] /\ v \in Users
  BY DEF DepInv, Inv, TypeOK, Users
<1>2. UNCHANGED <<active, handler, page, around>>
  BY DEF AdminVerify, ConfirmEmail, Verify, account
<1>3. PICK level \in {L1, L2} : trust' = [trust EXCEPT ![v] = level] /\ trust[v] <= level
  BY <1>1 DEF AdminVerify, ConfirmEmail, Verify, L1, L2
<1>4. level \in 0 .. L2
  BY DEF L1, L2
<1>5. Inv' /\ \A u \in Volunteers \ {v} : trust'[u] = trust[u]
  BY <1>1, <1>3, <1>4, TrustStepInv DEF AdminVerify, ConfirmEmail, Verify
<1>6. AccountsOK'
  BY <1>1, <1>2 DEF AccountsOK
<1>7. trust'[v] # L2 => trust[v] # L2
  BY <1>1, <1>3 DEF L1, L2
<1>8. Watched(v)
  BY <1>2, <1>7 DEF Watched, Sweeping, Closing
<1>9. UNCHANGED <<status, response, homeVisit>>
  BY DEF AdminVerify, ConfirmEmail, Verify
<1> QED
  BY <1>2, <1>5, <1>6, <1>8, <1>9, AccountStepInv

\* The form writes the row the page loaded: what it undoes is noted.
LEMMA ProfileKeeps ==
  ASSUME DepInv, NEW v \in Volunteers, PageProfile(v)
  PROVE  DepInv'
<1>1. Inv /\ AccountsOK /\ trust \in [Users -> 0 .. L2] /\ v \in Users /\ around[v] \in Ways
  BY DEF DepInv, Inv, TypeOK, Users, AccountsOK
<1>2. page[v] \in Pages
  BY <1>1 DEF PageProfile, AccountsOK
<1>3. PICK level \in FormTrust(page[v].trust) : trust' = [trust EXCEPT ![v] = level]
  BY DEF PageProfile
<1>4. level \in 0 .. L2 /\ (level # L2 => page[v].trust # L2)
  <2>1. page[v].trust \in 0 .. L2
    BY <1>2 DEF Pages
  <2>2. level = page[v].trust \/ (page[v].trust = L1 /\ level = 0)
    BY <1>3 DEF FormTrust
  <2> QED
    BY <2>1, <2>2 DEF L1, L2
<1>5. /\ active' = [active EXCEPT ![v] = page[v].active] /\ handler' = handler
      /\ page' = [page EXCEPT ![v] = NoPage]
      /\ around' = [around EXCEPT ![v] =
           IF trust[v] = page[v].trust /\ active[v] THEN around[v] ELSE Noted(v, "overwritten")]
      /\ UNCHANGED <<status, response, homeVisit>>
  BY DEF PageProfile
<1>6. "overwritten" \in Ways \ {"none"} /\ "overwritten" \in Evasions
  BY DEF Ways, Evasions
<1>7. Noted(v, "overwritten") \in Ways \ {"none"} /\ Noted(v, "overwritten") \in Evasions
  BY <1>1, <1>6, NotedIsWay
<1>8. page[v].active = TRUE
  BY <1>2 DEF Pages
<1>9. /\ active'[v] = TRUE /\ trust'[v] = level
      /\ around'[v] = IF trust[v] = page[v].trust /\ active[v] THEN around[v]
                      ELSE Noted(v, "overwritten")
      /\ \A u \in Volunteers \ {v} : active'[u] = active[u] /\ around'[u] = around[u]
  BY <1>1, <1>3, <1>5, <1>8 DEF AccountsOK
<1>10. AccountsOK'
  <2>1. /\ active' \in [Volunteers -> BOOLEAN]
        /\ page' \in [Volunteers -> Pages \cup {NoPage}]
    BY <1>1, <1>5, <1>8 DEF AccountsOK
  <2>2. around' \in [Volunteers -> Ways]
    BY <1>1, <1>5, <1>7 DEF AccountsOK
  <2> QED
    BY <1>1, <1>5, <2>1, <2>2 DEF AccountsOK
<1>11. Inv' /\ \A u \in Volunteers \ {v} : trust'[u] = trust[u]
  BY <1>1, <1>3, <1>4, TrustStepInv DEF PageProfile
<1>12. Watched(v)
  BY <1>4, <1>5, <1>7, <1>9 DEF Watched, Sweeping
<1> QED
  BY <1>5, <1>9, <1>10, <1>11, <1>12, AccountStepInv

\* An answer of a page loaded earlier: the account may be gone by now, which is
\* noted, but waiting is not being accepted.
LEMMA PageRespondKeeps ==
  ASSUME DepInv, NEW v \in Volunteers, PageRespond(v)
  PROVE  DepInv'
<1>1. Inv /\ AccountsOK /\ response \in [Volunteers -> RStatuses] /\ around[v] \in Ways
  BY DEF DepInv, Inv, TypeOK, AccountsOK
<1>2. /\ status = "active" /\ response[v] = "none"
      /\ response' = [response EXCEPT ![v] = "pending"]
      /\ UNCHANGED <<status, done, needed, homeVisit, published, late, age, trust, others, due>>
      /\ page' = [page EXCEPT ![v] = NoPage] /\ UNCHANGED <<active, handler>>
      /\ around' = [around EXCEPT ![v] =
           IF active[v] THEN around[v] ELSE Noted(v, "answeredLate")]
  BY DEF PageRespond
<1>3. "answeredLate" \in Ways \ {"none"}
  BY DEF Ways
<1>4. /\ Noted(v, "answeredLate") \in Ways \ {"none"}
      /\ around[v] \in Evasions => Noted(v, "answeredLate") \in Evasions
  BY <1>1, <1>3, NotedIsWay
<1>5. AccountsOK'
  BY <1>1, <1>2, <1>4 DEF AccountsOK
<1>6. Inv'
  BY <1>1, <1>2, OffersInv DEF Offers
<1>7. ASSUME NEW u \in Volunteers \ {v} PROVE Safe(u)'
  <2>1. /\ response'[u] = response[u] /\ around'[u] = around[u]
        /\ UNCHANGED <<status, homeVisit, trust, active, handler>>
    BY <1>1, <1>2 DEF AccountsOK
  <2>2. Safe(u)
    BY DEF DepInv
  <2> QED
    BY <2>1, <2>2 DEF Safe, DraftUnanswered, KeptIsNoted, VisitVerified, NotGone, OnHomeVisit,
       HasOpenResponse, Sweeping, Closing
<1>8. Safe(v)'
  <2>1. response'[v] = "pending" /\ status' = "active" /\ active' = active
    BY <1>1, <1>2
  <2>2. around'[v] = IF active[v] THEN around[v] ELSE Noted(v, "answeredLate")
    BY <1>1, <1>2 DEF AccountsOK
  <2> QED
    BY <1>4, <2>1, <2>2
    DEF Safe, DraftUnanswered, KeptIsNoted, VisitVerified, NotGone, OnHomeVisit
<1> QED
  BY <1>5, <1>6, <1>7, <1>8 DEF DepInv

\* delete_account is the leaving of the volunteer and the end of the trust in
\* one; on a request that is not open it leaves the response where it is.
LEMMA DeleteLeaves ==
  ASSUME Inv, NEW v \in Volunteers, DeleteAccount(v)
  PROVE  /\ HasOpenResponse(v) => Leaves(v)
         /\ ~HasOpenResponse(v) => Stay /\ response' = response
<1>1. trust' \in [Users -> 0 .. L2] /\ \A w \in Volunteers \ {v} : trust'[w] = trust[w]
  BY DEF DeleteAccount, Inv, TypeOK, Users, L2
<1>2. done' \in [Volunteers -> BOOLEAN] /\ \A w \in Volunteers \ {v} : done'[w] = done[w]
  BY DEF DeleteAccount, Inv, TypeOK
<1>3. HasOpenResponse(v) =>
        /\ \E s \in {"withdrawn", "removed"} : response' = [response EXCEPT ![v] = s]
        /\ \/ response[v] = "pending" /\ Stay
           \/ response[v] = "accepted" /\ status \in Open /\ ReopenIfShort(Team \ {v})
  BY DEF DeleteAccount, HasOpenResponse
<1> QED
  BY <1>1, <1>2, <1>3 DEF DeleteAccount, Leaves

LEMMA DeleteKeeps ==
  ASSUME DepInv, NEW v \in Volunteers, DeleteAccount(v)
  PROVE  DepInv'
<1>1. Inv /\ AccountsOK
  BY DEF DepInv
<1>2. /\ trust' = [trust EXCEPT ![v] = 0] /\ active' = [active EXCEPT ![v] = FALSE]
      /\ UNCHANGED <<done, needed, homeVisit, published, late, others, due, handler, page, around>>
  BY DEF DeleteAccount
<1>3. AccountsOK' /\ \A u \in Volunteers \ {v} : active'[u] = active[u]
  BY <1>1, <1>2 DEF AccountsOK
<1>4. CASE ~HasOpenResponse(v)
  <2>1. UNCHANGED <<status, age, response>>
    BY <1>1, <1>4, DeleteLeaves DEF Stay
  <2>2. \E level \in 0 .. L2 : trust' = [trust EXCEPT ![v] = level]
    BY <1>2 DEF L2
  <2>3. Inv' /\ \A u \in Volunteers \ {v} : trust'[u] = trust[u]
    BY <1>1, <1>2, <2>1, <2>2, TrustStepInv
  <2>4. Watched(v)
    BY <1>2, <1>4, <2>1 DEF Watched, HasOpenResponse, Staying
  <2> QED
    BY <1>2, <1>3, <2>1, <2>3, <2>4, AccountStepInv
<1>5. CASE HasOpenResponse(v)
  BY <1>1, <1>2, <1>3, <1>5, DeleteLeaves, LeaveStepInv
<1> QED
  BY <1>4, <1>5

LEMMA DepNextInv == DepInv /\ [DepNext]_depVars => DepInv'
<1> SUFFICES ASSUME DepInv, [DepNext]_depVars PROVE DepInv'
  OBVIOUS
<1>1. CASE RequestStep
  BY <1>1, RequestStepInv
<1>2. ASSUME NEW v \in Volunteers, HandlerStep(v) PROVE DepInv'
  BY <1>2, RevokeKeeps, QueryKeeps, RemoveKeeps, BlockKeeps, CloseLeaveKeeps DEF HandlerStep
<1>3. ASSUME NEW v \in Volunteers, AccountStep(v) PROVE DepInv'
  BY <1>3, AdminKeeps, PageRespondKeeps, ProfileKeeps, DeleteKeeps, GainKeeps DEF AccountStep
<1>4. ASSUME NEW v \in Volunteers, AdminStep(v) PROVE DepInv'
  BY <1>4, AdminKeeps, GainKeeps DEF AdminStep
<1>5. CASE UNCHANGED depVars
  <2>1. UNCHANGED vars /\ UNCHANGED <<active, handler, page, around>>
    BY <1>5 DEF depVars
  <2>2. Inv' /\ UNCHANGED <<status, response, homeVisit, trust>>
    BY <2>1, SameRequest DEF DepInv
  <2>3. AccountsOK'
    BY <2>1 DEF DepInv, AccountsOK
  <2>4. ASSUME NEW u \in Volunteers PROVE Safe(u)'
    BY <2>1, <2>2 DEF DepInv, Safe, DraftUnanswered, KeptIsNoted, VisitVerified, NotGone,
       OnHomeVisit, HasOpenResponse, Sweeping, Closing
  <2> QED
    BY <2>2, <2>3, <2>4 DEF DepInv
<1> QED
  BY <1>1, <1>2, <1>3, <1>4, <1>5 DEF DepNext

-----------------------------------------------------------------------------
(* The theorems *)

\* However the moderator's handlers, the volunteer's pages and the request
\* interleave and die, for any number of volunteers.
THEOREM DeparturesHold == DepSpec => []DepInv
BY DepInitInv, DepNextInv, PTL DEF DepSpec

\* The accounts and the handlers keep their types, and the request its own.
THEOREM DeparturesTyped == DepSpec => []DepTypeOK
<1>1. DepInv => DepTypeOK
  BY DEF DepInv, Inv, AccountsOK, DepTypeOK
<1> QED
  BY <1>1, DeparturesHold, PTL

\* An unverified volunteer is on a home visit only while the sweep runs, or
\* after one of the noted evasions (revoke_verification, respond, accept).
THEOREM VisitorsAreVerified == DepSpec => []VisitNeedsVerified
<1>1. DepInv => VisitNeedsVerified
  BY DEF DepInv, Safe, VisitVerified, VisitNeedsVerified
<1> QED
  BY <1>1, DeparturesHold, PTL

\* Nobody waits for a volunteer who is blocked or gone, but for the noted ways
\* (close_open_work_of, delete_account).
THEOREM NobodyIsAwaitedInVain == DepSpec => []NobodyWaitsForTheGone
<1>1. DepInv => NobodyWaitsForTheGone
  BY DEF DepInv, Safe, NotGone, NobodyWaitsForTheGone
<1> QED
  BY <1>1, DeparturesHold, PTL

\* A request whose volunteers are blocked and revoked beside it still keeps its
\* own promises: what Lifecycle proves of the moderator's removals is all that
\* the moderator's handlers do to it.
THEOREM RequestStaysSound == DepSpec => []Inv
BY DeparturesHold, PTL DEF DepInv

\* A request keeps its contract beside the moderator's handlers, dead or alive,
\* the deletion of accounts, answers sent from pages loaded long ago and the
\* bulk actions of the administrator: every such step is a departure, an offer
\* or nothing to the people in it.
THEOREM DeparturesKeepContract == DepSpec => KeepsContract
<1>1. ASSUME Inv, RequestStep PROVE [Contract!Next]_(Contract!vars)
  <2>1. Next
    BY <1>1 DEF RequestStep, Next, ServiceStep, VolunteerStep
  <2> QED
    BY <1>1, <2>1, NextKeeps
<1>2. ASSUME Inv, NEW v \in Volunteers, HandlerStep(v) PROVE [Contract!Next]_(Contract!vars)
  <2>1. CASE \E block \in BOOLEAN : Revoke(v, block)
    BY <2>1, QuietKeeps DEF Revoke
  <2>2. CASE SweepQuery(v) \/ BlockUnverified(v) \/ Deactivate(v) \/ CloseQuery(v) \/ Crash(v)
    BY <2>2, QuietKeeps DEF SweepQuery, BlockUnverified, Deactivate, CloseQuery, Crash, vars
  <2>3. CASE SweepRemove(v) \/ CloseLeave(v) \/ CloseRemove(v)
    <3>1. Withdraw(v) \/ RemoveByModerator(v) \/ UNCHANGED vars
      BY <2>3 DEF SweepRemove, CloseLeave, CloseRemove, TakeOff
    <3> QED
      BY <1>2, <3>1, InvIsSound, LeavingActions, LeavesKeeps, QuietKeeps DEF vars
  <2> QED
    BY <1>2, <2>1, <2>2, <2>3 DEF HandlerStep
<1>3. ASSUME Inv, NEW v \in Volunteers, AccountStep(v) \/ AdminStep(v)
      PROVE  [Contract!Next]_(Contract!vars)
  <2>1. CASE PageRespond(v)
    BY <1>3, <2>1, OffersKeeps DEF PageRespond, Offers
  <2>2. CASE DeleteAccount(v)
    BY <1>3, <2>2, DeleteLeaves, LeavesKeeps, QuietKeeps DEF Stay
  <2>3. CASE PageLoad(v) \/ PageProfile(v) \/ ConfirmEmail(v) \/ Verify(v) \/ AdminStep(v)
    BY <2>3, QuietKeeps
    DEF PageLoad, PageProfile, ConfirmEmail, Verify, AdminStep, AdminBlock, AdminUnblock,
        AdminVerify, vars
  <2> QED
    BY <1>3, <2>1, <2>2, <2>3 DEF AccountStep
<1>4. UNCHANGED depVars => UNCHANGED Contract!vars
  BY QuietKeeps DEF depVars, vars
<1>5. Inv /\ [DepNext]_depVars => [Contract!Next]_(Contract!vars)
  BY <1>1, <1>2, <1>3, <1>4 DEF DepNext
<1>6. DepInit => Contract!Init
  BY ContractInit DEF DepInit
<1> QED
  BY <1>5, <1>6, RequestStaysSound, PTL DEF DepSpec, KeepsContract, Contract!Spec
=============================================================================
