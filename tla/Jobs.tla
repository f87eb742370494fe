-------------------------------- MODULE Jobs --------------------------------
(***************************************************************************)
(* run_periodic_tasks over one request: the cron service calls the         *)
(* endpoint every ten minutes, a call runs its jobs one after another, and *)
(* nothing keeps a slow call from overlapping the next or the host from    *)
(* being stopped half-way.  A call is an actor with a place in the list of *)
(* jobs; the locked transactions of expire_overdue and auto_confirm are    *)
(* those of Lifecycle, send_reminders has no transaction and no lock and   *)
(* is taken apart.  The jobs of the reviews are in Reviews, the reset of   *)
(* the demonstration in Demo.                                              *)
(***************************************************************************)
EXTENDS Lifecycle

CONSTANTS
  Calls,        \* calls of the endpoint that may run at once
  RemindAfter,  \* REMIND_AFTER_END (24 hours)
  MaxFailures   \* bound on killed calls and failed jobs

\* A reminder comes before the expiry of work (24 hours, 7 days).
ASSUME JobsAssumption ==
  /\ RemindAfter \in 0 .. ExpireAfterEnd
  /\ MaxFailures \in Nat

VARIABLES
  call,      \* where each call stands: the next thing it does
  reminded,  \* HelpRequest.reminder_sent_at is set
  nudged,    \* the recipient has been sent a reminder
  slipped,   \* a pass was killed after its notice or overlapped another
  fresh,     \* the call is under way and nobody else has done anything since
  failures   \* calls killed and jobs failed so far

jvars == <<vars, call, reminded, nudged, slipped, fresh, failures>>
others_ == <<reminded, nudged, slipped, failures>>

Places == {"expire", "confirm", "confirming", "remind", "owner", "save"}

JobsTypeOK ==
  /\ TypeOK
  /\ call \in [Calls -> Places]
  /\ fresh \in [Calls -> BOOLEAN]
  /\ {reminded, nudged, slipped} \subseteq BOOLEAN
  /\ failures \in 0 .. MaxFailures

\* A call waits at "expire" for the cron service to make it.
NotCalled(c) == call[c] = "expire"

Advance(c, next) ==
  /\ call' = [call EXCEPT ![c] = next]
  /\ fresh' = [d \in Calls |-> d = c /\ next # "expire" /\ (NotCalled(c) \/ fresh[c])]

-----------------------------------------------------------------------------

JobsInit ==
  /\ Init
  /\ call = [c \in Calls |-> "expire"]
  /\ fresh = [c \in Calls |-> FALSE]
  /\ reminded = FALSE
  /\ nudged = FALSE
  /\ slipped = FALSE
  /\ failures = 0

\* run_tasks: the call comes in and its first job decides under the lock
ExpireJob(c) ==
  /\ NotCalled(c)
  /\ \/ ExpireOverdue
     \/ ~IsStale /\ UNCHANGED vars
  /\ Advance(c, "confirm")
  /\ UNCHANGED others_

ConfirmDue == status = "awaiting_confirmation" /\ age > AutoConfirmAfter

\* the unlocked query of auto_confirm
ConfirmQuery(c) ==
  /\ call[c] = "confirm"
  /\ Advance(c, IF ConfirmDue THEN "confirming" ELSE "remind")
  /\ UNCHANGED <<vars, others_>>

\* its transaction on the request found
ConfirmLocked(c) ==
  /\ call[c] = "confirming"
  /\ \/ status = "awaiting_confirmation" /\ MoveTo("completed")
     \/ status # "awaiting_confirmation" /\ Stay
  /\ Advance(c, "remind")
  /\ UNCHANGED <<response, done, needed, homeVisit, published, late, trust, others, due,
                 others_>>

RemindDueAnyStatus ==
  /\ ~reminded
  /\ late > RemindAfter
  /\ late >= Duration + RemindAfter
RemindDue ==
  /\ status = "in_progress"
  /\ ~reminded
  /\ late > RemindAfter
  /\ late >= Duration + RemindAfter

Reminding(c) == call[c] \in {"owner", "save"}

\* the candidates of send_reminders, read once; with none the call is over
RemindQuery(c) ==
  /\ call[c] = "remind"
  /\ \/ /\ RemindDue
        /\ slipped' = (slipped \/ \E d \in Calls \ {c} : Reminding(d))
        /\ Advance(c, "owner")
     \/ /\ ~RemindDue
        /\ Advance(c, "expire")
        /\ UNCHANGED slipped
  /\ UNCHANGED <<vars, reminded, nudged, failures>>

\* the notice to the recipient, from the candidate as it was read
NudgeOwner(c) ==
  /\ call[c] = "owner"
  /\ nudged' = TRUE
  /\ Advance(c, "save")
  /\ UNCHANGED <<vars, reminded, slipped, failures>>

ForgetReminder == UNCHANGED reminded
SaveReminder == reminded' = TRUE

\* the notices to those of the team who are not done, then the mark
NudgeTeamAndSave(c) ==
  /\ call[c] = "save"
  /\ SaveReminder
  /\ Advance(c, "expire")
  /\ UNCHANGED <<vars, nudged, slipped, failures>>

\* run_periodic_tasks catches the error of a job and goes on with the next
NextJob(c) ==
  CASE NotCalled(c) -> "confirm"
    [] call[c] \in {"confirm", "confirming"} -> "remind"
    [] OTHER -> "expire"

\* a job fails, or the host is stopped with the whole call; nothing of an
\* open transaction stays
Fail(c) ==
  /\ failures < MaxFailures
  /\ failures' = failures + 1
  /\ \E next \in {NextJob(c), "expire"} : call' = [call EXCEPT ![c] = next]
  /\ fresh' = [d \in Calls |-> FALSE]
  /\ slipped' = (slipped \/ call[c] = "save")
  /\ UNCHANGED <<vars, reminded, nudged>>

Run(c) ==
  \/ ExpireJob(c) \/ ConfirmQuery(c) \/ ConfirmLocked(c) \/ RemindQuery(c)
  \/ NudgeOwner(c) \/ NudgeTeamAndSave(c)

\* everybody else
Disturb == fresh' = [c \in Calls |-> FALSE] /\ UNCHANGED <<call, others_>>

Click ==
  /\ \/ Publish \/ Approve \/ RejectRequest
     \/ \E v \in Volunteers : VolunteerStep(v)
     \/ ConfirmCompletion \/ DisputeCompletion \/ Cancel \/ EditSome
  /\ Disturb

\* manage.py expire_requests, by hand
Command == ExpireOverdue /\ Disturb

Elapse == Tick /\ Disturb

JobsNext ==
  \/ Click \/ Command \/ Elapse
  \/ \E c \in Calls : Run(c) \/ Fail(c)

JobsSpec == JobsInit /\ [][JobsNext]_jvars

\* The cron service goes on calling and the host goes on running the calls, the
\* failures that are left aside; time passes.  Nobody has to click.
JobsFairness == WF_jvars(Elapse) /\ \A c \in Calls : WF_jvars(Run(c))

-----------------------------------------------------------------------------
(* Properties; EveryRequestSettles of Lifecycle is the liveness of the jobs *)

\* "One nudge to both sides": the recipient of a request is reminded once, and
\* only about work under way.  A second reminder takes a pass killed between
\* the notice and the mark or two passes at once, and a reminder about other
\* than work under way takes a change between the query and the notice; the
\* mark alone, read without a lock, has to rule out everything else.
NudgedOnceInTime ==
  [][\A c \in Calls : NudgeOwner(c) =>
       /\ nudged => slipped
       /\ status = "in_progress" \/ ~fresh[c]]_jvars

NothingToDo == ~IsStale /\ ~ConfirmDue /\ ~RemindDue

EndOfCall(c) == ~NotCalled(c) /\ call'[c] = "expire" /\ failures' = failures

\* Running the jobs twice in a row changes nothing the second time, as tasks.py
\* asks: a call that nobody disturbed leaves nothing for the next to do.  It
\* does once: a team put to work by expire_overdue on a date a week past is
\* expired by the very next call.
CallLeavesNothingToDo ==
  [][\A c \in Calls : EndOfCall(c) /\ fresh[c] =>
       NothingToDo' \/ (status' = "in_progress" /\ IsStale' /\ reminded')]_jvars
=============================================================================
