------------------------------- MODULE Reports -------------------------------
(***************************************************************************)
(* The reports about one object and what moderators do about it             *)
(* (apps/moderation/services.py: file_report, dismiss_report,               *)
(* act_on_report).  Nothing here is locked and every query commits by       *)
(* itself: a decision is taken on the report as it was loaded, the measure  *)
(* is taken, then the report is saved, then the duplicates, then the        *)
(* reporter is told, and the worker can be killed between any two of these. *)
(*                                                                         *)
(* The measure against a user is in Departures in all its steps; here it    *)
(* has the three that act_on_report calls.                                  *)
(***************************************************************************)
EXTENDS Integers, Sequences, FiniteSets

CONSTANTS
  Reporters,
  Workers,     \* web workers
  MaxReports   \* bound of the model: reports that are filed

ASSUME ReportsAssumption ==
  IsFiniteSet(Reporters) /\ IsFiniteSet(Workers) /\ MaxReports \in Nat

VARIABLES
  kind,      \* what the object is
  taken,     \* steps of the measure that have been taken
  gone,      \* the object's row is deleted
  reports,   \* rows in the order they were filed
  work,      \* the request in each worker
  cut        \* ghost: closed reports whose worker was killed before the duplicates

vars == <<kind, taken, gone, reports, work, cut>>

\* content: a review or a message
Kinds == {"request", "user", "staff", "content"}

\* what act_on_report does to an object of each kind, in this order; staff and
\* demonstration accounts are protected
Measure(k) ==
  CASE k = "request" -> <<"cancel">>
    [] k = "content" -> <<"hide">>
    [] k = "user" -> <<"revoke", "deactivate", "close_open_work">>
    [] k = "staff" -> <<"never">>
Steps(k) == {Measure(k)[i] : i \in DOMAIN Measure(k)}

RStatuses == {"open", "resolved", "dismissed"}

Report == [by : Reporters, status : RStatuses]
Rows == 1 .. MaxReports

Idle == [step |-> "idle"]
Work ==
  {Idle}
    \cup [step : {"file"}, by : Reporters]
    \cup [step : {"measure"}, row : Rows, as : {"resolved"}, next : 1 .. 3]
    \cup [step : {"save", "duplicates", "tell"}, row : Rows, as : {"resolved", "dismissed"}]

TypeOK ==
  /\ kind \in Kinds
  /\ taken \subseteq Steps(kind)
  /\ gone \in BOOLEAN
  /\ reports \in UNION {[1 .. n -> Report] : n \in 0 .. MaxReports}
  /\ work \in [Workers -> Work]
  /\ cut \subseteq Rows

-----------------------------------------------------------------------------
(* Helpers *)

At(w, s) == work[w].step = s
Set(w, r) == work' = [work EXCEPT ![w] = r]
Rest(w, s) == [step |-> s, row |-> work[w].row, as |-> work[w].as]

OpenRows == {i \in DOMAIN reports : reports[i].status = "open"}
OpenBy(r) == {i \in OpenRows : reports[i].by = r}

Measured == taken = Steps(kind)

-----------------------------------------------------------------------------
(* The reporter *)

\* the page finds the object and the reporter may see it
ReportPage(w) ==
  /\ At(w, "idle")
  /\ ~gone
  /\ \E r \in Reporters : Set(w, [step |-> "file", by |-> r])
  /\ UNCHANGED <<kind, taken, gone, reports, cut>>

\* file_report: the row, or the IntegrityError of one_open_report_per_target
FileReport(w) ==
  /\ At(w, "file")
  /\ \/ /\ OpenBy(work[w].by) = {}
        /\ Len(reports) < MaxReports
        /\ reports' = Append(reports, [by |-> work[w].by, status |-> "open"])
     \/ OpenBy(work[w].by) # {} /\ UNCHANGED reports
  /\ Set(w, Idle)
  /\ UNCHANGED <<kind, taken, gone, cut>>

-----------------------------------------------------------------------------
(* The moderator *)

\* dismiss_report, up to _close_report
Dismiss(w) ==
  /\ At(w, "idle")
  /\ \E i \in OpenRows : Set(w, [step |-> "save", row |-> i, as |-> "dismissed"])
  /\ UNCHANGED <<kind, taken, gone, reports, cut>>

\* the report is closed first
ActClosingFirst(w) ==
  /\ At(w, "idle")
  /\ gone \/ kind # "staff"
  /\ \E i \in OpenRows : Set(w, [step |-> "save", row |-> i, as |-> "resolved"])
  /\ UNCHANGED <<kind, taken, gone, reports, cut>>

\* act_on_report loads the report and its target; a user who was not verified
\* when loaded is not revoked, and nothing is done about an object that is gone
Act(w) ==
  /\ At(w, "idle")
  /\ gone \/ kind # "staff"
  /\ \E i \in OpenRows :
       Set(w, IF gone THEN [step |-> "save", row |-> i, as |-> "resolved"]
              ELSE [step |-> "measure", row |-> i, as |-> "resolved",
                    next |-> IF kind = "user" /\ "revoke" \in taken THEN 2 ELSE 1])
  /\ UNCHANGED <<kind, taken, gone, reports, cut>>

\* one step of the measure; what is over already is over (TransitionError is
\* suppressed, hiding and blocking can be repeated)
TakeMeasure(w) ==
  LET n == work[w].next
  IN /\ At(w, "measure")
     /\ ~gone
     /\ taken' = taken \cup {Measure(kind)[n]}
     /\ Set(w, IF n = Len(Measure(kind)) THEN Rest(w, "save")
               ELSE [work[w] EXCEPT !.next = n + 1])
     /\ UNCHANGED <<kind, gone, reports, cut>>

\* _close_report: save() writes the row as it was loaded, but for the decision
CloseSave(w) ==
  /\ At(w, "save")
  /\ reports' = [reports EXCEPT ![work[w].row].status = work[w].as]
  /\ Set(w, Rest(w, "duplicates"))
  /\ UNCHANGED <<kind, taken, gone, cut>>

\* the object's other reports, whatever their status; or only this reporter's
DuplicatesAny(w) == DOMAIN reports
DuplicatesOwn(w) == OpenBy(reports[work[w].row].by)
Duplicates(w) == OpenRows

CloseDuplicates(w) ==
  /\ At(w, "duplicates")
  /\ reports' = [i \in DOMAIN reports |->
       IF i \in Duplicates(w) THEN [reports[i] EXCEPT !.status = work[w].as] ELSE reports[i]]
  /\ Set(w, Rest(w, "tell"))
  /\ UNCHANGED <<kind, taken, gone, cut>>

\* the notice is written for the report's reporter only
TellReporter(w) ==
  /\ At(w, "tell")
  /\ Set(w, Idle)
  /\ UNCHANGED <<kind, taken, gone, reports, cut>>

-----------------------------------------------------------------------------
(* The environment *)

\* an exception (a target gone under the measure) or a killed worker
Abort(w) ==
  /\ ~At(w, "idle")
  /\ Set(w, Idle)
  /\ cut' = IF At(w, "duplicates") THEN cut \cup {work[w].row} ELSE cut
  /\ UNCHANGED <<kind, taken, gone, reports>>

\* a request closes by itself, a user leaves, another moderator revokes
Ends ==
  /\ kind \in {"request", "user"}
  /\ \E s \in Steps(kind) : taken' = taken \cup {s}
  /\ UNCHANGED <<kind, gone, reports, work, cut>>

\* an administrator deletes the row
Delete ==
  /\ ~gone
  /\ gone' = TRUE
  /\ UNCHANGED <<kind, taken, reports, work, cut>>

-----------------------------------------------------------------------------

Init ==
  /\ kind \in Kinds
  /\ taken \in {{}, {"revoke"} \cap Steps(kind)}  \* a user may not be verified
  /\ gone = FALSE
  /\ reports = <<>>
  /\ work = [w \in Workers |-> Idle]
  /\ cut = {}

Decide(w) == Dismiss(w) \/ Act(w) \/ TakeMeasure(w) \/ CloseSave(w)
               \/ CloseDuplicates(w) \/ TellReporter(w)

Next ==
  \/ \E w \in Workers : ReportPage(w) \/ FileReport(w) \/ Decide(w) \/ Abort(w)
  \/ Ends \/ Delete

Spec == Init /\ [][Next]_vars

-----------------------------------------------------------------------------
(* Safety *)

\* A reporter reads "the moderator took measures" only when they were taken to
\* the end, although a kill between any two steps of the measure leaves the
\* report open and the object half-way; and never about a protected account.
ResolvedMeansMeasured ==
  \A i \in DOMAIN reports : reports[i].status = "resolved" => Measured \/ gone

\* A decision closes every report about the object that was in the queue: none is
\* left open behind a later one that was closed, unless the worker is between the
\* two queries or was killed there.
NoneLeftBehind ==
  \A i, j \in DOMAIN reports :
    j < i /\ reports[j].status = "open" /\ reports[i].status # "open" =>
      i \in cut \/ \E w \in Workers : At(w, "duplicates") /\ work[w].row = i

-----------------------------------------------------------------------------
(* What ReportDesk sees of it *)

\* Steps of the measure, pages and notices are not seen, only that the measure
\* is complete.
Outcomes ==
  [i \in Rows |-> IF i \in DOMAIN reports THEN reports[i].status ELSE "none"]
Deciding ==
  [w \in Workers |-> IF At(w, "measure") \/ At(w, "save") THEN work[w].row ELSE 0]
Closing ==
  [w \in Workers |-> IF At(w, "duplicates") THEN work[w].as ELSE "none"]

Desk == INSTANCE ReportDesk
  WITH Moderators <- Workers, None <- 0, outcome <- Outcomes,
       done <- (Measured \/ gone), decides <- Deciding, closes <- Closing

\* The reports keep the contract of ReportDesk: a closed report gets another
\* outcome only from somebody who had loaded it while it was open, closing the
\* duplicates of another report never does that, and both write "resolved" only
\* behind a measure that is complete (dismiss_report, act_on_report).
KeepsDesk == Desk!Spec
=============================================================================
