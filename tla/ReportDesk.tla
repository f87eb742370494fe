------------------------------ MODULE ReportDesk ------------------------------
(***************************************************************************)
(* What the reports about one object promise, whoever decides at the same  *)
(* time: a report is ruled on by somebody who took it while it was open,   *)
(* or closed while it is open along with another; only a measure that was  *)
(* taken to the end is ever reported as taken; and no report is opened     *)
(* again.  Reports is shown to implement it.                               *)
(***************************************************************************)
CONSTANTS
  Moderators,
  Rows,   \* the reports
  None

VARIABLES
  outcome,  \* what became of each report
  done,     \* the measure was taken to the end, or there is no object left
  decides,  \* the report each moderator is deciding
  closes    \* the verdict to close the other reports with, or "none"

vars == <<outcome, done, decides, closes>>

Verdicts == {"resolved", "dismissed"}
Open == {i \in Rows : outcome[i] = "open"}
May(v) == v = "resolved" => done

Init ==
  /\ outcome = [i \in Rows |-> "none"]
  /\ done = FALSE
  /\ decides = [m \in Moderators |-> None]
  /\ closes = [m \in Moderators |-> "none"]

File(i) ==
  /\ outcome[i] = "none"
  /\ outcome' = [outcome EXCEPT ![i] = "open"]
  /\ UNCHANGED <<done, decides, closes>>

Finish ==
  /\ done' = TRUE
  /\ UNCHANGED <<outcome, decides, closes>>

Take(m, i) ==
  /\ i \in Open
  /\ decides' = [decides EXCEPT ![m] = i]
  /\ UNCHANGED <<outcome, done, closes>>

Rule(m, v) ==
  /\ decides[m] # None
  /\ May(v)
  /\ outcome' = [outcome EXCEPT ![decides[m]] = v]
  /\ decides' = [decides EXCEPT ![m] = None]
  /\ closes' = [closes EXCEPT ![m] = v]
  /\ UNCHANGED done

CloseOthers(m) ==
  /\ closes[m] # "none"
  /\ May(closes[m])
  /\ outcome' = [i \in Rows |-> IF i \in Open THEN closes[m] ELSE outcome[i]]
  /\ closes' = [closes EXCEPT ![m] = "none"]
  /\ UNCHANGED <<done, decides>>

\* The moderator's worker is gone.
Drop(m) ==
  /\ decides' = [decides EXCEPT ![m] = None]
  /\ closes' = [closes EXCEPT ![m] = "none"]
  /\ UNCHANGED <<outcome, done>>

Next ==
  \/ Finish
  \/ \E i \in Rows : File(i)
  \/ \E m \in Moderators :
       \/ CloseOthers(m) \/ Drop(m)
       \/ \E i \in Rows : Take(m, i)
       \/ \E v \in Verdicts : Rule(m, v)

Spec == Init /\ [][Next]_vars
=============================================================================
