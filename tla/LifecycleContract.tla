------------------------- MODULE LifecycleContract -------------------------
(* Lifecycle seen through the eyes of its people: the refinement mapping    *)
(* under which it implements HelpContract.                                  *)
EXTENDS Lifecycle

StageOf(s) ==
  CASE s \in {"draft", "pending_moderation", "rejected"} -> "private"
    [] s = "active" -> "recruiting"
    [] s \in Working -> "working"
    [] s = "completed" -> "helped"
    [] s \in {"cancelled", "expired"} -> "over"

Stage == StageOf(status)

Gone == {v \in Volunteers : response[v] \in Answers \ {"accepted"}}

Contract == INSTANCE HelpContract
              WITH stage <- Stage, waiting <- Waiting, team <- Team, gone <- Gone

\* The request keeps the contract: every step of every service function is one
\* the people in it were promised, or one they do not notice.
KeepsContract == Contract!Spec
=============================================================================
