---------------------------- MODULE HelpContract ----------------------------
(***************************************************************************)
(* What a help request promises the people in it, whatever the workflow    *)
(* that keeps the promise: a volunteer offers help once and only while the *)
(* request recruits, nobody who offered is left without an answer when     *)
(* recruiting ends, the work is never left without a volunteer, and what   *)
(* is over stays over.  Lifecycle is shown to implement it.                *)
(***************************************************************************)
CONSTANT Volunteers

VARIABLES
  stage,    \* "private", "recruiting", "working", "helped" or "over"
  waiting,  \* volunteers who offered and were not answered
  team,     \* volunteers who were taken
  gone      \* volunteers who were declined, or left

vars == <<stage, waiting, team, gone>>

TypeOK ==
  /\ stage \in {"private", "recruiting", "working", "helped", "over"}
  /\ {waiting, team, gone} \subseteq SUBSET Volunteers

Init == stage = "private" /\ waiting = {} /\ team = {} /\ gone = {}

\* Whoever still waits is answered, but for those who are taken.
AnswerAll(taken) == waiting' = {} /\ gone' = gone \cup (waiting \ taken)

Show ==
  /\ stage = "private"
  /\ stage' = "recruiting"
  /\ UNCHANGED <<waiting, team, gone>>

Hide ==
  /\ stage = "recruiting"
  /\ stage' = "private"
  /\ UNCHANGED <<waiting, team, gone>>

Offer(v) ==
  /\ stage = "recruiting"
  /\ v \notin waiting \cup team \cup gone
  /\ waiting' = waiting \cup {v}
  /\ UNCHANGED <<stage, team, gone>>

Decline(v) ==
  /\ v \in waiting
  /\ waiting' = waiting \ {v}
  /\ gone' = gone \cup {v}
  /\ UNCHANGED <<stage, team>>

Take(v) ==
  /\ stage = "recruiting"
  /\ v \in waiting
  /\ team' = team \cup {v}
  /\ \/ waiting' = waiting \ {v} /\ UNCHANGED <<stage, gone>>
     \/ stage' = "working" /\ AnswerAll({v})

Start ==
  /\ stage = "recruiting"
  /\ team # {}
  /\ stage' = "working"
  /\ AnswerAll({})
  /\ UNCHANGED team

Leave(v) ==
  /\ stage \in {"recruiting", "working"}
  /\ v \in team
  /\ team' = team \ {v}
  /\ gone' = gone \cup {v}
  /\ stage' \in {"recruiting", stage}
  /\ team' = {} => stage' = "recruiting"
  /\ UNCHANGED waiting

Help ==
  /\ stage = "working"
  /\ stage' = "helped"
  /\ UNCHANGED <<waiting, team, gone>>

Drop ==
  /\ stage \in {"private", "recruiting", "working"}
  /\ stage' = "over"
  /\ AnswerAll({})
  /\ UNCHANGED team

Next ==
  \/ Show \/ Hide \/ Start \/ Help \/ Drop
  \/ \E v \in Volunteers : Offer(v) \/ Decline(v) \/ Take(v) \/ Leave(v)

Spec == Init /\ [][Next]_vars
=============================================================================
