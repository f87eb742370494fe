------------------------------ MODULE Reviews ------------------------------
(***************************************************************************)
(* The blind exchange of reviews after one completed request               *)
(* (apps/reviews/services.py).  A submission is one transaction that sees   *)
(* only what others have committed: it checks, looks for the other side's   *)
(* review and commits, with anything in between.  The jobs publish_due and  *)
(* send_review_reminders take no lock and no transaction: they read a list  *)
(* and go through it.  A cron call may come while an earlier one still runs.*)
(*                                                                         *)
(* The request is completed, so its team no longer changes (ClosedIsFinal   *)
(* of Lifecycle); reading a row twice, a double submission of one review    *)
(* fails on the unique constraint and changes nothing.                      *)
(***************************************************************************)
EXTENDS Integers, FiniteSets

CONSTANTS
  Volunteers,   \* accepted when the request was completed
  Owner,        \* its recipient
  Workers,      \* web workers that can run a cron call
  RemindAfter,  \* REMIND_AFTER (3 days)
  Window        \* REVIEW_WINDOW (14 days)

ASSUME ReviewsAssumption ==
  /\ IsFiniteSet(Volunteers)
  /\ Owner \notin Volunteers
  /\ RemindAfter \in Nat /\ Window \in Nat

VARIABLES
  review,    \* the committed Review of each pair: "none", "hidden", "published"
  submit,    \* the transaction of submit_review for the pair, by its next step
  notices,   \* NEW_REVIEW notifications about the pair's review (2 for more)
  reminded,  \* who has a REVIEW_REMINDER notification
  nudges,    \* reminders the job has sent to each person (2 for more)
  job,       \* what each worker's cron call has read and not yet done
  age,       \* time since completed_at
  raced,     \* ghost: pairs that looked for each other's review uncommitted
  ill        \* ghost: what befell the jobs

vars == <<review, submit, notices, reminded, nudges, job, age, raced, ill>>

People == Volunteers \cup {Owner}
Pairs == (Volunteers \X {Owner}) \cup ({Owner} \X Volunteers)
Author(p) == p[1]
Target(p) == p[2]
Reverse(p) == <<p[2], p[1]>>

AgeMax == Window + 1
NoJob == [step |-> "idle"]
Job ==
  {NoJob}
    \cup [step : {"publish"}, due : SUBSET Pairs, saved : SUBSET Pairs]
    \cup [step : {"remind"}, todo : SUBSET People]

TypeOK ==
  /\ review \in [Pairs -> {"none", "hidden", "published"}]
  /\ submit \in [Pairs -> {"idle", "open", "alone", "found"}]
  /\ notices \in [Pairs -> 0 .. 2]
  /\ reminded \in SUBSET People
  /\ nudges \in [People -> 0 .. 2]
  /\ job \in [Workers -> Job]
  /\ age \in 0 .. AgeMax
  /\ raced \in SUBSET Pairs
  /\ ill \in SUBSET {"killed", "overlapped"}

Capped(n) == IF n < 2 THEN n + 1 ELSE 2
Announce(ps) == notices' = [p \in Pairs |-> IF p \in ps THEN Capped(notices[p]) ELSE notices[p]]
Written(p) == review[p] # "none"

\* the window mistaken for the time to remind, or compared the wrong way round
DueEarly == age > RemindAfter
DueOpen == age <= Window
Due == age > Window

Init ==
  /\ review = [p \in Pairs |-> "none"]
  /\ submit = [p \in Pairs |-> "idle"]
  /\ notices = [p \in Pairs |-> 0]
  /\ reminded = {}
  /\ nudges = [u \in People |-> 0]
  /\ job = [w \in Workers |-> NoJob]
  /\ age = 0
  /\ raced = {}
  /\ ill = {}

-----------------------------------------------------------------------------
(* submit_review *)

\* review_error, with the clock read at the start
SubmitCheck(p) ==
  /\ submit[p] = "idle"
  /\ age <= Window
  /\ ~Written(p)
  /\ submit' = [submit EXCEPT ![p] = "open"]
  /\ UNCHANGED <<review, notices, reminded, nudges, job, age, raced, ill>>

\* the filter on published_at the wrong way round
CounterpartShown(p) == review[Reverse(p)] = "published"
Counterpart(p) == review[Reverse(p)] = "hidden"

\* the row is inserted and the other side's review looked for
SubmitMatch(p) ==
  LET q == Reverse(p)
  IN /\ submit[p] = "open"
     /\ submit' = [submit EXCEPT ![p] = IF Counterpart(p) THEN "found" ELSE "alone"]
     /\ raced' = raced \cup IF submit[q] = "alone" THEN {p, q} ELSE {}
     /\ UNCHANGED <<review, notices, reminded, nudges, job, age, ill>>

\* both become visible, or the other side is asked for its review
SubmitCommit(p) ==
  LET both == {p, Reverse(p)}
  IN /\ submit[p] \in {"alone", "found"}
     /\ submit' = [submit EXCEPT ![p] = "idle"]
     /\ \/ /\ submit[p] = "found"
           /\ review' = [q \in Pairs |-> IF q \in both THEN "published" ELSE review[q]]
           /\ Announce(both)
           /\ UNCHANGED reminded
        \/ /\ submit[p] = "alone"
           /\ review' = [review EXCEPT ![p] = "hidden"]
           /\ reminded' = reminded \cup {Target(p)}
           /\ UNCHANGED notices
     /\ UNCHANGED <<nudges, job, age, raced, ill>>

\* an error or a killed worker: the transaction is rolled back
SubmitRollback(p) ==
  /\ submit[p] # "idle"
  /\ submit' = [submit EXCEPT ![p] = "idle"]
  /\ UNCHANGED <<review, notices, reminded, nudges, job, age, raced, ill>>

-----------------------------------------------------------------------------
(* publish_due *)

Step(w) == job[w].step
Set(w, j) == job' = [job EXCEPT ![w] = j]

PublishList(w) ==
  /\ Step(w) = "idle"
  /\ Due
  /\ \E p \in Pairs : review[p] = "hidden"
  /\ Set(w, [step |-> "publish", due |-> {p \in Pairs : review[p] = "hidden"}, saved |-> {}])
  /\ UNCHANGED <<review, submit, notices, reminded, nudges, age, raced, ill>>

\* one bulk update, of which only one target is told
PublishSaveBulk(w) ==
  /\ Step(w) = "publish"
  /\ job[w].saved = {}
  /\ \E p \in job[w].due :
       /\ review' = [q \in Pairs |-> IF q \in job[w].due THEN "published" ELSE review[q]]
       /\ Set(w, [job[w] EXCEPT !.due = {}, !.saved = {p}])
  /\ UNCHANGED <<submit, notices, reminded, nudges, age, raced, ill>>

\* _publish saves a review, and tells its target
PublishSave(w) ==
  /\ Step(w) = "publish"
  /\ job[w].saved = {}
  /\ \E p \in job[w].due :
       /\ review' = [review EXCEPT ![p] = "published"]
       /\ Set(w, [job[w] EXCEPT !.due = @ \ {p}, !.saved = {p}])
  /\ UNCHANGED <<submit, notices, reminded, nudges, age, raced, ill>>

PublishNotify(w) ==
  /\ Step(w) = "publish"
  /\ job[w].saved # {}
  /\ Announce(job[w].saved)
  /\ Set(w, IF job[w].due = {} THEN NoJob ELSE [job[w] EXCEPT !.saved = {}])
  /\ UNCHANGED <<review, submit, reminded, nudges, age, raced, ill>>

-----------------------------------------------------------------------------
(* send_review_reminders *)

Missing(u) == \E p \in Pairs : Author(p) = u /\ ~Written(p)

ToRemindAgain == {u \in People : Missing(u)}
ToRemind == {u \in People : u \notin reminded /\ Missing(u)}

RemindList(w) ==
  /\ Step(w) = "idle"
  /\ age > RemindAfter /\ age <= Window
  /\ ToRemind # {}
  /\ Set(w, [step |-> "remind", todo |-> ToRemind])
  /\ ill' = ill \cup IF \E x \in Workers : Step(x) = "remind" THEN {"overlapped"} ELSE {}
  /\ UNCHANGED <<review, submit, notices, reminded, nudges, age, raced>>

RemindOne(w) ==
  /\ Step(w) = "remind"
  /\ \E u \in job[w].todo :
       /\ reminded' = reminded \cup {u}
       /\ nudges' = [nudges EXCEPT ![u] = Capped(@)]
       /\ Set(w, IF job[w].todo = {u} THEN NoJob ELSE [job[w] EXCEPT !.todo = @ \ {u}])
  /\ UNCHANGED <<review, submit, notices, age, raced, ill>>

\* gunicorn kills a worker after 60 seconds
Killed(w) ==
  /\ job[w] # NoJob
  /\ Set(w, NoJob)
  /\ ill' = ill \cup {"killed"}
  /\ UNCHANGED <<review, submit, notices, reminded, nudges, age, raced>>

Tick ==
  /\ age < AgeMax
  /\ age' = age + 1
  /\ UNCHANGED <<review, submit, notices, reminded, nudges, job, raced, ill>>

-----------------------------------------------------------------------------

SubmitStep(p) == SubmitCheck(p) \/ SubmitMatch(p) \/ SubmitCommit(p) \/ SubmitRollback(p)
JobStep(w) ==
  PublishList(w) \/ PublishSave(w) \/ PublishNotify(w) \/ RemindList(w) \/ RemindOne(w)
  \/ Killed(w)

Next == Tick \/ (\E p \in Pairs : SubmitStep(p)) \/ (\E w \in Workers : JobStep(w))

Spec == Init /\ [][Next]_vars

\* Time passes and cron calls come; the workers are not killed each and every
\* time they are about to save or to go on.
Fairness ==
  /\ WF_vars(Tick)
  /\ \A w \in Workers :
       WF_vars(PublishList(w)) /\ SF_vars(PublishSave(w)) /\ WF_vars(PublishNotify(w))
       /\ WF_vars(RemindOne(w))

FairSpec == Spec /\ Fairness

-----------------------------------------------------------------------------
(* Safety *)

\* A review can be seen only when the other side has written too or can no
\* longer write one (docs/adr/0006), whatever the jobs and the other
\* submissions do meanwhile.
BlindUntilExchanged ==
  \A p \in Pairs : review[p] = "published" => Written(Reverse(p)) \/ age > Window

\* Why the exchange is blind: a submission that goes to publish has found a
\* written review, and a job that publishes has seen the window close.
ExchangeInv ==
  /\ TypeOK
  /\ \A p \in Pairs : submit[p] = "found" => Written(Reverse(p))
  /\ \A w \in Workers : Step(w) = "publish" => age > Window
  /\ BlindUntilExchanged

\* Two reviews of a pair stay hidden from each other within the window only
\* when their transactions overlapped: otherwise the second one finds the first.
OnlyARaceHides ==
  \A p \in Pairs :
    Written(p) /\ Written(Reverse(p)) /\ review[p] = "hidden" => p \in raced \/ age > Window

\* A published review has been announced to its target, or a job is about to,
\* unless a worker died before it could; and it is announced a second time only
\* by a job after the window, never by the two sides alone.
EachAnnounced ==
  \A p \in Pairs :
    /\ notices[p] > 1 => age > Window
    /\ review[p] = "published" /\ notices[p] = 0
         => "killed" \in ill \/ \E w \in Workers : Step(w) = "publish" /\ p \in job[w].saved

\* Nobody is reminded twice, also when a call was killed half-way and the next
\* one went on, but by cron calls that overlap.
NudgedOnce == "overlapped" \notin ill => \A u \in People : nudges[u] <= 1

-----------------------------------------------------------------------------
(* Refinement of BlindExchange *)

Contract == INSTANCE BlindExchange
              WITH writing <- {p \in Pairs : submit[p] # "idle"},
                   hidden <- {p \in Pairs : review[p] = "hidden"},
                   shown <- {p \in Pairs : review[p] = "published"},
                   over <- age > Window

\* However the submissions and the cron calls interleave, and wherever they
\* die, every step is one of BlindExchange or changes no review: until the
\* window has closed two reviews become visible together, and nobody begins one
\* with the other side's in view.
KeepsExchange == Contract!Spec

-----------------------------------------------------------------------------
(* Liveness *)

\* Every review is shown in the end, also one that missed its counterpart.
EveryReviewShows ==
  \A p \in Pairs : (review[p] = "hidden") ~> (review[p] = "published")
=============================================================================
