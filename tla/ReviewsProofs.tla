--------------------------- MODULE ReviewsProofs ---------------------------
(***************************************************************************)
(* The exchange of reviews is blind for any number of volunteers and of    *)
(* overlapping cron calls, and for any window.  ExchangeInv is inductive as *)
(* it stands: visibility alone is not, since what the commit of a           *)
(* submission or a job publishes was decided when it looked.                *)
(***************************************************************************)
EXTENDS Reviews, TLAPS

\* Turning a pair around twice gives the pair.
LEMMA ReverseOfPair ==
  ASSUME NEW p \in Pairs
  PROVE  Reverse(p) \in Pairs /\ Reverse(Reverse(p)) = p /\ Target(p) \in People
BY DEF Pairs, Reverse, Target, People

LEMMA InitExchange == Init => ExchangeInv
<1> SUFFICES ASSUME Init PROVE ExchangeInv
  OBVIOUS
<1>1. TypeOK
  <2>1. 0 \in 0 .. AgeMax
    BY ReviewsAssumption DEF AgeMax
  <2>2. NoJob \in Job
    BY DEF Job
  <2>3. notices \in [Pairs -> 0 .. 2] /\ nudges \in [People -> 0 .. 2]
    BY DEF Init
  <2>4. /\ review \in [Pairs -> {"none", "hidden", "published"}]
        /\ submit \in [Pairs -> {"idle", "open", "alone", "found"}]
        /\ job \in [Workers -> Job]
    BY <2>2 DEF Init
  <2>5. reminded \in SUBSET People /\ raced \in SUBSET Pairs /\ ill \in SUBSET {"killed", "overlapped"}
    BY DEF Init
  <2> QED
    BY <2>1, <2>3, <2>4, <2>5 DEF Init, TypeOK
<1> QED
  BY <1>1 DEF Init, ExchangeInv, BlindUntilExchanged, Step, NoJob

LEMMA CappedType == \A n \in 0 .. 2 : Capped(n) \in 0 .. 2
BY DEF Capped

LEMMA AnnounceType ==
  ASSUME TypeOK, NEW ps, Announce(ps)
  PROVE  notices' \in [Pairs -> 0 .. 2]
BY CappedType DEF TypeOK, Announce

-----------------------------------------------------------------------------
(* Submissions *)

LEMMA SubmitInv ==
  ASSUME ExchangeInv, NEW p \in Pairs, SubmitStep(p)
  PROVE  ExchangeInv'
<1> DEFINE q == Reverse(p)
<1> USE DEF ExchangeInv, BlindUntilExchanged
<1>q. q \in Pairs /\ Reverse(q) = p /\ Target(p) \in People
  BY ReverseOfPair
<1>t. TypeOK
  OBVIOUS
<1>1. CASE SubmitCheck(p)
  <2>1. TypeOK'
    BY <1>1, <1>t DEF SubmitCheck, TypeOK
  <2> QED
    BY <1>1, <1>t, <2>1, ReverseOfPair DEF SubmitCheck, TypeOK, Written, Step
<1>2. CASE SubmitMatch(p)
  <2>1. TypeOK'
    BY <1>2, <1>t, <1>q DEF SubmitMatch, TypeOK
  <2>2. \A r \in Pairs : submit'[r] = "found" => Written(Reverse(r))
    BY <1>2, <1>t DEF SubmitMatch, TypeOK, Counterpart, Written
  <2> QED
    BY <1>2, <2>1, <2>2 DEF SubmitMatch, Written, Step
<1>3. CASE SubmitCommit(p)
  <2>1. CASE submit[p] = "found"
    <3>1. review' = [r \in Pairs |-> IF r \in {p, q} THEN "published" ELSE review[r]]
      BY <1>3, <2>1 DEF SubmitCommit
    <3>2. TypeOK'
      <4>1. notices' \in [Pairs -> 0 .. 2]
        BY <1>3, <1>t, <2>1, AnnounceType DEF SubmitCommit
      <4> QED
        BY <1>3, <1>t, <2>1, <3>1, <4>1 DEF SubmitCommit, TypeOK
    <3>3. \A r \in Pairs : Written(r) => review'[r] # "none"
      BY <3>1 DEF Written
    <3>4. \A r \in Pairs : submit'[r] = "found" => Written(Reverse(r))'
      BY <1>3, <1>t, <3>3, ReverseOfPair DEF SubmitCommit, TypeOK, Written
    <3>5. \A r \in Pairs : review'[r] = "published" => Written(Reverse(r))' \/ age' > Window
      <4> TAKE r \in Pairs
      <4>1. CASE r \in {p, q}
        <5>1. Reverse(r) \in {p, q} /\ Reverse(r) \in Pairs
          BY <4>1, <1>q
        <5> QED
          BY <3>1, <5>1 DEF Written
      <4>2. CASE r \notin {p, q}
        <5>1. review'[r] = review[r]
          BY <3>1, <4>2
        <5>2. Reverse(r) \in Pairs
          BY ReverseOfPair
        <5>3. age' = age
          BY <1>3 DEF SubmitCommit
        <5> QED
          BY <3>3, <5>1, <5>2, <5>3 DEF Written
      <4> QED
        BY <4>1, <4>2
    <3> QED
      BY <1>3, <3>2, <3>4, <3>5 DEF SubmitCommit, Step
  <2>2. CASE submit[p] = "alone"
    <3>1. review' = [review EXCEPT ![p] = "hidden"]
      BY <1>3, <2>2 DEF SubmitCommit
    <3>2. TypeOK'
      BY <1>3, <1>t, <2>2, <3>1, <1>q DEF SubmitCommit, TypeOK
    <3>3. \A r \in Pairs : Written(r) => Written(r)'
      BY <1>t, <3>1 DEF Written, TypeOK
    <3>4. \A r \in Pairs : submit'[r] = "found" => Written(Reverse(r))'
      BY <1>3, <1>t, <3>3, ReverseOfPair DEF SubmitCommit, TypeOK
    <3>5. \A r \in Pairs : review'[r] = "published" => review[r] = "published"
      BY <1>t, <3>1 DEF TypeOK
    <3> QED
      BY <1>3, <3>2, <3>3, <3>4, <3>5, ReverseOfPair DEF SubmitCommit, Step
  <2> QED
    BY <1>3, <2>1, <2>2 DEF SubmitCommit
<1>4. CASE SubmitRollback(p)
  <2>1. TypeOK'
    BY <1>4, <1>t DEF SubmitRollback, TypeOK
  <2> QED
    BY <1>4, <1>t, <2>1 DEF SubmitRollback, TypeOK, Written, Step
<1> QED
  BY <1>1, <1>2, <1>3, <1>4 DEF SubmitStep

-----------------------------------------------------------------------------
(* Jobs *)

LEMMA JobInv ==
  ASSUME ExchangeInv, NEW w \in Workers, JobStep(w)
  PROVE  ExchangeInv'
<1> USE DEF ExchangeInv, BlindUntilExchanged
<1>t. TypeOK
  OBVIOUS
<1>j. job[w] \in Job
  BY DEF TypeOK
<1>1. CASE PublishList(w)
  <2>1. TypeOK'
    BY <1>1, <1>t DEF PublishList, Set, TypeOK, Job
  <2> QED
    BY <1>1, <1>t, <2>1 DEF PublishList, Set, TypeOK, Written, Step, Due
<1>2. CASE PublishSave(w)
  <2>1. PICK p \in job[w].due :
          /\ review' = [review EXCEPT ![p] = "published"]
          /\ Set(w, [job[w] EXCEPT !.due = @ \ {p}, !.saved = {p}])
    BY <1>2 DEF PublishSave
  <2>2. job[w] \in [step : {"publish"}, due : SUBSET Pairs, saved : SUBSET Pairs]
    BY <1>2, <1>j DEF PublishSave, Step, Job, NoJob
  <2>3. p \in Pairs
    BY <2>1, <2>2
  <2>4. [job[w] EXCEPT !.due = @ \ {p}, !.saved = {p}] \in Job
    BY <2>2, <2>3 DEF Job
  <2>5. TypeOK'
    BY <1>2, <1>t, <2>1, <2>3, <2>4 DEF PublishSave, Set, TypeOK
  <2>6. age > Window
    BY <1>2 DEF PublishSave
  <2>7. \A r \in Pairs : Written(r) => Written(r)'
    BY <1>t, <2>1 DEF Written, TypeOK
  <2> QED
    BY <1>2, <2>5, <2>6, <2>7, ReverseOfPair DEF PublishSave, Step
<1>3. CASE PublishNotify(w)
  <2>1. job[w] \in [step : {"publish"}, due : SUBSET Pairs, saved : SUBSET Pairs]
    BY <1>3, <1>j DEF PublishNotify, Step, Job, NoJob
  <2>2. [job[w] EXCEPT !.saved = {}] \in Job /\ NoJob \in Job
    BY <2>1 DEF Job
  <2>3. notices' \in [Pairs -> 0 .. 2]
    BY <1>3, <1>t, AnnounceType DEF PublishNotify
  <2>4. TypeOK'
    BY <1>3, <1>t, <2>2, <2>3 DEF PublishNotify, Set, TypeOK
  <2>5. age > Window
    BY <1>3 DEF PublishNotify
  <2> QED
    BY <1>3, <2>4, <2>5 DEF PublishNotify, Written, Step
<1>4. CASE RemindList(w)
  <2>1. TypeOK'
    BY <1>4, <1>t DEF RemindList, Set, TypeOK, Job, ToRemind
  <2> QED
    BY <1>4, <1>t, <2>1 DEF RemindList, Set, TypeOK, Written, Step
<1>5. CASE RemindOne(w)
  <2>1. job[w] \in [step : {"remind"}, todo : SUBSET People]
    BY <1>5, <1>j DEF RemindOne, Step, Job, NoJob
  <2>2. PICK u \in job[w].todo :
          /\ reminded' = reminded \cup {u}
          /\ nudges' = [nudges EXCEPT ![u] = Capped(@)]
          /\ Set(w, IF job[w].todo = {u} THEN NoJob ELSE [job[w] EXCEPT !.todo = @ \ {u}])
    BY <1>5 DEF RemindOne
  <2>3. [job[w] EXCEPT !.todo = @ \ {u}] \in Job /\ NoJob \in Job
    BY <2>1 DEF Job
  <2>4. u \in People /\ Capped(nudges[u]) \in 0 .. 2
    BY <1>t, <2>1, <2>2, CappedType DEF TypeOK
  <2>5. TypeOK'
    BY <1>5, <1>t, <2>2, <2>3, <2>4 DEF RemindOne, Set, TypeOK
  <2>6. \A x \in Workers : job'[x].step = "publish" => job[x].step = "publish"
    BY <1>t, <2>1, <2>2 DEF Set, NoJob, TypeOK
  <2> QED
    BY <1>5, <2>5, <2>6 DEF RemindOne, Written, Step
<1>6. CASE Killed(w)
  <2>1. TypeOK'
    BY <1>6, <1>t DEF Killed, Set, TypeOK, Job
  <2>2. \A x \in Workers : job'[x].step = "publish" => job[x].step = "publish"
    BY <1>6, <1>t DEF Killed, Set, NoJob, TypeOK
  <2> QED
    BY <1>6, <2>1, <2>2 DEF Killed, Written, Step
<1> QED
  BY <1>1, <1>2, <1>3, <1>4, <1>5, <1>6 DEF JobStep

LEMMA TickInv == ASSUME ExchangeInv, Tick PROVE ExchangeInv'
<1>1. age' = age + 1 /\ age' \in 0 .. AgeMax
  BY ReviewsAssumption DEF ExchangeInv, TypeOK, Tick, AgeMax
<1>2. TypeOK'
  BY <1>1 DEF ExchangeInv, TypeOK, Tick
<1>3. age > Window => age' > Window
  BY <1>1, ReviewsAssumption DEF ExchangeInv, TypeOK, AgeMax
<1> QED
  BY <1>2, <1>3 DEF ExchangeInv, BlindUntilExchanged, Tick, Written, Step

LEMMA NextExchange == ExchangeInv /\ [Next]_vars => ExchangeInv'
<1> SUFFICES ASSUME ExchangeInv, [Next]_vars PROVE ExchangeInv'
  OBVIOUS
<1>1. CASE Tick
  BY <1>1, TickInv
<1>2. CASE \E p \in Pairs : SubmitStep(p)
  BY <1>2, SubmitInv
<1>3. CASE \E w \in Workers : JobStep(w)
  BY <1>3, JobInv
<1>4. CASE UNCHANGED vars
  BY <1>4
  DEF vars, ExchangeInv, TypeOK, BlindUntilExchanged, Written, Step
<1> QED
  BY <1>1, <1>2, <1>3, <1>4 DEF Next

-----------------------------------------------------------------------------

\* The inductive invariant of the exchange holds for any number of volunteers,
\* workers and days (submit_review, publish_due).
THEOREM ExchangeHolds == Spec => []ExchangeInv
<1> QED
  BY InitExchange, NextExchange, PTL DEF Spec

\* Every variable of the exchange keeps its type.
THEOREM ReviewsTyped == Spec => []TypeOK
BY ExchangeHolds, PTL DEF ExchangeInv

\* No review is visible before the other side has written one or can no longer
\* do so (docs/adr/0006).
THEOREM ExchangeIsBlind == Spec => []BlindUntilExchanged
BY ExchangeHolds, PTL DEF ExchangeInv

-----------------------------------------------------------------------------
(* What the other properties rest on *)

\* Nobody has a submission in hand for a review that is written, one that goes
\* to publish within the window has found a hidden review, and a job goes
\* through written reviews, the one it has saved being visible.
Handled ==
  /\ \A p \in Pairs :
       /\ submit[p] # "idle" => ~Written(p)
       /\ submit[p] = "found" /\ age <= Window => review[Reverse(p)] = "hidden"
  /\ \A w \in Workers : Step(w) = "publish" =>
       /\ \A p \in job[w].due : Written(p)
       /\ \A p \in job[w].saved : review[p] = "published"

\* What is announced is visible, and what is visible is announced or will be.
Told ==
  /\ \A p \in Pairs : review[p] # "published" => notices[p] = 0
  /\ EachAnnounced

\* Two submissions that miss each other have looked uncommitted.
Missed ==
  /\ \A p \in Pairs :
       submit[p] = "alone" /\ (submit[Reverse(p)] = "alone" \/ Written(Reverse(p)))
         => {p, Reverse(p)} \subseteq raced \/ age > Window
  /\ OnlyARaceHides

\* Without overlaps one call at a time goes through a list, of people it has not
\* reminded; whoever was reminded is marked.
OneRound ==
  "overlapped" \notin ill =>
    /\ \A x, y \in Workers : Step(x) = "remind" /\ Step(y) = "remind" => x = y
    /\ \A u \in People : nudges[u] <= 1 /\ (u \notin reminded => nudges[u] = 0)
    /\ \A w \in Workers : Step(w) = "remind" => \A u \in job[w].todo : nudges[u] = 0

ReviewsInv == ExchangeInv /\ Handled /\ Told /\ Missed /\ OneRound

LEMMA InitReviews == Init => ReviewsInv
<1> SUFFICES ASSUME Init PROVE ReviewsInv
  OBVIOUS
<1>1. ExchangeInv
  BY InitExchange
<1>2. \A p \in Pairs : ~Written(p) /\ submit[p] = "idle" /\ notices[p] = 0
  BY DEF Init, Written
<1>3. \A w \in Workers : Step(w) = "idle"
  BY DEF Init, Step, NoJob
<1>4. OneRound
  BY <1>3 DEF OneRound, Init
<1> QED
  BY <1>1, <1>2, <1>3, <1>4
  DEF ReviewsInv, Handled, Told, EachAnnounced, Missed, OnlyARaceHides, Written

-----------------------------------------------------------------------------
(* What the steps do to the reviews and to the jobs *)

\* A commit publishes both reviews of the pair or hides its own, and leaves the
\* other pairs alone.
LEMMA CommitEffect ==
  ASSUME TypeOK, NEW p \in Pairs, SubmitCommit(p)
  PROVE  /\ submit'[p] = "idle" /\ \A r \in Pairs \ {p} : submit'[r] = submit[r]
         /\ \A r \in Pairs \ {p, Reverse(p)} : review'[r] = review[r] /\ notices'[r] = notices[r]
         /\ \/ /\ submit[p] = "found"
               /\ \A r \in {p, Reverse(p)} \cap Pairs :
                    review'[r] = "published" /\ notices'[r] = Capped(notices[r])
            \/ /\ submit[p] = "alone" /\ review'[p] = "hidden"
               /\ review'[Reverse(p)] = review[Reverse(p)] /\ notices' = notices
         /\ UNCHANGED <<nudges, job, age, raced, ill>> /\ reminded \subseteq reminded'
<1>1. Reverse(p) \in Pairs /\ p # Reverse(p)
  BY ReviewsAssumption DEF Pairs, Reverse
<1> QED
  BY <1>1 DEF TypeOK, SubmitCommit, Announce

LEMMA JobMove ==
  ASSUME TypeOK, NEW w \in Workers, NEW j, Set(w, j)
  PROVE  job'[w] = j /\ \A x \in Workers \ {w} : job'[x] = job[x]
BY DEF TypeOK, Set

LEMMA PublishSaveEffect ==
  ASSUME TypeOK, NEW w \in Workers, PublishSave(w)
  PROVE  \E p \in Pairs :
           /\ p \in job[w].due /\ job[w].saved = {}
           /\ review'[p] = "published" /\ \A r \in Pairs \ {p} : review'[r] = review[r]
           /\ job'[w].step = "publish" /\ job'[w].due = job[w].due \ {p} /\ job'[w].saved = {p}
<1>1. job[w] \in [step : {"publish"}, due : SUBSET Pairs, saved : SUBSET Pairs]
  BY DEF TypeOK, PublishSave, Step, Job, NoJob
<1>2. PICK p \in job[w].due : /\ review' = [review EXCEPT ![p] = "published"]
                              /\ Set(w, [job[w] EXCEPT !.due = @ \ {p}, !.saved = {p}])
  BY DEF PublishSave
<1>3. p \in Pairs /\ job'[w] = [job[w] EXCEPT !.due = @ \ {p}, !.saved = {p}]
  BY <1>1, <1>2, JobMove
<1> QED
  BY <1>1, <1>2, <1>3 DEF TypeOK, PublishSave

LEMMA PublishNotifyEffect ==
  ASSUME TypeOK, NEW w \in Workers, PublishNotify(w)
  PROVE  /\ \A p \in Pairs : notices'[p] = IF p \in job[w].saved THEN Capped(notices[p])
                                           ELSE notices[p]
         /\ job'[w].step \in {"idle", "publish"}
         /\ job'[w].step = "publish" => job'[w].due = job[w].due /\ job'[w].saved = {}
<1>1. job[w] \in [step : {"publish"}, due : SUBSET Pairs, saved : SUBSET Pairs]
  BY DEF TypeOK, PublishNotify, Step, Job, NoJob
<1>2. job'[w] = IF job[w].due = {} THEN NoJob ELSE [job[w] EXCEPT !.saved = {}]
  BY JobMove DEF PublishNotify
<1> QED
  BY <1>1, <1>2 DEF PublishNotify, Announce, NoJob

LEMMA RemindOneEffect ==
  ASSUME TypeOK, NEW w \in Workers, RemindOne(w)
  PROVE  \E u \in People :
           /\ u \in job[w].todo /\ reminded' = reminded \cup {u}
           /\ nudges'[u] = Capped(nudges[u]) /\ \A v \in People \ {u} : nudges'[v] = nudges[v]
           /\ job'[w].step \in {"idle", "remind"}
           /\ job'[w].step = "remind" => job'[w].todo = job[w].todo \ {u}
<1>1. job[w] \in [step : {"remind"}, todo : SUBSET People]
  BY DEF TypeOK, RemindOne, Step, Job, NoJob
<1>2. PICK u \in job[w].todo :
        /\ reminded' = reminded \cup {u}
        /\ nudges' = [nudges EXCEPT ![u] = Capped(@)]
        /\ Set(w, IF job[w].todo = {u} THEN NoJob ELSE [job[w] EXCEPT !.todo = @ \ {u}])
  BY DEF RemindOne
<1>3. job'[w] = IF job[w].todo = {u} THEN NoJob ELSE [job[w] EXCEPT !.todo = @ \ {u}]
  BY <1>2, JobMove
<1> QED
  BY <1>1, <1>2, <1>3 DEF TypeOK, NoJob

\* The steps about reminders alone: the reviews are not touched, and no worker
\* takes up publishing.
LEMMA ReminderStep ==
  ASSUME TypeOK, NEW w \in Workers, RemindList(w) \/ RemindOne(w)
  PROVE  /\ UNCHANGED <<review, submit, notices, age, raced>> /\ ill \subseteq ill'
         /\ job[w].step # "publish" /\ job'[w].step # "publish"
         /\ \A x \in Workers \ {w} : job'[x] = job[x]
<1>1. CASE RemindList(w)
  <2>1. job'[w] = [step |-> "remind", todo |-> ToRemind]
        /\ \A x \in Workers \ {w} : job'[x] = job[x]
    BY <1>1, JobMove DEF RemindList
  <2> QED
    BY <1>1, <2>1 DEF RemindList, Step
<1>2. CASE RemindOne(w)
  <2>1. \A x \in Workers \ {w} : job'[x] = job[x]
    BY <1>2, JobMove DEF RemindOne
  <2> QED
    BY <1>2, <2>1, RemindOneEffect DEF RemindOne, Step
<1> QED
  BY <1>1, <1>2

LEMMA KilledEffect ==
  ASSUME TypeOK, NEW w \in Workers, Killed(w)
  PROVE  /\ UNCHANGED <<review, submit, notices, reminded, nudges, age, raced>>
         /\ ill' = ill \cup {"killed"} /\ job'[w].step = "idle"
         /\ \A x \in Workers \ {w} : job'[x] = job[x]
BY JobMove DEF Killed, NoJob

LEMMA ClockEffect ==
  ASSUME TypeOK, Tick
  PROVE  /\ UNCHANGED <<review, submit, notices, reminded, nudges, job, raced, ill>>
         /\ age > Window => age' > Window
BY ReviewsAssumption DEF TypeOK, Tick, AgeMax

-----------------------------------------------------------------------------
(* Every step keeps the four                                                 *)

\* With nothing of the reviews and no publishing job changed, Handled stays.
LEMMA SameHandled ==
  ASSUME Handled, UNCHANGED <<review, submit>>, age > Window => age' > Window,
         TypeOK, TypeOK',
         \A w \in Workers : job'[w].step = "publish" => job'[w] = job[w]
  PROVE  Handled'
<1>1. age' <= Window => age <= Window
  BY ReviewsAssumption DEF TypeOK, AgeMax
<1> QED
  BY <1>1 DEF Handled, Written, Step

LEMMA HandledKept == ASSUME ReviewsInv, [Next]_vars PROVE Handled'
<1>t. TypeOK /\ TypeOK' /\ Handled /\ ExchangeInv
  BY NextExchange DEF ReviewsInv, ExchangeInv
<1>1. ASSUME NEW p \in Pairs, SubmitCheck(p) \/ SubmitRollback(p) PROVE Handled'
  BY <1>1, <1>t DEF SubmitCheck, SubmitRollback, TypeOK, Handled, Written, Step
<1>2. ASSUME NEW p \in Pairs, SubmitMatch(p) PROVE Handled'
  BY <1>2, <1>t DEF SubmitMatch, Counterpart, TypeOK, Handled, Written, Step
<1>3. ASSUME NEW p \in Pairs, SubmitCommit(p) PROVE Handled'
  <2> DEFINE q == Reverse(p)
  <2>q. q \in Pairs /\ Reverse(q) = p /\ \A r \in Pairs : Reverse(r) \in Pairs /\ Reverse(Reverse(r)) = r
    BY ReverseOfPair
  <2>e. /\ submit'[p] = "idle" /\ \A r \in Pairs \ {p} : submit'[r] = submit[r]
        /\ \A r \in Pairs \ {p, q} : review'[r] = review[r]
        /\ \/ submit[p] = "found" /\ review'[p] = "published" /\ review'[q] = "published"
           \/ submit[p] = "alone" /\ review'[p] = "hidden" /\ review'[q] = review[q]
        /\ UNCHANGED <<job, age>>
    BY <1>3, <1>t, <2>q, CommitEffect
  <2>1. ~Written(p)
    BY <1>t, <2>e DEF Handled
  <2>2. submit[p] = "found" => submit[q] = "idle"
    BY <1>t, <2>q DEF ExchangeInv, Handled
  <2>3. ASSUME NEW r \in Pairs, submit'[r] # "idle" PROVE ~Written(r)'
    BY <1>t, <2>e, <2>2, <2>3 DEF Handled, Written
  <2>4. ASSUME NEW r \in Pairs, submit'[r] = "found", age' <= Window
        PROVE  review'[Reverse(r)] = "hidden"
    <3>1. r # p /\ submit[r] = "found" /\ age <= Window
      BY <2>e, <2>4
    <3>2. review[Reverse(r)] = "hidden"
      BY <1>t, <3>1 DEF Handled
    <3>3. Reverse(r) # p
      BY <2>1, <3>2 DEF Written
    <3>4. Reverse(r) # q
      BY <2>q, <3>1
    <3> QED
      BY <2>e, <2>q, <3>2, <3>3, <3>4
  <2>5. ASSUME NEW r \in Pairs PROVE /\ Written(r) => Written(r)'
                                     /\ review[r] = "published" => review'[r] = "published"
    BY <2>1, <2>e DEF Written
  <2>6. \A w \in Workers : job[w].step = "publish" =>
          job[w].due \subseteq Pairs /\ job[w].saved \subseteq Pairs
    BY <1>t DEF TypeOK, Job, NoJob
  <2> QED
    BY <1>t, <2>3, <2>4, <2>5, <2>6, <2>e DEF Handled, Step
<1>4. ASSUME NEW w \in Workers, PublishList(w) PROVE Handled'
  <2>1. job'[w].due = {p \in Pairs : review[p] = "hidden"} /\ job'[w].saved = {}
        /\ \A x \in Workers \ {w} : job'[x] = job[x]
    BY <1>4, <1>t, JobMove DEF PublishList
  <2> QED
    BY <1>4, <1>t, <2>1 DEF PublishList, Handled, Written, Step
<1>5. ASSUME NEW w \in Workers, PublishSave(w) PROVE Handled'
  <2>1. PICK p \in Pairs :
          /\ p \in job[w].due
          /\ review'[p] = "published" /\ \A r \in Pairs \ {p} : review'[r] = review[r]
          /\ job'[w].due = job[w].due \ {p} /\ job'[w].saved = {p}
    BY <1>5, <1>t, PublishSaveEffect
  <2>2. \A x \in Workers \ {w} : job'[x] = job[x]
    BY <1>5, <1>t, JobMove DEF PublishSave
  <2>3. age > Window /\ Written(p) /\ submit[p] = "idle" /\ UNCHANGED <<submit, age>>
    BY <1>5, <1>t, <2>1 DEF PublishSave, ExchangeInv, Handled
  <2>4. \A x \in Workers : job[x].step = "publish" =>
          job[x].due \subseteq Pairs /\ job[x].saved \subseteq Pairs
    BY <1>t DEF TypeOK, Job, NoJob
  <2>5. job[w].step = "publish"
    BY <1>5 DEF PublishSave, Step
  <2>6. \A r \in Pairs : Written(r) => Written(r)'
    BY <2>1 DEF Written
  <2>7. age \in Nat /\ Window \in Nat
    BY <1>t, ReviewsAssumption DEF TypeOK, AgeMax
  <2>8. \A x \in Workers : Step(x)' = "publish" =>
          /\ \A r \in job'[x].due : Written(r)'
          /\ \A r \in job'[x].saved : review'[r] = "published"
    BY <1>t, <2>1, <2>2, <2>4, <2>5, <2>6 DEF Handled, Step
  <2> QED
    BY <1>t, <2>1, <2>3, <2>7, <2>8 DEF Handled, Written
<1>6. ASSUME NEW w \in Workers, PublishNotify(w) PROVE Handled'
  <2>1. \A x \in Workers \ {w} : job'[x] = job[x]
    BY <1>6, <1>t, JobMove DEF PublishNotify
  <2>2. job'[w].step = "publish" => job'[w].due = job[w].due /\ job'[w].saved = {}
    BY <1>6, <1>t, PublishNotifyEffect
  <2> QED
    BY <1>6, <1>t, <2>1, <2>2 DEF PublishNotify, Handled, Written, Step
<1>7. ASSUME NEW w \in Workers, RemindList(w) \/ RemindOne(w) \/ Killed(w) PROVE Handled'
  <2>1. /\ UNCHANGED <<review, submit, age>>
        /\ \A x \in Workers : job'[x].step = "publish" => job'[x] = job[x]
    BY <1>7, <1>t, ReminderStep, KilledEffect
  <2> QED
    BY <1>t, <2>1, SameHandled
<1>8. CASE Tick
  BY <1>8, <1>t, ClockEffect, SameHandled
<1>9. CASE UNCHANGED vars
  BY <1>9, <1>t, SameHandled DEF vars
<1> QED
  BY <1>1, <1>2, <1>3, <1>4, <1>5, <1>6, <1>7, <1>8, <1>9 DEF Next, SubmitStep, JobStep

LEMMA ToldKept == ASSUME ReviewsInv, [Next]_vars PROVE Told'
<1> USE DEF Told, EachAnnounced
<1>t. TypeOK /\ TypeOK' /\ Handled /\ ExchangeInv /\ Told
  BY NextExchange DEF ReviewsInv, ExchangeInv
<1>a. age \in Nat /\ age' \in Nat /\ Window \in Nat
  BY <1>t, ReviewsAssumption DEF TypeOK, AgeMax
<1>1. ASSUME UNCHANGED <<review, notices>>, age > Window => age' > Window, ill \subseteq ill',
             \A w \in Workers : /\ Step(w) = "publish"
                                /\ ~(Step(w)' = "publish" /\ job'[w].saved = job[w].saved)
                                => job[w].saved = {} \/ "killed" \in ill'
      PROVE  Told'
  <2>1. ASSUME NEW p \in Pairs, review'[p] = "published", notices'[p] = 0, "killed" \notin ill'
        PROVE  \E w \in Workers : Step(w)' = "publish" /\ p \in job'[w].saved
    <3>1. PICK w \in Workers : Step(w) = "publish" /\ p \in job[w].saved
      BY <1>1, <1>t, <2>1
    <3> QED
      BY <1>1, <2>1, <3>1
  <2> QED
    BY <1>1, <1>t, <2>1
<1>2. ASSUME NEW p \in Pairs, SubmitCheck(p) \/ SubmitMatch(p) \/ SubmitRollback(p)
      PROVE  Told'
  BY <1>1, <1>2 DEF SubmitCheck, SubmitMatch, SubmitRollback, Step
<1>3. ASSUME NEW p \in Pairs, SubmitCommit(p) PROVE Told'
  <2> DEFINE q == Reverse(p)
  <2>q. q \in Pairs /\ Reverse(q) = p
    BY ReverseOfPair
  <2>e. /\ \A r \in Pairs \ {p, q} : review'[r] = review[r] /\ notices'[r] = notices[r]
        /\ \/ /\ submit[p] = "found"
              /\ \A r \in {p, q} : review'[r] = "published" /\ notices'[r] = Capped(notices[r])
           \/ /\ submit[p] = "alone" /\ review'[p] = "hidden"
              /\ review'[q] = review[q] /\ notices' = notices
        /\ UNCHANGED <<job, age, ill>>
    BY <1>3, <1>t, <2>q, CommitEffect
  <2>1. ~Written(p) /\ review[p] # "published"
    BY <1>t, <2>e DEF Handled, Written
  <2>2. notices[p] = 0
    BY <1>t, <2>1
  <2>3. notices \in [Pairs -> 0 .. 2]
    BY <1>t DEF TypeOK
  <2>4. CASE submit[p] = "found"
    <3>1. \A r \in {p, q} : review'[r] = "published" /\ notices'[r] = Capped(notices[r])
      BY <2>4, <2>e
    <3>2. \A r \in {p, q} : notices'[r] # 0
      BY <2>3, <2>q, <3>1 DEF Capped
    <3>3. age <= Window => \A r \in {p, q} : notices[r] = 0
      BY <1>t, <2>2, <2>4, <2>q DEF Handled
    <3>4. age <= Window => \A r \in {p, q} : notices'[r] <= 1
      BY <3>1, <3>3 DEF Capped
    <3>5. \A r \in {p, q} : notices'[r] > 1 => age' > Window
      BY <1>a, <2>e, <3>1, <3>3, <3>4 DEF Capped
    <3> QED
      BY <1>t, <2>e, <3>1, <3>2, <3>5 DEF Step
  <2>5. CASE submit[p] = "alone"
    <3>1. review'[p] = "hidden" /\ notices' = notices
          /\ \A r \in Pairs \ {p} : review'[r] = review[r]
      BY <2>5, <2>e
    <3> QED
      BY <1>t, <2>2, <2>e, <3>1 DEF Step
  <2> QED
    BY <2>4, <2>5, <2>e
<1>4. ASSUME NEW w \in Workers, PublishList(w) PROVE Told'
  <2>1. Step(w) = "idle" /\ \A x \in Workers \ {w} : job'[x] = job[x]
    BY <1>4, <1>t, JobMove DEF PublishList
  <2> QED
    BY <1>1, <1>4, <2>1 DEF PublishList, Step
<1>5. ASSUME NEW w \in Workers, PublishSave(w) PROVE Told'
  <2>1. PICK p \in Pairs :
          /\ job[w].saved = {}
          /\ review'[p] = "published" /\ \A r \in Pairs \ {p} : review'[r] = review[r]
          /\ job'[w].step = "publish" /\ job'[w].saved = {p}
    BY <1>5, <1>t, PublishSaveEffect
  <2>2. \A x \in Workers \ {w} : job'[x] = job[x]
    BY <1>5, <1>t, JobMove DEF PublishSave
  <2>3. UNCHANGED <<notices, age, ill>>
    BY <1>5 DEF PublishSave
  <2>4. ASSUME NEW r \in Pairs, review'[r] = "published", notices'[r] = 0, "killed" \notin ill'
        PROVE  \E x \in Workers : Step(x)' = "publish" /\ r \in job'[x].saved
    <3>1. CASE r = p
      BY <2>1, <3>1 DEF Step
    <3>2. CASE r # p
      <4>1. PICK x \in Workers : Step(x) = "publish" /\ r \in job[x].saved
        BY <1>t, <2>1, <2>3, <2>4, <3>2
      <4> QED
        BY <2>1, <2>2, <4>1 DEF Step
    <3> QED
      BY <3>1, <3>2
  <2> QED
    BY <1>t, <2>1, <2>3, <2>4
<1>6. ASSUME NEW w \in Workers, PublishNotify(w) PROVE Told'
  <2>1. /\ \A p \in Pairs : notices'[p] = IF p \in job[w].saved THEN Capped(notices[p])
                                          ELSE notices[p]
        /\ UNCHANGED <<review, age, ill>>
    BY <1>6, <1>t, PublishNotifyEffect DEF PublishNotify
  <2>2. \A x \in Workers \ {w} : job'[x] = job[x]
    BY <1>6, <1>t, JobMove DEF PublishNotify
  <2>3. Step(w) = "publish" /\ age > Window
    BY <1>6, <1>t DEF PublishNotify, ExchangeInv
  <2>4. \A p \in job[w].saved : review[p] = "published"
    BY <1>t, <2>3 DEF Handled
  <2>5. ASSUME NEW r \in Pairs, review'[r] = "published", notices'[r] = 0, "killed" \notin ill'
        PROVE  \E x \in Workers : Step(x)' = "publish" /\ r \in job'[x].saved
    <3>1. r \notin job[w].saved /\ notices[r] = 0
      BY <1>t, <2>1, <2>5 DEF TypeOK, Capped
    <3>2. PICK x \in Workers : Step(x) = "publish" /\ r \in job[x].saved
      BY <1>t, <2>1, <2>5, <3>1
    <3> QED
      BY <2>2, <3>1, <3>2 DEF Step
  <2> QED
    BY <1>t, <2>1, <2>3, <2>4, <2>5
<1>7. ASSUME NEW w \in Workers, RemindList(w) \/ RemindOne(w) \/ Killed(w) PROVE Told'
  <2>1. /\ UNCHANGED <<review, notices, age>> /\ ill \subseteq ill'
        /\ \A x \in Workers \ {w} : job'[x] = job[x]
        /\ job[w].step # "publish" \/ "killed" \in ill'
    BY <1>7, <1>t, ReminderStep, KilledEffect
  <2> QED
    BY <1>1, <2>1 DEF Step
<1>8. CASE Tick \/ UNCHANGED vars
  <2>1. /\ UNCHANGED <<review, notices, job, ill>>
        /\ age > Window => age' > Window
    BY <1>8, <1>t, ClockEffect DEF vars
  <2> QED
    BY <1>1, <2>1 DEF Step
<1> QED
  BY <1>2, <1>3, <1>4, <1>5, <1>6, <1>7, <1>8 DEF Next, SubmitStep, JobStep

LEMMA MissedKept == ASSUME ReviewsInv, [Next]_vars PROVE Missed'
<1> USE DEF Missed, OnlyARaceHides
<1>t. TypeOK /\ TypeOK' /\ Handled /\ ExchangeInv /\ Missed
  BY NextExchange DEF ReviewsInv, ExchangeInv
<1>a. age \in Nat /\ age' \in Nat /\ Window \in Nat
  BY <1>t, ReviewsAssumption DEF TypeOK, AgeMax
<1>r. \A r \in Pairs : Reverse(r) \in Pairs /\ Reverse(Reverse(r)) = r
  BY ReverseOfPair
<1>1. ASSUME \A r \in Pairs : /\ submit'[r] = "alone" => submit[r] = "alone"
                              /\ Written(r)' <=> Written(r)
                              /\ review'[r] = "hidden" => review[r] = "hidden",
             raced \subseteq raced', age > Window => age' > Window
      PROVE  Missed'
  BY <1>1, <1>t, <1>r
<1>2. ASSUME NEW p \in Pairs, SubmitCheck(p) \/ SubmitRollback(p) PROVE Missed'
  BY <1>1, <1>2, <1>t DEF SubmitCheck, SubmitRollback, TypeOK, Written
<1>3. ASSUME NEW p \in Pairs, SubmitMatch(p) PROVE Missed'
  <2> DEFINE q == Reverse(p)
  <2>1. /\ submit'[p] = IF Counterpart(p) THEN "found" ELSE "alone"
        /\ \A r \in Pairs \ {p} : submit'[r] = submit[r]
        /\ raced' = raced \cup IF submit[q] = "alone" THEN {p, q} ELSE {}
        /\ submit[p] = "open" /\ UNCHANGED <<review, age>>
    BY <1>3, <1>t DEF SubmitMatch, TypeOK
  <2>2. ~Written(p) /\ q \in Pairs /\ Reverse(q) = p
    BY <1>t, <1>r, <2>1 DEF Handled
  <2>3. submit'[p] = "alone" /\ Written(q) => age > Window
    BY <1>t, <2>1, <2>2 DEF Counterpart, TypeOK, Written, ExchangeInv, BlindUntilExchanged
  <2>4. p # q
    BY ReviewsAssumption DEF Pairs, Reverse
  <2>5. ASSUME NEW r \in Pairs, submit'[r] = "alone",
               submit'[Reverse(r)] = "alone" \/ Written(Reverse(r))'
        PROVE  {r, Reverse(r)} \subseteq raced' \/ age' > Window
    <3>1. CASE r = p
      BY <2>1, <2>2, <2>3, <2>4, <2>5, <3>1 DEF Written
    <3>2. CASE r = q
      BY <2>1, <2>2, <2>4, <2>5, <3>2 DEF Written
    <3>3. CASE r \notin {p, q}
      <4>1. Reverse(r) \in Pairs \ {p, q}
        BY <1>r, <2>2, <3>3
      <4> QED
        BY <1>t, <2>1, <2>5, <3>3, <4>1 DEF Written
    <3> QED
      BY <3>1, <3>2, <3>3
  <2>6. OnlyARaceHides'
    BY <1>t, <2>1 DEF Written
  <2> QED
    BY <2>5, <2>6
<1>4. ASSUME NEW p \in Pairs, SubmitCommit(p) PROVE Missed'
  <2> DEFINE q == Reverse(p)
  <2>q. q \in Pairs /\ Reverse(q) = p
    BY <1>r
  <2>e. /\ submit'[p] = "idle" /\ \A r \in Pairs \ {p} : submit'[r] = submit[r]
        /\ \A r \in Pairs \ {p, q} : review'[r] = review[r]
        /\ \/ submit[p] = "found" /\ review'[p] = "published" /\ review'[q] = "published"
           \/ submit[p] = "alone" /\ review'[p] = "hidden" /\ review'[q] = review[q]
        /\ UNCHANGED <<age, raced>>
    BY <1>4, <1>t, <2>q, CommitEffect
  <2>1. \A r \in Pairs \ {p, q} : Reverse(r) \in Pairs \ {p, q}
    BY <1>r, <2>q
  <2>2. submit[p] = "found" => submit[q] = "idle"
    BY <1>t, <2>q DEF ExchangeInv, Handled
  <2>3. submit[p] = "alone" /\ (submit[q] = "alone" \/ Written(q))
          => {p, q} \subseteq raced \/ age > Window
    BY <1>t
  <2>4. ASSUME NEW r \in Pairs, submit'[r] = "alone",
               submit'[Reverse(r)] = "alone" \/ Written(Reverse(r))'
        PROVE  {r, Reverse(r)} \subseteq raced' \/ age' > Window
    <3>1. CASE r = q
      BY <2>2, <2>3, <2>4, <2>e, <2>q, <3>1
    <3>2. CASE r \notin {p, q}
      BY <1>t, <2>1, <2>4, <2>e, <3>2 DEF Written
    <3> QED
      BY <2>4, <2>e, <3>1, <3>2
  <2>5. ASSUME NEW r \in Pairs, Written(r)', Written(Reverse(r))', review'[r] = "hidden"
        PROVE  r \in raced' \/ age' > Window
    <3>1. CASE r = p
      BY <2>3, <2>5, <2>e, <2>q, <3>1 DEF Written
    <3>2. CASE r = q
      BY <2>3, <2>5, <2>e, <2>q, <3>2 DEF Written
    <3>3. CASE r \notin {p, q}
      BY <1>t, <2>1, <2>5, <2>e, <3>3 DEF Written
    <3> QED
      BY <3>1, <3>2, <3>3
  <2> QED
    BY <2>4, <2>5
<1>5. ASSUME NEW w \in Workers, PublishSave(w) PROVE Missed'
  <2>1. PICK p \in Pairs : /\ p \in job[w].due
                           /\ review'[p] = "published"
                           /\ \A r \in Pairs \ {p} : review'[r] = review[r]
    BY <1>5, <1>t, PublishSaveEffect
  <2>2. Written(p) /\ UNCHANGED <<submit, raced, age>>
    BY <1>5, <1>t, <2>1 DEF PublishSave, Handled
  <2> QED
    BY <1>1, <2>1, <2>2 DEF Written
<1>6. ASSUME NEW w \in Workers, PublishList(w) \/ PublishNotify(w) PROVE Missed'
  BY <1>1, <1>6 DEF PublishList, PublishNotify, Written
<1>7. ASSUME NEW w \in Workers, RemindList(w) \/ RemindOne(w) \/ Killed(w) PROVE Missed'
  BY <1>1, <1>7 DEF RemindList, RemindOne, Killed, Written
<1>8. CASE Tick \/ UNCHANGED vars
  <2>1. UNCHANGED <<review, submit, raced>> /\ (age > Window => age' > Window)
    BY <1>8, <1>t, ClockEffect DEF vars
  <2> QED
    BY <1>1, <2>1 DEF Written
<1> QED
  BY <1>2, <1>3, <1>4, <1>5, <1>6, <1>7, <1>8 DEF Next, SubmitStep, JobStep

LEMMA OneRoundKept == ASSUME ReviewsInv, [Next]_vars PROVE OneRound'
<1>t. TypeOK /\ OneRound
  BY DEF ReviewsInv, ExchangeInv
<1>n. \A u \in People : nudges[u] \in 0 .. 2
  BY <1>t DEF TypeOK
<1>j. \A w \in Workers : job[w].step = "remind" => job[w].todo \subseteq People
  BY <1>t DEF TypeOK, Job, NoJob
<1>1. ASSUME nudges' = nudges, reminded \subseteq reminded', ill \subseteq ill',
             \A w \in Workers : job'[w].step = "remind" => job'[w] = job[w]
      PROVE  OneRound'
  BY <1>1, <1>t DEF OneRound, Step
<1>2. ASSUME NEW p \in Pairs, SubmitStep(p) PROVE OneRound'
  BY <1>1, <1>2, <1>t, CommitEffect DEF SubmitStep, SubmitCheck, SubmitMatch, SubmitRollback
<1>3. ASSUME NEW w \in Workers, PublishList(w) \/ PublishSave(w) \/ PublishNotify(w)
      PROVE  OneRound'
  <2>1. UNCHANGED <<nudges, reminded, ill>>
    BY <1>3 DEF PublishList, PublishSave, PublishNotify
  <2>2. \E j : Set(w, j)
    BY <1>3 DEF PublishList, PublishSave, PublishNotify
  <2>3. \A x \in Workers \ {w} : job'[x] = job[x]
    BY <1>t, <2>2, JobMove
  <2>4. job'[w].step # "remind"
    <3>1. CASE PublishList(w)
      BY <1>t, <3>1, JobMove DEF PublishList
    <3> QED
      BY <1>3, <1>t, <3>1, PublishSaveEffect, PublishNotifyEffect
  <2> QED
    BY <1>1, <2>1, <2>3, <2>4
<1>4. ASSUME NEW w \in Workers, RemindList(w) PROVE OneRound'
  <2>1. job'[w] = [step |-> "remind", todo |-> ToRemind]
        /\ \A x \in Workers \ {w} : job'[x] = job[x]
    BY <1>4, <1>t, JobMove DEF RemindList
  <2>2. /\ ill' = ill \cup IF \E x \in Workers : Step(x) = "remind" THEN {"overlapped"} ELSE {}
        /\ UNCHANGED <<nudges, reminded>>
    BY <1>4 DEF RemindList
  <2>3. ASSUME "overlapped" \notin ill'
        PROVE  "overlapped" \notin ill /\ \A x \in Workers : Step(x) # "remind"
    BY <2>2, <2>3
  <2>4. \A u \in ToRemind : u \in People /\ u \notin reminded
    BY DEF ToRemind
  <2> QED
    BY <1>t, <2>1, <2>2, <2>3, <2>4 DEF OneRound, Step
<1>5. ASSUME NEW w \in Workers, RemindOne(w) PROVE OneRound'
  <2>1. PICK u \in People :
          /\ u \in job[w].todo /\ reminded' = reminded \cup {u}
          /\ nudges'[u] = Capped(nudges[u]) /\ \A v \in People \ {u} : nudges'[v] = nudges[v]
          /\ job'[w].step \in {"idle", "remind"}
          /\ job'[w].step = "remind" => job'[w].todo = job[w].todo \ {u}
    BY <1>5, <1>t, RemindOneEffect
  <2>2. /\ job[w].step = "remind" /\ ill' = ill
        /\ \A x \in Workers \ {w} : job'[x] = job[x]
    BY <1>5, <1>t, ReminderStep DEF RemindOne, Step
  <2>3. SUFFICES ASSUME "overlapped" \notin ill PROVE OneRound'
    BY <2>2 DEF OneRound
  <2>4. nudges[u] = 0 /\ \A x \in Workers \ {w} : job[x].step # "remind"
    BY <1>t, <2>1, <2>2, <2>3 DEF OneRound, Step
  <2>5. nudges'[u] = 1
    BY <2>1, <2>4 DEF Capped
  <2>6. \A x \in Workers : job'[x].step = "remind" => x = w
    BY <2>2, <2>4
  <2>7. \A v \in People : nudges'[v] <= 1 /\ (v \notin reminded' => nudges'[v] = 0)
    BY <1>n, <1>t, <2>1, <2>3, <2>5 DEF OneRound
  <2>8. job'[w].step = "remind" => \A v \in job'[w].todo : nudges'[v] = 0
    BY <1>j, <1>t, <2>1, <2>2, <2>3 DEF OneRound, Step
  <2> QED
    BY <2>6, <2>7, <2>8 DEF OneRound, Step
<1>6. ASSUME NEW w \in Workers, Killed(w) PROVE OneRound'
  BY <1>1, <1>6, <1>t, KilledEffect
<1>7. CASE Tick \/ UNCHANGED vars
  BY <1>1, <1>7 DEF Tick, vars
<1> QED
  BY <1>2, <1>3, <1>4, <1>5, <1>6, <1>7 DEF Next, JobStep

\* The invariant from which the three remaining properties follow, for any
\* number of volunteers, workers and days.
THEOREM ReviewsHold == Spec => []ReviewsInv
<1>1. ReviewsInv /\ [Next]_vars => ReviewsInv'
  BY NextExchange, HandledKept, ToldKept, MissedKept, OneRoundKept DEF ReviewsInv
<1> QED
  BY <1>1, InitReviews, PTL DEF Spec

\* A visible review has been announced, or is about to be, unless a worker died;
\* and the two sides alone never announce one twice (_publish, submit_review).
THEOREM VisibleIsAnnounced == Spec => []EachAnnounced
BY ReviewsHold, PTL DEF ReviewsInv, Told

\* Two reviews stay hidden from each other within the window only when their
\* transactions overlapped, so that neither could see the other.
THEOREM RacesAloneHide == Spec => []OnlyARaceHides
BY ReviewsHold, PTL DEF ReviewsInv, Missed

\* Nobody is reminded twice but by overlapping cron calls; a killed call leaves
\* the mark of everybody it has reminded (send_review_reminders).
THEOREM RemindedOnce == Spec => []NudgedOnce
<1>1. ReviewsInv => NudgedOnce
  BY DEF ReviewsInv, OneRound, NudgedOnce
<1> QED
  BY <1>1, ReviewsHold, PTL

-----------------------------------------------------------------------------
(* Refinement of BlindExchange *)

LEMMA InitBlind == Init => Contract!Init
<1> SUFFICES ASSUME Init PROVE Contract!Init
  OBVIOUS
<1>1. \A p \in Pairs : submit[p] = "idle" /\ review[p] = "none"
  BY DEF Init
<1>2. age = 0 /\ ~(age > Window)
  BY ReviewsAssumption DEF Init
<1> QED
  BY <1>1, <1>2 DEF Contract!Init

\* With the reviews and submissions unchanged only the window can have closed.
LEMMA OnlyCloses ==
  ASSUME UNCHANGED <<review, submit>>, (age > Window) => (age' > Window)
  PROVE  [Contract!Next]_(Contract!vars)
<1>1. UNCHANGED <<{p \in Pairs : submit[p] # "idle"}, {p \in Pairs : review[p] = "hidden"},
                  {p \in Pairs : review[p] = "published"}>>
  OBVIOUS
<1>2. CASE (age' > Window) = (age > Window)
  BY <1>1, <1>2 DEF Contract!vars
<1>3. CASE age' > Window
  <2>1. Contract!Close
    BY <1>1, <1>3 DEF Contract!Close
  <2> QED
    BY <2>1 DEF Contract!Next
<1> QED
  BY <1>2, <1>3

LEMMA SubmitKeeps ==
  ASSUME ReviewsInv, NEW p \in Pairs, SubmitStep(p)
  PROVE  [Contract!Next]_(Contract!vars)
<1> DEFINE q == Reverse(p)
           writing == {r \in Pairs : submit[r] # "idle"}
           hidden == {r \in Pairs : review[r] = "hidden"}
           shown == {r \in Pairs : review[r] = "published"}
<1>t. TypeOK /\ Handled /\ BlindUntilExchanged /\ ExchangeInv
  BY DEF ReviewsInv, ExchangeInv
<1>q. q \in Pairs /\ Reverse(q) = p /\ Contract!Opposite(p) = q
  BY ReverseOfPair DEF Contract!Opposite, Reverse
<1>a. age \in Nat /\ Window \in Nat
  BY <1>t, ReviewsAssumption DEF TypeOK, AgeMax
<1>1. CASE SubmitCheck(p)
  <2>1. submit[p] = "idle" /\ age <= Window /\ ~Written(p)
    BY <1>1 DEF SubmitCheck
  <2>2. /\ submit'[p] = "open" /\ \A r \in Pairs \ {p} : submit'[r] = submit[r]
        /\ UNCHANGED <<review, age>>
    BY <1>1, <1>t DEF SubmitCheck, TypeOK
  <2>3. q \notin shown
    BY <1>a, <1>q, <1>t, <2>1 DEF BlindUntilExchanged
  <2>4. ~(age > Window) /\ p \notin writing \cup hidden \cup shown
    BY <1>a, <2>1 DEF Written
  <2>5. writing' = writing \cup {p} /\ UNCHANGED <<hidden, shown, age > Window>>
    BY <2>2
  <2> QED
    BY <1>q, <2>3, <2>4, <2>5 DEF Contract!Next, Contract!Begin
<1>2. CASE SubmitMatch(p)
  <2>1. /\ submit[p] # "idle" /\ submit'[p] # "idle"
        /\ \A r \in Pairs \ {p} : submit'[r] = submit[r]
        /\ UNCHANGED <<review, age>>
    BY <1>2, <1>t DEF SubmitMatch, TypeOK
  <2>2. UNCHANGED <<writing, hidden, shown, age > Window>>
    BY <2>1
  <2> QED
    BY <2>2 DEF Contract!vars
<1>3. CASE SubmitCommit(p)
  <2>e. /\ submit[p] # "idle" /\ submit'[p] = "idle"
        /\ \A r \in Pairs \ {p} : submit'[r] = submit[r]
        /\ \A r \in Pairs \ {p, q} : review'[r] = review[r]
        /\ \/ submit[p] = "found" /\ review'[p] = "published" /\ review'[q] = "published"
           \/ submit[p] = "alone" /\ review'[p] = "hidden" /\ review'[q] = review[q]
        /\ UNCHANGED age
    BY <1>3, <1>q, <1>t, CommitEffect DEF SubmitCommit
  <2>1. review[p] = "none" /\ p # q
    BY <1>q, <1>t, <2>e, ReviewsAssumption DEF Handled, Written, Pairs, Reverse
  <2>2. p \in writing /\ writing' = writing \ {p} /\ UNCHANGED (age > Window)
    BY <2>e
  <2>3. CASE submit[p] = "found"
    <3>1. review'[p] = "published" /\ review'[q] = "published"
      BY <2>3, <2>e
    <3>2. review[q] \in {"hidden", "published"}
      BY <1>q, <1>t, <2>3 DEF ExchangeInv, Written, TypeOK
    <3>3. q \in hidden \/ (age > Window /\ q \in shown)
      BY <1>a, <1>q, <1>t, <2>3, <3>2 DEF Handled
    <3>4. hidden' = hidden \ {q}
      BY <1>q, <2>1, <2>e, <3>1
    <3>5. shown' = shown \cup {p, q}
      BY <1>q, <2>e, <3>1
    <3> QED
      BY <1>q, <2>2, <3>3, <3>4, <3>5 DEF Contract!Next, Contract!Exchange
  <2>4. CASE submit[p] = "alone"
    <3>1. review'[p] = "hidden" /\ \A r \in Pairs \ {p} : review'[r] = review[r]
      BY <2>4, <2>e
    <3>2. hidden' = hidden \cup {p} /\ UNCHANGED shown
      BY <2>1, <3>1
    <3> QED
      BY <2>2, <3>2 DEF Contract!Next, Contract!Hide
  <2> QED
    BY <2>3, <2>4, <2>e
<1>4. CASE SubmitRollback(p)
  <2>1. /\ submit[p] # "idle" /\ submit'[p] = "idle"
        /\ \A r \in Pairs \ {p} : submit'[r] = submit[r]
        /\ UNCHANGED <<review, age>>
    BY <1>4, <1>t DEF SubmitRollback, TypeOK
  <2>2. p \in writing /\ writing' = writing \ {p} /\ UNCHANGED <<hidden, shown, age > Window>>
    BY <2>1
  <2> QED
    BY <2>2 DEF Contract!Next, Contract!Abandon
<1> QED
  BY <1>1, <1>2, <1>3, <1>4 DEF SubmitStep

\* What a job saves was listed after the window, and is shown by it or already.
LEMMA PublishKeeps ==
  ASSUME ReviewsInv, NEW w \in Workers, PublishSave(w)
  PROVE  [Contract!Next]_(Contract!vars)
<1> DEFINE writing == {r \in Pairs : submit[r] # "idle"}
           hidden == {r \in Pairs : review[r] = "hidden"}
           shown == {r \in Pairs : review[r] = "published"}
<1>t. TypeOK /\ Handled /\ ExchangeInv
  BY DEF ReviewsInv, ExchangeInv
<1>1. PICK p \in Pairs :
        /\ p \in job[w].due
        /\ review'[p] = "published" /\ \A r \in Pairs \ {p} : review'[r] = review[r]
  BY <1>t, PublishSaveEffect
<1>2. Step(w) = "publish" /\ UNCHANGED <<submit, age>>
  BY DEF PublishSave
<1>3. age > Window /\ review[p] \in {"hidden", "published"}
  BY <1>1, <1>2, <1>t DEF ExchangeInv, Handled, Written, TypeOK
<1>4. UNCHANGED <<writing, age > Window>>
  BY <1>2
<1>5. CASE review[p] = "hidden"
  <2>1. p \in hidden /\ hidden' = hidden \ {p} /\ shown' = shown \cup {p}
    BY <1>1, <1>5
  <2> QED
    BY <1>3, <1>4, <2>1 DEF Contract!Next, Contract!Show
<1>6. CASE review[p] = "published"
  <2>1. UNCHANGED <<hidden, shown>>
    BY <1>1, <1>6
  <2> QED
    BY <1>4, <2>1 DEF Contract!vars
<1> QED
  BY <1>3, <1>5, <1>6

LEMMA NextKeeps == ReviewsInv /\ [Next]_vars => [Contract!Next]_(Contract!vars)
<1> SUFFICES ASSUME ReviewsInv, [Next]_vars PROVE [Contract!Next]_(Contract!vars)
  OBVIOUS
<1>1. TypeOK
  BY DEF ReviewsInv, ExchangeInv
<1>2. CASE Tick
  BY <1>1, <1>2, ClockEffect, OnlyCloses
<1>3. ASSUME NEW w \in Workers, JobStep(w) PROVE [Contract!Next]_(Contract!vars)
  <2>1. CASE PublishSave(w)
    BY <2>1, PublishKeeps
  <2>2. CASE ~PublishSave(w)
    <3>1. UNCHANGED <<review, submit, age>>
      BY <1>3, <2>2 DEF JobStep, PublishList, PublishNotify, RemindList, RemindOne, Killed
    <3> QED
      BY <3>1, OnlyCloses
  <2> QED
    BY <2>1, <2>2
<1>4. CASE UNCHANGED vars
  BY <1>4, OnlyCloses DEF vars
<1> QED
  BY <1>2, <1>3, <1>4, SubmitKeeps DEF Next

\* Reviews implements BlindExchange: until the window has closed the two reviews
\* of a pair become visible in one step, nobody begins one with the other's in
\* view, and none is lost or hidden again (submit_review, publish_due).
THEOREM ReviewsKeepExchange == Spec => KeepsExchange
BY NextKeeps, InitBlind, ReviewsHold, PTL DEF Spec, KeepsExchange, Contract!Spec

\* Until the window has closed the two sides see each other's review or neither
\* does: what ExchangeInv says of written reviews, BlindExchange says of visible
\* ones, and Reviews has it from there.
SeenTogether ==
  \A p \in Pairs : review[p] = "published" => review[Reverse(p)] = "published" \/ age > Window

LEMMA SeenTogetherKept ==
  ASSUME SeenTogether, [Contract!Next]_(Contract!vars)
  PROVE  SeenTogether'
<1> DEFINE shown == {r \in Pairs : review[r] = "published"}
           closed == age > Window
<1>r. \A r \in Pairs : Reverse(r) \in Pairs /\ Reverse(Reverse(r)) = r
  BY ReverseOfPair
<1>o. \A r : Contract!Opposite(r) = Reverse(r)
  BY DEF Contract!Opposite, Reverse
<1>1. SUFFICES ASSUME ~closed' PROVE \A p \in shown' : Reverse(p) \in shown'
  BY <1>r DEF SeenTogether
<1>2. ~closed => \A p \in shown : Reverse(p) \in shown
  BY <1>r DEF SeenTogether
<1>3. CASE shown' = shown /\ closed' = closed
  BY <1>1, <1>2, <1>3
<1>4. ASSUME NEW p \in Pairs, Contract!Exchange(p) PROVE \A r \in shown' : Reverse(r) \in shown'
  <2>1. shown' = shown \cup {p, Reverse(p)} /\ ~closed
    BY <1>1, <1>4, <1>o DEF Contract!Exchange
  <2> QED
    BY <1>2, <1>r, <2>1
<1>5. ASSUME NEW p \in Pairs, Contract!Show(p) PROVE FALSE
  BY <1>1, <1>5 DEF Contract!Show
<1>6. ASSUME Contract!Close PROVE FALSE
  BY <1>1, <1>6 DEF Contract!Close
<1>7. ASSUME NEW p \in Pairs, Contract!Begin(p) \/ Contract!Abandon(p) \/ Contract!Hide(p)
      PROVE  shown' = shown /\ closed' = closed
  BY <1>7 DEF Contract!Begin, Contract!Abandon, Contract!Hide
<1>8. ASSUME UNCHANGED Contract!vars PROVE shown' = shown /\ closed' = closed
  BY <1>8 DEF Contract!vars
<1> HIDE DEF shown, closed
<1> QED
  BY <1>3, <1>4, <1>5, <1>6, <1>7, <1>8 DEF Contract!Next

\* Neither side sees the other's review alone before the window has closed
\* (submit_review publishes both, publish_due waits).
THEOREM VisibleTogether == Spec => []SeenTogether
<1>1. Init => SeenTogether
  BY DEF Init, SeenTogether
<1>2. ReviewsInv /\ SeenTogether /\ [Next]_vars => SeenTogether'
  BY NextKeeps, SeenTogetherKept
<1> QED
  BY <1>1, <1>2, ReviewsHold, PTL DEF Spec
=============================================================================
