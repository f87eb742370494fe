------------------------- MODULE ConversationsProofs -------------------------
(***************************************************************************)
(* A conversation keeps what it promises for any number of workers and     *)
(* messages and for any limits.                                            *)
(*                                                                         *)
(* ConversationInv, the inductive invariant, has one part for each thing a *)
(* message takes out of its transaction:                                   *)
(*   Tidy     types, and that ids and stamps are taken once each,          *)
(*   Counted  how far each unlocked check can be overrun by the workers    *)
(*            that are past it,                                            *)
(*   LoadedHolds, EveryMessageNoticed                                      *)
(*            what the notified_at loaded before the lock says of the      *)
(*            notices sent since,                                          *)
(*   Shows    what a page has, has on its way or was overtaken by,         *)
(*   MarkHolds                                                             *)
(*            what the mark of a reader covers.                            *)
(***************************************************************************)
EXTENDS Conversations, FiniteSetTheorems, WellFoundedInduction, TLAPS

-----------------------------------------------------------------------------
(* The inductive invariant *)

Checked == {w \in Workers : At(w, "checked")}
Timed == {w \in Workers : At(w, "stamped")}
Busy == {w \in Workers : ~At(w, "idle")}
Sender(s) == {w \in Busy : work[w].by = s}
Sharer(s) == {w \in Sender(s) : work[w].kind = "phone"}

\* The bound on messages is a bound on stamps and ids: every begun message takes
\* one of each.
Bounded ==
  /\ clock + Cardinality(Checked) <= MaxMessages + 1
  /\ nextId + Cardinality(Timed) <= clock + 1

\* A message, sent or being sent, is told from the others by its id and by its
\* stamp.
Numbered ==
  /\ messages # {}
  /\ \A m, n \in messages : m.id = n.id \/ m.stamp = n.stamp => m = n
  /\ \A m \in messages : m.id < nextId /\ m.stamp <= clock
  /\ \A w \in Stamped :
       /\ work[w].stamp <= clock
       /\ \A m \in messages : m.stamp # work[w].stamp
  /\ \A w \in InFlight :
       /\ work[w].id < nextId
       /\ \A m \in messages : m.id # work[w].id
  /\ \A w, x \in Stamped : work[w].stamp = work[x].stamp => w = x
  /\ \A w, x \in InFlight : work[w].id = work[x].id => w = x

Tidy == TypeOK /\ IsFiniteSet(messages) /\ Bounded /\ Numbered

-----------------------------------------------------------------------------
(* Lemmas about the helpers *)

LEMMA Constants ==
  /\ RateLimit \in Nat \ {0} /\ RateWindow \in Nat /\ NotifyEvery \in Nat
  /\ MaxMessages \in Nat
  /\ AgeMax \in Nat /\ QuietMax \in Nat
  /\ IsFiniteSet(Workers)
BY ConversationsAssumption DEF AgeMax, QuietMax

LEMMA Counts ==
  ASSUME NEW S \in SUBSET Workers
  PROVE  /\ IsFiniteSet(S)
         /\ Cardinality(S) \in Nat
         /\ Cardinality(S) <= Cardinality(Workers)
         /\ Cardinality(Workers) \in Nat
BY Constants, FS_Subset, FS_CardinalityType

LEMMA CountOneLess ==
  ASSUME NEW S, IsFiniteSet(S), NEW x \in S
  PROVE  Cardinality(S \ {x}) = Cardinality(S) - 1
BY FS_RemoveElement

LEMMA CountOneMore ==
  ASSUME NEW S, IsFiniteSet(S), NEW x
  PROVE  /\ IsFiniteSet(S \cup {x})
         /\ Cardinality(S \cup {x}) \in Nat
         /\ Cardinality(S \cup {x}) <= Cardinality(S) + 1
<1>1. Cardinality(S) \in Nat
  BY FS_CardinalityType
<1>2. /\ IsFiniteSet(S \cup {x})
      /\ Cardinality(S \cup {x}) = IF x \in S THEN Cardinality(S) ELSE Cardinality(S) + 1
  BY FS_AddElement
<1> QED
  BY <1>1, <1>2

LEMMA OtherSide ==
  ASSUME NEW s \in Sides
  PROVE  Other(s) \in Sides /\ Other(s) # s /\ Other(Other(s)) = s
BY DEF Sides, Other

\* A set of numbers that has a bound has a greatest one.
LEMMA GreatestExists ==
  ASSUME NEW n \in Nat, NEW ids \in SUBSET (0 .. n), ids # {}
  PROVE  \E i \in ids : \A j \in ids : j <= i
<1> DEFINE T == {n - i : i \in ids}
<1>1. T \subseteq Nat /\ T # {}
  <2>1. \A i \in ids : n - i \in Nat
    OBVIOUS
  <2>2. \A i \in ids : n - i \in T
    OBVIOUS
  <2> QED
    BY <2>1, <2>2
<1>2. PICK x \in T : \A y \in T : ~ (<<y, x>> \in OpToRel(<, Nat))
  <2> HIDE DEF T
  <2> QED
    BY <1>1, NatLessThanWellFounded, WFMin
<1>3. \A y \in T : ~(y < x)
  <2> SUFFICES ASSUME NEW y \in T, y < x PROVE FALSE
    OBVIOUS
  <2>1. <<y, x>> \in OpToRel(<, Nat)
    BY <1>1 DEF OpToRel
  <2> QED
    BY <2>1, <1>2
<1>4. PICK i \in ids : x = n - i
  OBVIOUS
<1>5. \A j \in ids : n - j \in T
  OBVIOUS
<1>6. \A j \in ids : j <= i
  BY <1>3, <1>4, <1>5
<1> QED
  BY <1>6

LEMMA HighestIn ==
  ASSUME NEW n \in Nat, NEW ids \in SUBSET (0 .. n), ids # {}, NEW d
  PROVE  /\ Highest(ids, d) \in ids
         /\ \A j \in ids : j <= Highest(ids, d)
<1>1. \E i \in ids : \A j \in ids : j <= i
  BY GreatestExists
<1> QED
  BY <1>1 DEF Highest

\* What a worker holds in each step.
LEMMA WorkFields ==
  ASSUME TypeOK, NEW w \in Workers
  PROVE  /\ work[w] \in {Idle} \cup Sending
         /\ work[w].step \in {"idle", "checked", "stamped", "inserted"}
         /\ w \notin Busy => work[w] = Idle
         /\ w \in Busy => /\ work[w].by \in Sides /\ Other(work[w].by) \in Sides
                          /\ work[w].kind \in {"text", "phone"}
                          /\ work[w].last \in 0 .. NotifyEvery
         /\ w \in Stamped => work[w].stamp \in Ids /\ work[w].age \in Ages
         /\ w \in InFlight => work[w].id \in Ids
<1>1. work[w] \in {Idle} \cup Sending
  BY DEF TypeOK
<1>2. /\ work[w].step \in {"idle", "checked", "stamped", "inserted"}
      /\ work[w].step = "idle" => work[w] = Idle
  BY <1>1 DEF Idle, Sending
<1>3. work[w].step # "idle" => /\ work[w].by \in Sides
                               /\ work[w].kind \in {"text", "phone"}
                               /\ work[w].last \in 0 .. NotifyEvery
  BY <1>1 DEF Idle, Sending
<1>4. work[w].step \in {"stamped", "inserted"} => work[w].stamp \in Ids /\ work[w].age \in Ages
  BY <1>1 DEF Idle, Sending
<1>5. work[w].step = "inserted" => work[w].id \in Ids
  BY <1>1 DEF Idle, Sending
<1> QED
  BY <1>1, <1>2, <1>3, <1>4, <1>5, OtherSide DEF At, Busy, Stamped, InFlight

LEMMA MessageFields ==
  ASSUME TypeOK, NEW m \in messages
  PROVE  /\ m \in Message
         /\ m.id \in Ids /\ m.stamp \in Ids /\ m.age \in Ages
         /\ m.by \in Sides \cup {"system"}
         /\ m.by # "system" => m.by \in Sides
<1>1. m \in Message
  BY DEF TypeOK
<1>2. 1 \in Ids
  BY Constants DEF Ids
<1>3. m.id \in Ids /\ m.stamp \in Ids /\ m.age \in Ages /\ m.by \in Sides \cup {"system"}
  BY <1>1, <1>2 DEF Message
<1> QED
  BY <1>1, <1>3

-----------------------------------------------------------------------------
(* What the steps of a worker do *)

LEMMA OneWorker ==
  ASSUME TypeOK, NEW w \in Workers, NEW r \in {Idle} \cup Sending, Set(w, r)
  PROVE  /\ work' \in [Workers -> {Idle} \cup Sending]
         /\ work'[w] = r
         /\ \A x \in Workers \ {w} : work'[x] = work[x]
BY DEF TypeOK, Set

\* The worker was idle and holds a message that has passed the checks.
LEMMA CheckEffect ==
  ASSUME TypeOK, NEW w \in Workers, SendCheck(w)
  PROVE  /\ work' \in [Workers -> {Idle} \cup Sending]
         /\ \A x \in Workers \ {w} : work'[x] = work[x]
         /\ w \notin Busy /\ Busy' = Busy \cup {w}
         /\ w \notin Checked /\ Checked' = Checked \cup {w}
         /\ Timed' = Timed /\ InFlight' = InFlight /\ Stamped' = Stamped
         /\ w \notin Stamped
         /\ clock + Cardinality(Checked) <= MaxMessages
         /\ \E s \in Sides, kind \in {"text", "phone"} :
              /\ MayWrite(s, kind)
              /\ work'[w].step = "checked" /\ work'[w].by = s /\ work'[w].kind = kind
              /\ work'[w].last = Upto(quiet[Other(s)], NotifyEvery)
              /\ quiet[Other(s)] \in Nat
         /\ UNCHANGED <<phase, messages, nextId, clock, quiet, page, late, overtaken, marks>>
<1>1. PICK s \in Sides, kind \in {"text", "phone"} :
        /\ MayWrite(s, kind)
        /\ Set(w, [step |-> "checked", by |-> s, kind |-> kind,
                   last |-> Upto(quiet[Other(s)], NotifyEvery)])
  BY DEF SendCheck
<1> DEFINE r == [step |-> "checked", by |-> s, kind |-> kind,
                 last |-> Upto(quiet[Other(s)], NotifyEvery)]
<1>2. quiet[Other(s)] \in Nat /\ Upto(quiet[Other(s)], NotifyEvery) \in 0 .. NotifyEvery
  BY OtherSide, Constants DEF TypeOK, Quiets, Upto
<1>3. r \in {Idle} \cup Sending
  BY <1>2 DEF Sending
<1>4. /\ work' \in [Workers -> {Idle} \cup Sending]
      /\ work'[w] = r
      /\ \A x \in Workers \ {w} : work'[x] = work[x]
  BY <1>1, <1>3, OneWorker
<1>5. work[w].step = "idle"
  BY DEF SendCheck, At
<1>6. /\ w \notin Busy /\ Busy' = Busy \cup {w}
      /\ w \notin Checked /\ Checked' = Checked \cup {w}
      /\ Timed' = Timed /\ InFlight' = InFlight /\ Stamped' = Stamped
      /\ w \notin Stamped
  BY <1>4, <1>5 DEF Busy, Checked, Timed, InFlight, Stamped, At
<1>7. clock + Cardinality(Checked) <= MaxMessages
  BY DEF SendCheck, Checked
<1>8. UNCHANGED <<phase, messages, nextId, clock, quiet, page, late, overtaken, marks>>
  BY DEF SendCheck
<1> QED
  BY <1>1, <1>2, <1>4, <1>6, <1>7, <1>8

\* The message of a worker takes the next stamp.
LEMMA StampEffect ==
  ASSUME Tidy, NEW w \in Workers, SendStamp(w)
  PROVE  /\ work' \in [Workers -> {Idle} \cup Sending]
         /\ \A x \in Workers \ {w} : work'[x] = work[x]
         /\ work'[w].by = work[w].by /\ work'[w].kind = work[w].kind
         /\ work'[w].last = work[w].last
         /\ work'[w].stamp = clock + 1 /\ work'[w].age = 0
         /\ w \in Busy /\ Busy' = Busy
         /\ w \in Checked /\ Checked' = Checked \ {w}
         /\ w \notin Timed /\ Timed' = Timed \cup {w}
         /\ InFlight' = InFlight
         /\ w \notin Stamped /\ Stamped' = Stamped \cup {w}
         /\ clock + 1 \in Ids /\ clock' = clock + 1
         /\ UNCHANGED <<phase, messages, nextId, quiet, page, late, overtaken, marks>>
<1> DEFINE r == [step |-> "stamped", by |-> work[w].by, kind |-> work[w].kind,
                 last |-> work[w].last, stamp |-> clock + 1, age |-> 0]
<1>1. TypeOK /\ Bounded
  BY DEF Tidy
<1>2. work[w].step = "checked"
  BY DEF SendStamp, At
<1>3. w \in Checked /\ w \in Busy /\ w \notin Timed /\ w \notin Stamped
  BY <1>2 DEF Checked, Busy, Timed, Stamped, InFlight, At
<1>4. clock + 1 \in Ids
  <2>1. Checked \in SUBSET Workers
    BY DEF Checked
  <2>2. Checked # {} /\ IsFiniteSet(Checked) /\ Cardinality(Checked) \in Nat
    BY <1>3, <2>1, Counts
  <2>3. Cardinality(Checked) # 0
    BY <2>2, FS_EmptySet
  <2>4. clock \in 1 .. MaxMessages + 1 /\ clock + Cardinality(Checked) <= MaxMessages + 1
    BY <1>1 DEF TypeOK, Bounded
  <2> QED
    BY <2>2, <2>3, <2>4, Constants DEF Ids
<1>5. r \in {Idle} \cup Sending
  <2>1. /\ work[w].by \in Sides /\ work[w].kind \in {"text", "phone"}
        /\ work[w].last \in 0 .. NotifyEvery
    BY <1>1, <1>3, WorkFields
  <2>2. 0 \in Ages
    BY Constants DEF Ages
  <2> QED
    BY <2>1, <2>2, <1>4 DEF Sending
<1>6. Set(w, r)
  BY DEF SendStamp
<1>7. /\ work' \in [Workers -> {Idle} \cup Sending]
      /\ work'[w] = r
      /\ \A x \in Workers \ {w} : work'[x] = work[x]
  BY <1>1, <1>5, <1>6, OneWorker
<1>8. /\ Busy' = Busy /\ Checked' = Checked \ {w} /\ Timed' = Timed \cup {w}
      /\ InFlight' = InFlight /\ Stamped' = Stamped \cup {w}
  BY <1>2, <1>7 DEF Busy, Checked, Timed, InFlight, Stamped, At
<1>9. /\ clock' = clock + 1
      /\ UNCHANGED <<phase, messages, nextId, quiet, page, late, overtaken, marks>>
  BY DEF SendStamp
<1>10. /\ work'[w].by = work[w].by /\ work'[w].kind = work[w].kind
       /\ work'[w].last = work[w].last
       /\ work'[w].stamp = clock + 1 /\ work'[w].age = 0
  BY <1>7
<1> QED
  BY <1>3, <1>4, <1>7, <1>8, <1>9, <1>10

\* It draws the next id.
LEMMA InsertEffect ==
  ASSUME Tidy, NEW w \in Workers, SendInsert(w)
  PROVE  /\ work' \in [Workers -> {Idle} \cup Sending]
         /\ \A x \in Workers \ {w} : work'[x] = work[x]
         /\ work'[w].by = work[w].by /\ work'[w].kind = work[w].kind
         /\ work'[w].last = work[w].last
         /\ work'[w].stamp = work[w].stamp /\ work'[w].age = work[w].age
         /\ work'[w].id = nextId
         /\ w \in Busy /\ Busy' = Busy
         /\ w \notin Checked /\ Checked' = Checked
         /\ w \in Timed /\ Timed' = Timed \ {w}
         /\ w \notin InFlight /\ InFlight' = InFlight \cup {w}
         /\ w \in Stamped /\ Stamped' = Stamped
         /\ nextId \in Ids /\ nextId' = nextId + 1
         /\ UNCHANGED <<phase, messages, clock, quiet, page, late, overtaken, marks>>
<1> DEFINE r == [step |-> "inserted", by |-> work[w].by, kind |-> work[w].kind,
                 last |-> work[w].last, stamp |-> work[w].stamp, age |-> work[w].age,
                 id |-> nextId]
<1>1. TypeOK /\ Bounded
  BY DEF Tidy
<1>2. work[w].step = "stamped"
  BY DEF SendInsert, At
<1>3. w \in Timed /\ w \in Busy /\ w \notin Checked /\ w \in Stamped /\ w \notin InFlight
  BY <1>2 DEF Checked, Busy, Timed, Stamped, InFlight, At
<1>4. nextId \in Ids
  <2>1. Timed \in SUBSET Workers /\ Checked \in SUBSET Workers
    BY DEF Timed, Checked
  <2>2. Timed # {} /\ IsFiniteSet(Timed) /\ Cardinality(Timed) \in Nat
    BY <1>3, <2>1, Counts
  <2>3. Cardinality(Timed) # 0
    BY <2>2, FS_EmptySet
  <2>4. clock \in 1 .. MaxMessages + 1 /\ nextId + Cardinality(Timed) <= clock + 1
    BY <1>1 DEF TypeOK, Bounded
  <2>5. nextId \in 2 .. MaxMessages + 2
    BY <1>1 DEF TypeOK
  <2> QED
    BY <2>2, <2>3, <2>4, <2>5, Constants DEF Ids
<1>5. r \in {Idle} \cup Sending
  <2>1. /\ work[w].by \in Sides /\ work[w].kind \in {"text", "phone"}
        /\ work[w].last \in 0 .. NotifyEvery
        /\ work[w].stamp \in Ids /\ work[w].age \in Ages
    BY <1>1, <1>3, WorkFields
  <2> QED
    BY <2>1, <1>4 DEF Sending
<1>6. Set(w, r)
  BY DEF SendInsert
<1>7. /\ work' \in [Workers -> {Idle} \cup Sending]
      /\ work'[w] = r
      /\ \A x \in Workers \ {w} : work'[x] = work[x]
  BY <1>1, <1>5, <1>6, OneWorker
<1>8. /\ Busy' = Busy /\ Checked' = Checked /\ Timed' = Timed \ {w}
      /\ InFlight' = InFlight \cup {w} /\ Stamped' = Stamped
  BY <1>2, <1>7 DEF Busy, Checked, Timed, InFlight, Stamped, At
<1>9. /\ nextId' = nextId + 1
      /\ UNCHANGED <<phase, messages, clock, quiet, page, late, overtaken, marks>>
  BY DEF SendInsert
<1>10. /\ work'[w].by = work[w].by /\ work'[w].kind = work[w].kind
       /\ work'[w].last = work[w].last
       /\ work'[w].stamp = work[w].stamp /\ work'[w].age = work[w].age
       /\ work'[w].id = nextId
  BY <1>7
<1> QED
  BY <1>3, <1>4, <1>7, <1>8, <1>9, <1>10

\* A worker that is done, or gone, is idle.
LEMMA EndEffect ==
  ASSUME TypeOK, NEW w \in Workers, Set(w, Idle)
  PROVE  /\ work' \in [Workers -> {Idle} \cup Sending]
         /\ \A x \in Workers \ {w} : work'[x] = work[x]
         /\ Busy' = Busy \ {w}
         /\ Checked' = Checked \ {w}
         /\ Timed' = Timed \ {w}
         /\ InFlight' = InFlight \ {w}
         /\ Stamped' = Stamped \ {w}
<1>1. /\ work' \in [Workers -> {Idle} \cup Sending]
      /\ work'[w] = Idle
      /\ \A x \in Workers \ {w} : work'[x] = work[x]
  BY OneWorker
<1>2. work'[w].step = "idle"
  BY <1>1 DEF Idle
<1> QED
  BY <1>1, <1>2 DEF Busy, Checked, Timed, InFlight, Stamped, At

\* The message a worker commits.
Sends(w) == [id |-> work[w].id, stamp |-> work[w].stamp, by |-> work[w].by,
             kind |-> work[w].kind, age |-> work[w].age]

LEMMA CommitEffect ==
  ASSUME TypeOK, NEW w \in Workers, SendCommit(w)
  PROVE  /\ w \in InFlight /\ w \in Stamped /\ w \in Busy
         /\ w \notin Checked /\ w \notin Timed
         /\ Sends(w) \in Message
         /\ messages' = messages \cup {Sends(w)}
         /\ quiet' = IF Notifies(w) THEN [quiet EXCEPT ![Other(work[w].by)] = 0] ELSE quiet
         /\ lastAt' = work[w].stamp
         /\ Mark(work[w].by, work[w].stamp, Seen(work[w].by))
         /\ Set(w, Idle)
         /\ late' = IF writable THEN 0 ELSE late + 1
         /\ overtaken' = overtaken \cup {work[x].id : x \in {y \in InFlight : work[y].id < work[w].id}}
         /\ UNCHANGED <<phase, nextId, clock, page>>
<1>1. work[w].step = "inserted"
  BY DEF SendCommit, At
<1>2. w \in InFlight /\ w \in Stamped /\ w \in Busy /\ w \notin Checked /\ w \notin Timed
  BY <1>1 DEF InFlight, Stamped, Busy, Checked, Timed, At
<1>3. Sends(w) \in Message
  BY <1>2, WorkFields DEF Sends, Message
<1> QED
  BY <1>2, <1>3 DEF SendCommit, Sends

-----------------------------------------------------------------------------
(* What marking as read does, and what time does *)

LEMMA StampsOfIds ==
  ASSUME TypeOK, NEW ids
  PROVE  StampsOf(ids) \in SUBSET Ids
BY MessageFields DEF StampsOf

LEMMA UnshownIds ==
  ASSUME TypeOK, NEW s, NEW moment, NEW shown
  PROVE  Unshown(s, moment, shown) \in SUBSET Ids
<1>1. \A m \in messages : m.stamp \in Ids
  BY MessageFields
<1>2. Stamped \subseteq Workers
  BY DEF Stamped, InFlight
<1>3. \A w \in Stamped : work[w].stamp \in Ids
  BY <1>2, WorkFields
<1> QED
  BY <1>1, <1>3 DEF Unshown

LEMMA MarkEffect ==
  ASSUME TypeOK, NEW s \in Sides, NEW moment \in Ids, NEW shown, Mark(s, moment, shown)
  PROVE  /\ readAt' \in [Readers -> 0 .. MaxMessages + 1]
         /\ missed' \in [Readers -> SUBSET Ids]
         /\ \A r \in Readers \ {s} : readAt'[r] = readAt[r] /\ missed'[r] = missed[r]
         /\ s \in Readers =>
              /\ readAt'[s] = moment
              /\ missed'[s] = (missed[s] \ StampsOf(shown)) \cup Unshown(s, moment, shown)
<1>1. readAt \in [Readers -> 0 .. MaxMessages + 1] /\ missed \in [Readers -> SUBSET Ids]
  BY DEF TypeOK
<1>2. moment \in 0 .. MaxMessages + 1
  BY Constants DEF Ids
<1>3. ASSUME s \in Readers
      PROVE  (missed[s] \ StampsOf(shown)) \cup Unshown(s, moment, shown) \in SUBSET Ids
  BY <1>1, <1>3, UnshownIds
<1> QED
  BY <1>1, <1>2, <1>3 DEF Mark

Aged(m) == [m EXCEPT !.age = Older(@, AgeMax)]

\* Time changes the ages and nothing else.
LEMMA AgedMessage ==
  ASSUME NEW m \in Message
  PROVE  /\ Aged(m) \in Message
         /\ Aged(m).id = m.id /\ Aged(m).stamp = m.stamp
         /\ Aged(m).by = m.by /\ Aged(m).kind = m.kind
         /\ Aged(m).age = Older(m.age, AgeMax)
         /\ m.age <= Aged(m).age
<1>1. m.age \in Ages
  BY DEF Message
<1>2. Older(m.age, AgeMax) \in Ages /\ m.age <= Older(m.age, AgeMax)
  BY <1>1, Constants DEF Ages, Older, Upto
<1> QED
  BY <1>2 DEF Message, Aged

LEMMA AgedCount ==
  ASSUME NEW S \in SUBSET Message, IsFiniteSet(S)
  PROVE  /\ IsFiniteSet({Aged(m) : m \in S})
         /\ Cardinality({Aged(m) : m \in S}) <= Cardinality(S)
<1> DEFINE T == {Aged(m) : m \in S}
           f == [m \in S |-> Aged(m)]
<1>1. f \in Surjection(S, T)
  BY DEF Surjection
<1> HIDE DEF f
<1> QED
  BY <1>1, FS_Surjection

LEMMA TickMessages ==
  ASSUME TypeOK, Tick
  PROVE  /\ messages' = {Aged(m) : m \in messages}
         /\ messages' \subseteq Message
         /\ CommittedIds' = CommittedIds
         /\ \A i, j : Before(i, j)' <=> Before(i, j)
         /\ \A m \in messages' : \E n \in messages : m = Aged(n)
<1>1. messages' = {Aged(m) : m \in messages}
  BY DEF Tick, Aged
<1>2. \A m \in messages : m \in Message
  BY DEF TypeOK
<1>3. messages' \subseteq Message
  BY <1>1, <1>2, AgedMessage
<1>4. CommittedIds' = CommittedIds
  BY <1>1, <1>2, AgedMessage DEF CommittedIds
<1>5. \A i, j : Before(i, j)' <=> Before(i, j)
  BY <1>1, <1>2, AgedMessage DEF Before
<1> QED
  BY <1>1, <1>3, <1>4, <1>5

LEMMA TickWork ==
  ASSUME TypeOK, Tick
  PROVE  /\ work' \in [Workers -> {Idle} \cup Sending]
         /\ Busy' = Busy /\ Checked' = Checked /\ Timed' = Timed
         /\ InFlight' = InFlight /\ Stamped' = Stamped
         /\ \A w \in Busy : /\ work'[w].by = work[w].by /\ work'[w].kind = work[w].kind
                            /\ work'[w].last = Older(work[w].last, NotifyEvery)
         /\ \A w \in Stamped : /\ work'[w].stamp = work[w].stamp
                               /\ work'[w].age = Older(work[w].age, AgeMax)
         /\ \A w \in InFlight : work'[w].id = work[w].id
<1>1. \A w \in Workers : work[w] \in {Idle} \cup Sending
  BY DEF TypeOK
<1>2. \A a \in Ages : Older(a, AgeMax) \in Ages
  BY Constants DEF Ages, Older, Upto
<1>3. \A a \in 0 .. NotifyEvery : Older(a, NotifyEvery) \in 0 .. NotifyEvery
  BY Constants DEF Older, Upto
<1>4. ASSUME NEW w \in Workers
      PROVE  /\ work'[w] \in {Idle} \cup Sending
             /\ work'[w].step = work[w].step
             /\ w \in Busy => /\ work'[w].by = work[w].by /\ work'[w].kind = work[w].kind
                              /\ work'[w].last = Older(work[w].last, NotifyEvery)
             /\ w \in Stamped => /\ work'[w].stamp = work[w].stamp
                                 /\ work'[w].age = Older(work[w].age, AgeMax)
             /\ w \in InFlight => work'[w].id = work[w].id
  <2>1. CASE work[w].step = "idle"
    <3>1. work'[w] = Idle /\ work[w] = Idle
      BY <2>1, <1>1, WorkFields DEF Tick, At, Busy
    <3> QED
      BY <3>1, <2>1 DEF Busy, Stamped, InFlight, At
  <2>2. CASE work[w].step = "checked"
    <3>1. work'[w] = [work[w] EXCEPT !.last = Older(@, NotifyEvery)]
      BY <2>2 DEF Tick, At
    <3>2. work[w] \in [step : {"checked"}, by : Sides, kind : {"text", "phone"}, last : 0 .. NotifyEvery]
      BY <2>2, <1>1 DEF Idle, Sending
    <3> QED
      BY <2>2, <3>1, <3>2, <1>3 DEF Sending, Busy, Stamped, InFlight, At
  <2>3. CASE work[w].step = "stamped"
    <3>1. work'[w] = [work[w] EXCEPT !.last = Older(@, NotifyEvery), !.age = Older(@, AgeMax)]
      BY <2>3 DEF Tick, At
    <3>2. work[w] \in [step : {"stamped"}, by : Sides, kind : {"text", "phone"},
                       last : 0 .. NotifyEvery, stamp : Ids, age : Ages]
      BY <2>3, <1>1 DEF Idle, Sending
    <3> QED
      BY <2>3, <3>1, <3>2, <1>2, <1>3 DEF Sending, Busy, Stamped, InFlight, At
  <2>4. CASE work[w].step = "inserted"
    <3>1. work'[w] = [work[w] EXCEPT !.last = Older(@, NotifyEvery), !.age = Older(@, AgeMax)]
      BY <2>4 DEF Tick, At
    <3>2. work[w] \in [step : {"inserted"}, by : Sides, kind : {"text", "phone"},
                       last : 0 .. NotifyEvery, stamp : Ids, age : Ages, id : Ids]
      BY <2>4, <1>1 DEF Idle, Sending
    <3> QED
      BY <2>4, <3>1, <3>2, <1>2, <1>3 DEF Sending, Busy, Stamped, InFlight, At
  <2> QED
    BY <2>1, <2>2, <2>3, <2>4, WorkFields
<1>5. work' = [w \in Workers |-> work'[w]]
  BY DEF Tick
<1>6. work' \in [Workers -> {Idle} \cup Sending]
  BY <1>4, <1>5
<1>7. /\ Busy' = Busy /\ Checked' = Checked /\ Timed' = Timed
      /\ InFlight' = InFlight /\ Stamped' = Stamped
  BY <1>4 DEF Busy, Checked, Timed, InFlight, Stamped, At
<1>8. Busy \subseteq Workers /\ Stamped \subseteq Workers /\ InFlight \subseteq Workers
  BY DEF Busy, Stamped, InFlight
<1> QED
  BY <1>4, <1>6, <1>7, <1>8

-----------------------------------------------------------------------------
(* Types and numbers *)

LEMMA InitTidy == Init => Tidy
<1> SUFFICES ASSUME Init PROVE Tidy
  OBVIOUS
<1>1. OpeningNote \in Message
  BY Constants DEF OpeningNote, Message, Ids, Ages
<1>2. TypeOK
  <2>1. 1 \in Ids /\ QuietMax \in Quiets /\ NoPage \in Page
    BY Constants DEF Ids, Quiets, NoPage, Page
  <2> QED
    BY <1>1, <2>1, Constants DEF Init, TypeOK
<1>3. \A w \in Workers : work[w].step = "idle"
  BY DEF Init, Idle
<1>4. Checked = {} /\ Timed = {} /\ Stamped = {} /\ InFlight = {}
  BY <1>3 DEF Checked, Timed, Stamped, InFlight, At
<1>5. Bounded
  BY <1>4, FS_EmptySet, Constants DEF Init, Bounded
<1>6. Numbered
  BY <1>4 DEF Init, Numbered, OpeningNote
<1>7. IsFiniteSet(messages)
  BY FS_Singleton DEF Init
<1> QED
  BY <1>2, <1>5, <1>6, <1>7 DEF Tidy

LEMMA CheckTidy ==
  ASSUME Tidy, NEW w \in Workers, SendCheck(w)
  PROVE  Tidy'
<1>1. TypeOK /\ IsFiniteSet(messages) /\ Bounded /\ Numbered
  BY DEF Tidy
<1>2. /\ work' \in [Workers -> {Idle} \cup Sending]
      /\ \A x \in Workers \ {w} : work'[x] = work[x]
      /\ Checked' = Checked \cup {w} /\ Timed' = Timed
      /\ InFlight' = InFlight /\ Stamped' = Stamped /\ w \notin Stamped
      /\ clock + Cardinality(Checked) <= MaxMessages
      /\ UNCHANGED <<phase, messages, nextId, clock, quiet, page, late, overtaken, marks>>
  BY <1>1, CheckEffect
<1>3. TypeOK'
  BY <1>1, <1>2 DEF TypeOK, marks
<1>4. Bounded'
  <2>1. Checked \in SUBSET Workers
    BY DEF Checked
  <2>2. IsFiniteSet(Checked) /\ Cardinality(Checked) \in Nat
    BY <2>1, Counts
  <2>3. Cardinality(Checked') <= Cardinality(Checked) + 1 /\ Cardinality(Checked') \in Nat
    BY <1>2, <2>2, CountOneMore
  <2>4. clock \in Nat
    BY <1>1, Constants DEF TypeOK
  <2> QED
    BY <1>1, <1>2, <2>2, <2>3, <2>4, Constants DEF Bounded
<1>5. Numbered'
  <2>1. Stamped \subseteq Workers \ {w} /\ InFlight \subseteq Stamped
    BY <1>2 DEF Stamped, InFlight
  <2>2. \A x \in Stamped : work'[x] = work[x]
    BY <1>2, <2>1
  <2> QED
    BY <1>1, <1>2, <2>1, <2>2 DEF Numbered
<1> QED
  BY <1>1, <1>2, <1>3, <1>4, <1>5 DEF Tidy

LEMMA StampTidy ==
  ASSUME Tidy, NEW w \in Workers, SendStamp(w)
  PROVE  Tidy'
<1>1. TypeOK /\ IsFiniteSet(messages) /\ Bounded /\ Numbered
  BY DEF Tidy
<1>2. /\ work' \in [Workers -> {Idle} \cup Sending]
      /\ \A x \in Workers \ {w} : work'[x] = work[x]
      /\ work'[w].stamp = clock + 1
      /\ w \in Checked /\ Checked' = Checked \ {w}
      /\ Timed' = Timed \cup {w}
      /\ InFlight' = InFlight
      /\ w \notin Stamped /\ Stamped' = Stamped \cup {w}
      /\ clock + 1 \in Ids /\ clock' = clock + 1
      /\ UNCHANGED <<phase, messages, nextId, quiet, page, late, overtaken, marks>>
  BY StampEffect
<1>3. clock \in Nat /\ clock' \in 1 .. MaxMessages + 1 /\ nextId \in Nat
  BY <1>1, <1>2, Constants DEF TypeOK, Ids
<1>4. TypeOK'
  BY <1>1, <1>2, <1>3 DEF TypeOK, marks
<1>5. Bounded'
  <2>1. Checked \in SUBSET Workers /\ Timed \in SUBSET Workers
    BY DEF Checked, Timed
  <2>2. /\ IsFiniteSet(Checked) /\ Cardinality(Checked) \in Nat
        /\ IsFiniteSet(Timed) /\ Cardinality(Timed) \in Nat
    BY <2>1, Counts
  <2>3. Cardinality(Checked') = Cardinality(Checked) - 1
    BY <1>2, <2>2, CountOneLess
  <2>4. Cardinality(Timed') <= Cardinality(Timed) + 1 /\ Cardinality(Timed') \in Nat
    BY <1>2, <2>2, CountOneMore
  <2> QED
    BY <1>1, <1>2, <1>3, <2>2, <2>3, <2>4, Constants DEF Bounded
<1>6. Numbered'
  <2>1. Stamped \subseteq Workers \ {w} /\ InFlight \subseteq Stamped
    BY <1>2 DEF Stamped, InFlight
  <2>2. \A x \in Stamped : work'[x] = work[x] /\ work[x].stamp \in Ids /\ work[x].stamp <= clock
    BY <1>1, <1>2, <2>1, WorkFields DEF Numbered
  <2>3. \A m \in messages : m.stamp \in Ids /\ m.stamp <= clock
    BY <1>1, MessageFields DEF Numbered
  <2>4. \A x \in Stamped : work'[x].stamp # clock + 1
    BY <2>2, <1>3 DEF Ids
  <2>5. \A m \in messages : m.stamp # clock + 1 /\ m.stamp <= clock + 1
    BY <2>3, <1>3 DEF Ids
  <2>6. \A x \in Stamped : work'[x].stamp <= clock + 1
    BY <2>2, <1>3 DEF Ids
  <2>7. \A x \in Stamped' : work'[x].stamp <= clock' /\ \A m \in messages' : m.stamp # work'[x].stamp
    BY <1>1, <1>2, <1>3, <2>2, <2>5, <2>6 DEF Numbered
  <2>8. \A x, y \in Stamped' : work'[x].stamp = work'[y].stamp => x = y
    BY <1>1, <1>2, <2>2, <2>4 DEF Numbered
  <2>9. /\ \A x \in InFlight' : work'[x].id < nextId' /\ \A m \in messages' : m.id # work'[x].id
        /\ \A x, y \in InFlight' : work'[x].id = work'[y].id => x = y
    BY <1>1, <1>2, <2>1, <2>2 DEF Numbered
  <2>10. /\ messages' # {}
         /\ \A m, n \in messages' : m.id = n.id \/ m.stamp = n.stamp => m = n
         /\ \A m \in messages' : m.id < nextId' /\ m.stamp <= clock'
    BY <1>1, <1>2, <2>5 DEF Numbered
  <2> QED
    BY <2>7, <2>8, <2>9, <2>10 DEF Numbered
<1> QED
  BY <1>1, <1>2, <1>4, <1>5, <1>6 DEF Tidy

LEMMA InsertTidy ==
  ASSUME Tidy, NEW w \in Workers, SendInsert(w)
  PROVE  Tidy'
<1>1. TypeOK /\ IsFiniteSet(messages) /\ Bounded /\ Numbered
  BY DEF Tidy
<1>2. /\ work' \in [Workers -> {Idle} \cup Sending]
      /\ \A x \in Workers \ {w} : work'[x] = work[x]
      /\ work'[w].stamp = work[w].stamp /\ work'[w].id = nextId
      /\ Checked' = Checked
      /\ w \in Timed /\ Timed' = Timed \ {w}
      /\ w \notin InFlight /\ InFlight' = InFlight \cup {w}
      /\ w \in Stamped /\ Stamped' = Stamped
      /\ nextId \in Ids /\ nextId' = nextId + 1
      /\ UNCHANGED <<phase, messages, clock, quiet, page, late, overtaken, marks>>
  BY InsertEffect
<1>3. clock \in Nat /\ nextId \in Nat /\ nextId' \in 2 .. MaxMessages + 2
  BY <1>1, <1>2, Constants DEF TypeOK, Ids
<1>4. TypeOK'
  BY <1>1, <1>2, <1>3 DEF TypeOK, marks
<1>5. Bounded'
  <2>1. Checked \in SUBSET Workers /\ Timed \in SUBSET Workers
    BY DEF Checked, Timed
  <2>2. IsFiniteSet(Timed) /\ Cardinality(Timed) \in Nat
    BY <2>1, Counts
  <2>3. Cardinality(Timed') = Cardinality(Timed) - 1
    BY <1>2, <2>2, CountOneLess
  <2> QED
    BY <1>1, <1>2, <1>3, <2>2, <2>3, Constants DEF Bounded
<1>6. Numbered'
  <2>1. Stamped \subseteq Workers /\ InFlight \subseteq Stamped
    BY DEF Stamped, InFlight
  <2>2. \A x \in Stamped : work'[x].stamp = work[x].stamp
    BY <1>2, <2>1
  <2>3. \A x \in InFlight : work'[x].id = work[x].id /\ work[x].id \in Ids /\ work[x].id < nextId
    BY <1>1, <1>2, <2>1, WorkFields DEF Numbered
  <2>4. \A m \in messages : m.id \in Ids /\ m.id < nextId
    BY <1>1, MessageFields DEF Numbered
  <2>5. /\ \A x \in InFlight : work'[x].id # nextId /\ work'[x].id < nextId + 1
        /\ \A m \in messages : m.id # nextId /\ m.id < nextId + 1
        /\ nextId < nextId + 1
    BY <2>3, <2>4, <1>3 DEF Ids
  <2>6. /\ \A x \in Stamped' : work'[x].stamp <= clock' /\ \A m \in messages' : m.stamp # work'[x].stamp
        /\ \A x, y \in Stamped' : work'[x].stamp = work'[y].stamp => x = y
    BY <1>1, <1>2, <2>2 DEF Numbered
  <2>7. /\ \A x \in InFlight' : work'[x].id < nextId' /\ \A m \in messages' : m.id # work'[x].id
        /\ \A x, y \in InFlight' : work'[x].id = work'[y].id => x = y
    BY <1>1, <1>2, <2>3, <2>5 DEF Numbered
  <2>8. /\ messages' # {}
        /\ \A m, n \in messages' : m.id = n.id \/ m.stamp = n.stamp => m = n
        /\ \A m \in messages' : m.id < nextId' /\ m.stamp <= clock'
    BY <1>1, <1>2, <2>5 DEF Numbered
  <2> QED
    BY <2>6, <2>7, <2>8 DEF Numbered
<1> QED
  BY <1>1, <1>2, <1>4, <1>5, <1>6 DEF Tidy

LEMMA CommitTidy ==
  ASSUME Tidy, NEW w \in Workers, SendCommit(w)
  PROVE  Tidy'
<1>1. TypeOK /\ IsFiniteSet(messages) /\ Bounded /\ Numbered
  BY DEF Tidy
<1>2. /\ w \in InFlight /\ w \in Stamped /\ w \in Busy
      /\ w \notin Checked /\ w \notin Timed
      /\ Sends(w) \in Message
      /\ messages' = messages \cup {Sends(w)}
      /\ quiet' = IF Notifies(w) THEN [quiet EXCEPT ![Other(work[w].by)] = 0] ELSE quiet
      /\ lastAt' = work[w].stamp
      /\ Mark(work[w].by, work[w].stamp, Seen(work[w].by))
      /\ Set(w, Idle)
      /\ late' = IF writable THEN 0 ELSE late + 1
      /\ overtaken' = overtaken \cup {work[x].id : x \in {y \in InFlight : work[y].id < work[w].id}}
      /\ UNCHANGED <<phase, nextId, clock, page>>
  BY <1>1, CommitEffect
<1>3. /\ work' \in [Workers -> {Idle} \cup Sending]
      /\ \A x \in Workers \ {w} : work'[x] = work[x]
      /\ Checked' = Checked \ {w} /\ Timed' = Timed \ {w}
      /\ InFlight' = InFlight \ {w} /\ Stamped' = Stamped \ {w}
  BY <1>1, <1>2, EndEffect
<1>4. work[w].by \in Sides /\ work[w].stamp \in Ids /\ Other(work[w].by) \in Sides
  BY <1>1, <1>2, WorkFields
<1>5. /\ readAt' \in [Readers -> 0 .. MaxMessages + 1]
      /\ missed' \in [Readers -> SUBSET Ids]
  BY <1>1, <1>2, <1>4, MarkEffect
<1>6. TypeOK'
  <2>1. messages' \subseteq Message
    BY <1>1, <1>2 DEF TypeOK
  <2>2. quiet' \in [Sides -> Quiets]
    BY <1>1, <1>2, <1>4, Constants DEF TypeOK, Quiets
  <2>3. overtaken' \subseteq Ids
    <3>1. \A x \in InFlight : work[x].id \in Ids
      BY <1>1, WorkFields DEF InFlight
    <3> QED
      BY <1>1, <1>2, <3>1 DEF TypeOK
  <2>4. late' \in Nat
    BY <1>1, <1>2 DEF TypeOK
  <2> QED
    BY <1>1, <1>2, <1>3, <1>4, <1>5, <2>1, <2>2, <2>3, <2>4 DEF TypeOK
<1>7. Bounded'
  BY <1>1, <1>2, <1>3 DEF Bounded
<1>8. Numbered'
  <2>1. Stamped \subseteq Workers /\ InFlight \subseteq Stamped
    BY DEF Stamped, InFlight
  <2>2. \A x \in Stamped \ {w} : work'[x] = work[x]
    BY <1>3, <2>1
  <2>3. Sends(w).id = work[w].id /\ Sends(w).stamp = work[w].stamp
    BY DEF Sends
  <2>4. /\ messages' # {}
        /\ \A m \in messages' : m.id < nextId' /\ m.stamp <= clock'
    BY <1>1, <1>2, <2>3 DEF Numbered
  <2>5. \A m, n \in messages' : m.id = n.id \/ m.stamp = n.stamp => m = n
    BY <1>1, <1>2, <2>3 DEF Numbered
  <2>6. /\ \A x \in Stamped' : work'[x].stamp <= clock' /\ \A m \in messages' : m.stamp # work'[x].stamp
        /\ \A x, y \in Stamped' : work'[x].stamp = work'[y].stamp => x = y
    BY <1>1, <1>2, <1>3, <2>2, <2>3 DEF Numbered
  <2>7. /\ \A x \in InFlight' : work'[x].id < nextId' /\ \A m \in messages' : m.id # work'[x].id
        /\ \A x, y \in InFlight' : work'[x].id = work'[y].id => x = y
    BY <1>1, <1>2, <1>3, <2>1, <2>2, <2>3 DEF Numbered
  <2> QED
    BY <2>4, <2>5, <2>6, <2>7 DEF Numbered
<1>9. IsFiniteSet(messages')
  BY <1>1, <1>2, FS_AddElement
<1> QED
  BY <1>6, <1>7, <1>8, <1>9 DEF Tidy

LEMMA RollbackEffect ==
  ASSUME TypeOK, NEW w \in Workers, SendRollback(w)
  PROVE  /\ w \in Busy /\ Set(w, Idle)
         /\ missed' \in [Readers -> SUBSET Ids]
         /\ \A s \in Readers :
              missed'[s] = IF w \in Stamped THEN missed[s] \ {work[w].stamp} ELSE missed[s]
         /\ overtaken' = IF w \in InFlight THEN overtaken \ {work[w].id} ELSE overtaken
         /\ UNCHANGED <<phase, messages, nextId, clock, quiet, page, lastAt, readAt, late>>
<1>1. missed' = IF w \in Stamped THEN [s \in Readers |-> missed[s] \ {work[w].stamp}] ELSE missed
  BY DEF SendRollback
<1>2. /\ missed' \in [Readers -> SUBSET Ids]
      /\ \A s \in Readers :
           missed'[s] = IF w \in Stamped THEN missed[s] \ {work[w].stamp} ELSE missed[s]
  BY <1>1 DEF TypeOK
<1> QED
  BY <1>2 DEF SendRollback, Busy

LEMMA RollbackTidy ==
  ASSUME Tidy, NEW w \in Workers, SendRollback(w)
  PROVE  Tidy'
<1>1. TypeOK /\ IsFiniteSet(messages) /\ Bounded /\ Numbered
  BY DEF Tidy
<1>2. /\ Set(w, Idle)
      /\ missed' \in [Readers -> SUBSET Ids]
      /\ overtaken' \subseteq overtaken
      /\ UNCHANGED <<phase, messages, nextId, clock, quiet, page, lastAt, readAt, late>>
  BY <1>1, RollbackEffect
<1>3. /\ work' \in [Workers -> {Idle} \cup Sending]
      /\ \A x \in Workers \ {w} : work'[x] = work[x]
      /\ Checked' = Checked \ {w} /\ Timed' = Timed \ {w}
      /\ InFlight' = InFlight \ {w} /\ Stamped' = Stamped \ {w}
  BY <1>1, <1>2, EndEffect
<1>4. TypeOK'
  BY <1>1, <1>2, <1>3 DEF TypeOK
<1>5. Bounded'
  <2>1. Checked \in SUBSET Workers /\ Timed \in SUBSET Workers
    BY DEF Checked, Timed
  <2>2. /\ IsFiniteSet(Checked) /\ Cardinality(Checked) \in Nat
        /\ IsFiniteSet(Timed) /\ Cardinality(Timed) \in Nat
    BY <2>1, Counts
  <2>3. /\ Checked' \in SUBSET Checked /\ Timed' \in SUBSET Timed
    BY <1>3
  <2>4. /\ Cardinality(Checked') <= Cardinality(Checked) /\ Cardinality(Checked') \in Nat
        /\ Cardinality(Timed') <= Cardinality(Timed) /\ Cardinality(Timed') \in Nat
    BY <2>2, <2>3, FS_Subset, FS_CardinalityType
  <2>5. clock \in Nat /\ nextId \in Nat
    BY <1>1, Constants DEF TypeOK
  <2> QED
    BY <1>1, <1>2, <2>2, <2>4, <2>5, Constants DEF Bounded
<1>6. Numbered'
  <2>1. Stamped \subseteq Workers /\ InFlight \subseteq Stamped
    BY DEF Stamped, InFlight
  <2>2. \A x \in Stamped \ {w} : work'[x] = work[x]
    BY <1>3, <2>1
  <2> QED
    BY <1>1, <1>2, <1>3, <2>1, <2>2 DEF Numbered
<1> QED
  BY <1>1, <1>2, <1>4, <1>5, <1>6 DEF Tidy

LEMMA PageFields ==
  ASSUME TypeOK, NEW s \in Readers
  PROVE  /\ s \in Sides
         /\ page[s] \in Page
         /\ page[s].state \in {"closed", "opening", "open", "fetched", "polling"}
         /\ page[s].after \in 0 .. MaxMessages + 1
         /\ page[s].shown \in SUBSET Ids /\ page[s].got \in SUBSET Ids
BY ConversationsAssumption DEF TypeOK, Page, Sides

LEMMA CommittedAreIds ==
  ASSUME TypeOK
  PROVE  CommittedIds \in SUBSET Ids /\ CommittedIds \in SUBSET (0 .. MaxMessages + 1)
<1>1. CommittedIds \in SUBSET Ids
  BY MessageFields DEF CommittedIds
<1> QED
  BY <1>1, Constants DEF Ids

\* The page always finds a last message to begin with.
LEMMA LatestIn ==
  ASSUME Tidy
  PROVE  Latest(CommittedIds) \in CommittedIds
<1> DEFINE T == {m.stamp : m \in messages}
<1>1. TypeOK /\ Numbered
  BY DEF Tidy
<1>2. T # {} /\ T \in SUBSET (0 .. MaxMessages + 1)
  <2>1. \A m \in messages : m.stamp \in 0 .. MaxMessages + 1
    BY <1>1, MessageFields, Constants DEF Ids
  <2> QED
    BY <1>1, <2>1 DEF Numbered
<1>3. PICK t \in T : \A u \in T : u <= t
  <2> HIDE DEF T
  <2>1. MaxMessages + 1 \in Nat
    BY Constants
  <2> QED
    BY <1>2, <2>1, GreatestExists
<1>4. PICK m \in messages : m.stamp = t
  BY <1>3
<1>5. m.id \in CommittedIds
  BY <1>4 DEF CommittedIds
<1>6. \A j \in CommittedIds : ~Before(m.id, j)
  <2> SUFFICES ASSUME NEW a \in messages, NEW b \in messages, a.id = m.id, a.stamp < b.stamp
               PROVE  FALSE
    BY DEF Before
  <2>1. a = m
    BY <1>1, <1>4 DEF Numbered
  <2>2. b.stamp \in T
    OBVIOUS
  <2>3. b.stamp <= t /\ b.stamp \in Int /\ t \in Int
    BY <1>2, <1>3, <2>2
  <2> QED
    BY <1>4, <2>1, <2>3
<1> QED
  BY <1>5, <1>6 DEF Latest

LEMMA PageTidy ==
  ASSUME Tidy, NEW s \in Readers, PageStep(s)
  PROVE  /\ Tidy'
         /\ UNCHANGED <<phase, messages, nextId, clock, work, quiet, lastAt, late, overtaken>>
<1>1. TypeOK /\ IsFiniteSet(messages) /\ Bounded /\ Numbered
  BY DEF Tidy
<1>2. UNCHANGED <<phase, messages, nextId, clock, work, quiet, lastAt, late, overtaken>>
  BY DEF PageStep, PageOpen, PageList, Poll, PollMark, PollAnswer, PollLost, marks
<1>3. /\ s \in Sides /\ page[s] \in Page
      /\ page[s].after \in 0 .. MaxMessages + 1
      /\ page[s].shown \in SUBSET Ids /\ page[s].got \in SUBSET Ids
  BY <1>1, PageFields
<1>4. CommittedIds \in SUBSET Ids /\ CommittedIds \in SUBSET (0 .. MaxMessages + 1)
  BY <1>1, CommittedAreIds
<1>5. clock \in Ids /\ clock \in 0 .. MaxMessages + 1
  BY <1>1, Constants DEF TypeOK, Ids
<1>6. page \in [Readers -> Page] /\ readAt \in [Readers -> 0 .. MaxMessages + 1]
      /\ missed \in [Readers -> SUBSET Ids]
  BY <1>1 DEF TypeOK
<1>7. \A ids, jds : (missed[s] \ StampsOf(ids)) \cup (StampsOf(jds) \ StampsOf(page[s].shown)) \in SUBSET Ids
  BY <1>1, <1>6, StampsOfIds
<1>8. \A p \in Page : [page EXCEPT ![s] = p] \in [Readers -> Page]
  BY <1>6
<1>9. page' \in [Readers -> Page] /\ readAt' \in [Readers -> 0 .. MaxMessages + 1]
      /\ missed' \in [Readers -> SUBSET Ids]
  <2>1. CASE PageOpen(s)
    <3>1. Unshown(s, clock, {}) \in SUBSET Ids
      BY <1>1, UnshownIds
    <3>2. [NoPage EXCEPT !.state = "opening"] \in Page
      BY Constants DEF NoPage, Page
    <3>3. page' \in [Readers -> Page]
      BY <2>1, <3>2, <1>8 DEF PageOpen
    <3> QED
      BY <2>1, <3>1, <3>3, <1>5, <1>6 DEF PageOpen
  <2>6. CASE PageList(s)
    <3>1. Latest(CommittedIds) \in 0 .. MaxMessages + 1
      BY <1>4, LatestIn
    <3>2. [state |-> "open", after |-> Latest(CommittedIds), shown |-> CommittedIds, got |-> {}] \in Page
      BY <3>1, <1>4 DEF Page
    <3>3. page' \in [Readers -> Page]
      BY <2>6, <3>2, <1>8 DEF PageList
    <3>4. missed' \in [Readers -> SUBSET Ids]
      BY <2>6, <1>6 DEF PageList
    <3> QED
      BY <2>6, <3>3, <3>4, <1>6 DEF PageList
  <2>2. CASE Poll(s)
    <3>1. NewFor(s) \in SUBSET Ids
      BY <1>4 DEF NewFor
    <3> QED
      BY <2>2, <3>1, <1>3, <1>6 DEF Poll, marks, Page
  <2>3. CASE PollMark(s)
    <3>1. page' \in [Readers -> Page]
      BY <2>3, <1>3, <1>6 DEF PollMark, Page
    <3>2. Mark(s, clock, page[s].shown \cup page[s].got)
      BY <2>3 DEF PollMark
    <3> QED
      BY <3>1, <3>2, <1>1, <1>3, <1>5, MarkEffect
  <2>4. CASE PollAnswer(s)
    <3>1. Highest(page[s].got, page[s].after) \in 0 .. MaxMessages + 1
      <4>1. CASE page[s].got = {}
        BY <4>1, <1>3 DEF Highest
      <4>2. CASE page[s].got # {}
        <5>1. MaxMessages + 1 \in Nat /\ page[s].got \in SUBSET (0 .. MaxMessages + 1)
          BY <1>3, Constants DEF Ids
        <5> QED
          BY <4>2, <5>1, HighestIn
      <4> QED
        BY <4>1, <4>2
    <3>2. Drawn(s) \in SUBSET Ids
      BY <1>3 DEF Drawn
    <3>3. [state |-> "open", after |-> Highest(page[s].got, page[s].after),
           shown |-> page[s].shown \cup Drawn(s), got |-> {}] \in Page
      BY <1>3, <3>1, <3>2 DEF Page
    <3>4. page' \in [Readers -> Page]
      BY <2>4, <1>6, <3>3, <1>8 DEF PollAnswer
    <3>5. missed' \in [Readers -> SUBSET Ids]
      BY <2>4, <1>6, <1>7 DEF PollAnswer, MissOf
    <3> QED
      BY <2>4, <3>4, <3>5, <1>6 DEF PollAnswer
  <2>5. CASE PollLost(s)
    <3>1. page' \in [Readers -> Page]
      BY <2>5, <1>3, <1>6 DEF PollLost, Page
    <3>2. missed' \in [Readers -> SUBSET Ids]
      BY <2>5, <1>6, <1>7 DEF PollLost, MissOf
    <3> QED
      BY <2>5, <3>1, <3>2, <1>6 DEF PollLost
  <2> QED
    BY <2>1, <2>2, <2>3, <2>4, <2>5, <2>6 DEF PageStep
<1>10. TypeOK'
  BY <1>1, <1>2, <1>9 DEF TypeOK
<1>11. Bounded' /\ Numbered'
  BY <1>1, <1>2 DEF Bounded, Numbered, Checked, Timed, Stamped, InFlight, At
<1> QED
  BY <1>1, <1>2, <1>10, <1>11 DEF Tidy

LEMMA RestTidy ==
  ASSUME Tidy, Close \/ Archive \/ Reopen \/ UNCHANGED vars
  PROVE  Tidy'
<1>1. TypeOK /\ IsFiniteSet(messages) /\ Bounded /\ Numbered
  BY DEF Tidy
<1>2. /\ UNCHANGED <<messages, nextId, clock, work, quiet, page, overtaken, marks>>
      /\ phase' \in {"writable", "readOnly", "archived"} /\ late' \in Nat
  <2>1. CASE Close
    BY <2>1, <1>1 DEF Close, TypeOK
  <2>2. CASE Reopen
    BY <2>2, <1>1 DEF Reopen, TypeOK
  <2>3. CASE UNCHANGED vars
    BY <2>3, <1>1 DEF vars, marks, TypeOK
  <2>4. CASE Archive
    BY <2>4, <1>1 DEF Archive, TypeOK
  <2> QED
    BY <2>1, <2>2, <2>3, <2>4
<1>3. TypeOK'
  BY <1>1, <1>2 DEF TypeOK, marks
<1>4. Bounded' /\ Numbered'
  BY <1>1, <1>2 DEF Bounded, Numbered, Checked, Timed, Stamped, InFlight, At
<1> QED
  BY <1>1, <1>2, <1>3, <1>4 DEF Tidy

LEMMA TickTidy ==
  ASSUME Tidy, Tick
  PROVE  Tidy'
<1>1. TypeOK /\ IsFiniteSet(messages) /\ Bounded /\ Numbered
  BY DEF Tidy
<1>2. /\ messages' = {Aged(m) : m \in messages} /\ messages' \subseteq Message
      /\ \A m \in messages' : \E n \in messages : m = Aged(n)
  BY <1>1, TickMessages
<1>3. /\ work' \in [Workers -> {Idle} \cup Sending]
      /\ Checked' = Checked /\ Timed' = Timed
      /\ InFlight' = InFlight /\ Stamped' = Stamped
      /\ \A w \in Stamped : work'[w].stamp = work[w].stamp
      /\ \A w \in InFlight : work'[w].id = work[w].id
  BY <1>1, TickWork
<1>4. UNCHANGED <<phase, nextId, clock, page, late, overtaken, marks>>
  BY DEF Tick
<1>5. quiet' \in [Sides -> Quiets]
  <2>1. \A q \in Quiets : Older(q, QuietMax) \in Quiets
    BY Constants DEF Quiets, Older, Upto
  <2> QED
    BY <1>1, <2>1 DEF Tick, TypeOK
<1>6. TypeOK'
  BY <1>1, <1>2, <1>3, <1>4, <1>5 DEF TypeOK, marks
<1>7. \A m \in messages : Aged(m).id = m.id /\ Aged(m).stamp = m.stamp
  BY <1>1, AgedMessage DEF TypeOK
<1>8. Numbered'
  <2>1. InFlight \subseteq Stamped
    BY DEF Stamped
  <2>2. /\ messages' # {}
        /\ \A m, n \in messages' : m.id = n.id \/ m.stamp = n.stamp => m = n
        /\ \A m \in messages' : m.id < nextId' /\ m.stamp <= clock'
    BY <1>1, <1>2, <1>4, <1>7 DEF Numbered
  <2>3. \A w \in Stamped' : work'[w].stamp <= clock' /\ \A m \in messages' : m.stamp # work'[w].stamp
    BY <1>1, <1>2, <1>3, <1>4, <1>7 DEF Numbered
  <2>4. \A w \in InFlight' : work'[w].id < nextId' /\ \A m \in messages' : m.id # work'[w].id
    BY <1>1, <1>2, <1>3, <1>4, <1>7 DEF Numbered
  <2> QED
    BY <1>1, <1>3, <2>2, <2>3, <2>4 DEF Numbered
<1>9. IsFiniteSet(messages')
  BY <1>1, <1>2, AgedCount DEF TypeOK
<1> QED
  BY <1>1, <1>3, <1>4, <1>6, <1>8, <1>9 DEF Tidy, Bounded

LEMMA NextTidy == Tidy /\ [Next]_vars => Tidy'
<1> SUFFICES ASSUME Tidy, [Next]_vars PROVE Tidy'
  OBVIOUS
<1>1. ASSUME NEW w \in Workers, SendStep(w) PROVE Tidy'
  BY <1>1, CheckTidy, StampTidy, InsertTidy, CommitTidy, RollbackTidy DEF SendStep
<1>2. ASSUME NEW s \in Readers, PageStep(s) PROVE Tidy'
  BY <1>2, PageTidy
<1> QED
  BY <1>1, <1>2, RestTidy, TickTidy DEF Next

-----------------------------------------------------------------------------
(* How far the unlocked checks are overrun *)

\* Whoever is sending has passed the checks, and all together are no more than
\* the workers.
Counted ==
  /\ \A s \in Sides :
       /\ Cardinality(Recent(s)) + Cardinality(Sender(s)) < RateLimit + Cardinality(Workers)
       /\ Cardinality(Phones(s)) + Cardinality(Sharer(s)) <= Cardinality(Workers)
  /\ IF writable THEN late = 0 ELSE late + Cardinality(Busy) <= Cardinality(Workers)

LEMMA FewerCounted ==
  ASSUME NEW S, IsFiniteSet(S), NEW T \in SUBSET S
  PROVE  /\ IsFiniteSet(T) /\ Cardinality(T) \in Nat /\ Cardinality(S) \in Nat
         /\ Cardinality(T) <= Cardinality(S)
BY FS_Subset, FS_CardinalityType

LEMMA CountNumbers ==
  ASSUME IsFiniteSet(messages), NEW s
  PROVE  /\ IsFiniteSet(Recent(s)) /\ Cardinality(Recent(s)) \in Nat
         /\ IsFiniteSet(Phones(s)) /\ Cardinality(Phones(s)) \in Nat
         /\ IsFiniteSet(Sender(s)) /\ Cardinality(Sender(s)) \in Nat
         /\ IsFiniteSet(Sharer(s)) /\ Cardinality(Sharer(s)) \in Nat
         /\ IsFiniteSet(Busy) /\ Cardinality(Busy) \in Nat
         /\ Cardinality(Workers) \in Nat
<1>1. Recent(s) \in SUBSET messages /\ Phones(s) \in SUBSET messages
  BY DEF Recent, Phones, Sent
<1>2. Sender(s) \in SUBSET Workers /\ Sharer(s) \in SUBSET Workers /\ Busy \in SUBSET Workers
  BY DEF Sender, Sharer, Busy
<1>3. /\ IsFiniteSet(Recent(s)) /\ Cardinality(Recent(s)) \in Nat
      /\ IsFiniteSet(Phones(s)) /\ Cardinality(Phones(s)) \in Nat
  BY <1>1, FewerCounted
<1>4. /\ IsFiniteSet(Sender(s)) /\ Cardinality(Sender(s)) \in Nat
      /\ IsFiniteSet(Sharer(s)) /\ Cardinality(Sharer(s)) \in Nat
      /\ IsFiniteSet(Busy) /\ Cardinality(Busy) \in Nat
      /\ Cardinality(Workers) \in Nat
  BY <1>2, Counts
<1> QED
  BY <1>3, <1>4

LEMMA CheckCounted ==
  ASSUME Tidy, Counted, NEW w \in Workers, SendCheck(w)
  PROVE  Counted'
<1>1. TypeOK /\ IsFiniteSet(messages)
  BY DEF Tidy
<1>2. /\ \A x \in Workers \ {w} : work'[x] = work[x]
      /\ w \notin Busy /\ Busy' = Busy \cup {w}
      /\ UNCHANGED <<phase, messages, nextId, clock, quiet, page, late, overtaken, marks>>
  BY <1>1, CheckEffect
<1>3. PICK s \in Sides, kind \in {"text", "phone"} :
        MayWrite(s, kind) /\ work'[w].by = s /\ work'[w].kind = kind
  BY <1>1, CheckEffect
<1>4. Busy \subseteq Workers \ {w}
  BY <1>2 DEF Busy
<1>5. \A t \in Sides \ {s} : Sender(t)' = Sender(t) /\ Sharer(t)' = Sharer(t)
  BY <1>2, <1>3, <1>4 DEF Sender, Sharer
<1>6. kind = "text" => Sharer(s)' = Sharer(s)
  BY <1>2, <1>3, <1>4 DEF Sender, Sharer
<1>7. Sender(s)' \in SUBSET Workers /\ Sharer(s)' \in SUBSET Workers
  BY <1>2, <1>4 DEF Sender, Sharer
<1>8. /\ Cardinality(Sender(s)') <= Cardinality(Workers) /\ Cardinality(Sender(s)') \in Nat
      /\ Cardinality(Sharer(s)') <= Cardinality(Workers) /\ Cardinality(Sharer(s)') \in Nat
  BY <1>7, Counts
<1>9. \A t : Recent(t)' = Recent(t) /\ Phones(t)' = Phones(t)
  BY <1>2 DEF Recent, Phones, Sent
<1>10. Cardinality(Recent(s)) < RateLimit
  BY <1>3 DEF MayWrite
<1>11. Cardinality(Recent(s)') + Cardinality(Sender(s)') < RateLimit + Cardinality(Workers)
  BY <1>1, <1>8, <1>9, <1>10, CountNumbers, Constants
<1>12. Cardinality(Phones(s)') + Cardinality(Sharer(s)') <= Cardinality(Workers)
  <2>1. CASE kind = "text"
    BY <2>1, <1>6, <1>9 DEF Counted
  <2>2. CASE kind = "phone"
    <3>1. Phones(s)' = {}
      BY <2>2, <1>3, <1>9 DEF MayWrite
    <3>2. Cardinality(Phones(s)') = 0
      BY <3>1, FS_EmptySet
    <3> QED
      BY <3>2, <1>1, <1>8, CountNumbers
  <2> QED
    BY <2>1, <2>2
<1>13. writable' /\ late' = 0
  BY <1>2, <1>3 DEF Counted, MayWrite, writable
<1> QED
  BY <1>5, <1>9, <1>11, <1>12, <1>13 DEF Counted

LEMMA CommitCounted ==
  ASSUME Tidy, Counted, NEW w \in Workers, SendCommit(w)
  PROVE  Counted'
<1>1. TypeOK /\ IsFiniteSet(messages)
  BY DEF Tidy
<1>2. /\ w \in Busy
      /\ messages' = messages \cup {Sends(w)}
      /\ late' = IF writable THEN 0 ELSE late + 1
      /\ Set(w, Idle)
      /\ writable' = writable
  BY <1>1, CommitEffect DEF writable
<1>3. /\ \A x \in Workers \ {w} : work'[x] = work[x]
      /\ Busy' = Busy \ {w}
  BY <1>1, <1>2, EndEffect
<1>4. Busy \subseteq Workers
  BY DEF Busy
<1>5. \A s \in Sides : Sender(s)' = Sender(s) \ {w} /\ Sharer(s)' = Sharer(s) \ {w}
  BY <1>3, <1>4 DEF Sender, Sharer
<1>6. /\ Sends(w).by = work[w].by /\ Sends(w).kind = work[w].kind
  BY DEF Sends
<1>7. ASSUME NEW s \in Sides
      PROVE  Cardinality(Recent(s)') + Cardinality(Sender(s)') < RateLimit + Cardinality(Workers)
  <2>1. CASE work[w].by = s
    <3>1. w \in Sender(s)
      BY <2>1, <1>2 DEF Sender
    <3>2. Cardinality(Sender(s)') = Cardinality(Sender(s)) - 1
      BY <3>1, <1>1, <1>5, CountNumbers, CountOneLess
    <3>3. Recent(s)' \in SUBSET (Recent(s) \cup {Sends(w)})
      BY <1>2 DEF Recent, Sent
    <3>4. /\ IsFiniteSet(Recent(s) \cup {Sends(w)})
          /\ Cardinality(Recent(s) \cup {Sends(w)}) \in Nat
          /\ Cardinality(Recent(s) \cup {Sends(w)}) <= Cardinality(Recent(s)) + 1
      BY <1>1, CountNumbers, CountOneMore
    <3>5. Cardinality(Recent(s)') \in Nat /\ Cardinality(Recent(s)') <= Cardinality(Recent(s)) + 1
      BY <1>1, <3>3, <3>4, FewerCounted, CountNumbers
    <3> QED
      BY <1>1, <3>2, <3>5, CountNumbers, Constants DEF Counted
  <2>2. CASE work[w].by # s
    <3>1. Recent(s)' = Recent(s)
      BY <2>2, <1>2, <1>6 DEF Recent, Sent
    <3>2. Sender(s)' = Sender(s)
      BY <2>2, <1>5 DEF Sender
    <3> QED
      BY <3>1, <3>2 DEF Counted
  <2> QED
    BY <2>1, <2>2
<1>8. ASSUME NEW s \in Sides
      PROVE  Cardinality(Phones(s)') + Cardinality(Sharer(s)') <= Cardinality(Workers)
  <2>1. CASE work[w].by = s /\ work[w].kind = "phone"
    <3>1. w \in Sharer(s)
      BY <2>1, <1>2 DEF Sender, Sharer
    <3>2. Cardinality(Sharer(s)') = Cardinality(Sharer(s)) - 1
      BY <3>1, <1>1, <1>5, CountNumbers, CountOneLess
    <3>3. Phones(s)' = Phones(s) \cup {Sends(w)}
      BY <2>1, <1>2, <1>6 DEF Phones, Sent
    <3>4. /\ Cardinality(Phones(s)') \in Nat
          /\ Cardinality(Phones(s)') <= Cardinality(Phones(s)) + 1
      BY <3>3, <1>1, CountNumbers, CountOneMore
    <3> QED
      BY <1>1, <3>2, <3>4, CountNumbers, Constants DEF Counted
  <2>2. CASE ~(work[w].by = s /\ work[w].kind = "phone")
    <3>1. Phones(s)' = Phones(s)
      BY <2>2, <1>2, <1>6 DEF Phones, Sent
    <3>2. Sharer(s)' = Sharer(s)
      BY <2>2, <1>5 DEF Sender, Sharer
    <3> QED
      BY <3>1, <3>2 DEF Counted
  <2> QED
    BY <2>1, <2>2
<1>9. IF writable' THEN late' = 0 ELSE late' + Cardinality(Busy') <= Cardinality(Workers)
  <2>1. CASE writable
    BY <2>1, <1>2
  <2>2. CASE ~writable
    <3>1. Cardinality(Busy') = Cardinality(Busy) - 1
      BY <1>1, <1>2, <1>3, CountNumbers, CountOneLess
    <3>2. late + Cardinality(Busy) <= Cardinality(Workers)
      BY <2>2 DEF Counted
    <3>3. late \in Nat /\ late' = late + 1
      BY <1>1, <1>2, <2>2 DEF TypeOK
    <3> QED
      BY <1>1, <1>2, <2>2, <3>1, <3>2, <3>3, CountNumbers
  <2> QED
    BY <2>1, <2>2
<1> QED
  BY <1>7, <1>8, <1>9 DEF Counted

\* No count grows.
LEMMA LessCounted ==
  ASSUME Tidy, Counted, IsFiniteSet(messages'), UNCHANGED <<phase, late>>,
         Busy' \subseteq Busy,
         \A s \in Sides :
           /\ Cardinality(Recent(s)') <= Cardinality(Recent(s))
           /\ Cardinality(Phones(s)') <= Cardinality(Phones(s))
           /\ Sender(s)' \subseteq Sender(s)
           /\ Sharer(s)' \subseteq Sharer(s)
  PROVE  Counted'
<1>1. TypeOK /\ IsFiniteSet(messages)
  BY DEF Tidy
<1>2. late \in Nat
  BY <1>1 DEF TypeOK
<1>3. /\ \A s \in Sides : /\ Cardinality(Sender(s)') <= Cardinality(Sender(s))
                          /\ Cardinality(Sharer(s)') <= Cardinality(Sharer(s))
                          /\ Cardinality(Sender(s)') \in Nat
                          /\ Cardinality(Sharer(s)') \in Nat
      /\ Cardinality(Busy') <= Cardinality(Busy)
      /\ Cardinality(Busy') \in Nat
  BY <1>1, CountNumbers, FewerCounted
<1>4. \A s : /\ Recent(s)' \in SUBSET messages' /\ Phones(s)' \in SUBSET messages'
  BY DEF Recent, Phones, Sent
<1>5. \A s : Cardinality(Recent(s)') \in Nat /\ Cardinality(Phones(s)') \in Nat
  BY <1>4, FewerCounted
<1>6. ASSUME NEW s \in Sides
      PROVE  /\ Cardinality(Recent(s)') + Cardinality(Sender(s)') < RateLimit + Cardinality(Workers)
             /\ Cardinality(Phones(s)') + Cardinality(Sharer(s)') <= Cardinality(Workers)
  BY <1>1, <1>3, <1>5, CountNumbers, Constants DEF Counted
<1>7. IF writable' THEN late' = 0 ELSE late' + Cardinality(Busy') <= Cardinality(Workers)
  <2>1. writable' <=> writable
    BY DEF writable
  <2> QED
    BY <1>1, <1>2, <1>3, <2>1, CountNumbers DEF Counted
<1> QED
  BY <1>6, <1>7 DEF Counted

LEMMA InitCounted == Init => Counted
<1> SUFFICES ASSUME Init PROVE Counted
  OBVIOUS
<1>1. \A w \in Workers : work[w].step = "idle"
  BY DEF Init, Idle
<1>2. Busy = {} /\ \A s : Sender(s) = {} /\ Sharer(s) = {}
  BY <1>1 DEF Busy, Sender, Sharer, At
<1>3. \A s \in Sides : Recent(s) = {} /\ Phones(s) = {}
  BY DEF Init, OpeningNote, Recent, Phones, Sent, Sides
<1>4. Cardinality(Workers) \in Nat
  BY Constants, FS_CardinalityType
<1> QED
  <2>1. Cardinality({}) = 0
    BY FS_EmptySet
  <2>2. \A s \in Sides : /\ Cardinality(Recent(s)) = 0 /\ Cardinality(Phones(s)) = 0
                         /\ Cardinality(Sender(s)) = 0 /\ Cardinality(Sharer(s)) = 0
    BY <1>2, <1>3, <2>1
  <2>3. writable /\ late = 0
    BY DEF Init, writable
  <2> QED
    BY <2>2, <2>3, <1>4, Constants DEF Counted

LEMMA TickCounted ==
  ASSUME Tidy, Counted, Tick
  PROVE  Counted'
<1>1. TypeOK /\ IsFiniteSet(messages) /\ messages \in SUBSET Message
  BY DEF Tidy, TypeOK
<1>2. /\ messages' = {Aged(m) : m \in messages}
      /\ \A m \in messages' : \E n \in messages : m = Aged(n)
  BY <1>1, TickMessages
<1>3. /\ Busy' = Busy
      /\ \A w \in Busy : work'[w].by = work[w].by /\ work'[w].kind = work[w].kind
  BY <1>1, TickWork
<1>4. \A s \in Sides : Sender(s)' = Sender(s) /\ Sharer(s)' = Sharer(s)
  BY <1>3 DEF Sender, Sharer
<1>5. \A m \in messages : /\ Aged(m).by = m.by /\ Aged(m).kind = m.kind
                          /\ m.age <= Aged(m).age
                          /\ m.age \in Int /\ Aged(m).age \in Int
  <2>1. \A m \in Message : m.age \in Int
    BY Constants DEF Message, Ages
  <2> QED
    BY <1>1, <2>1, AgedMessage
<1>6. ASSUME NEW s \in Sides
      PROVE  /\ Cardinality(Recent(s)') <= Cardinality(Recent(s))
             /\ Cardinality(Phones(s)') <= Cardinality(Phones(s))
  <2>1. /\ Recent(s) \in SUBSET Message /\ Phones(s) \in SUBSET Message
        /\ IsFiniteSet(Recent(s)) /\ IsFiniteSet(Phones(s))
        /\ Cardinality(Recent(s)) \in Nat /\ Cardinality(Phones(s)) \in Nat
    BY <1>1, CountNumbers DEF Recent, Phones, Sent
  <2>2. /\ Recent(s)' \in SUBSET {Aged(m) : m \in Recent(s)}
        /\ Phones(s)' \in SUBSET {Aged(m) : m \in Phones(s)}
    BY <1>2, <1>5, Constants DEF Recent, Phones, Sent
  <2>3. /\ IsFiniteSet({Aged(m) : m \in Recent(s)})
        /\ Cardinality({Aged(m) : m \in Recent(s)}) <= Cardinality(Recent(s))
        /\ IsFiniteSet({Aged(m) : m \in Phones(s)})
        /\ Cardinality({Aged(m) : m \in Phones(s)}) <= Cardinality(Phones(s))
    BY <2>1, AgedCount
  <2>4. /\ Cardinality(Recent(s)') <= Cardinality({Aged(m) : m \in Recent(s)})
        /\ Cardinality(Recent(s)') \in Nat /\ Cardinality({Aged(m) : m \in Recent(s)}) \in Nat
    BY <2>2, <2>3, FewerCounted
  <2>5. /\ Cardinality(Phones(s)') <= Cardinality({Aged(m) : m \in Phones(s)})
        /\ Cardinality(Phones(s)') \in Nat /\ Cardinality({Aged(m) : m \in Phones(s)}) \in Nat
    BY <2>2, <2>3, FewerCounted
  <2> QED
    BY <2>1, <2>3, <2>4, <2>5
<1>7. IsFiniteSet(messages') /\ UNCHANGED <<phase, late>>
  BY <1>1, <1>2, AgedCount DEF Tick
<1> QED
  BY <1>3, <1>4, <1>6, <1>7, LessCounted

\* Steps that send nothing, or only take a message further.
LEMMA QuietCounted ==
  ASSUME Tidy, Counted, UNCHANGED <<phase, late, messages>>, Busy' \subseteq Busy,
         \A w \in Busy' : work'[w].by = work[w].by /\ work'[w].kind = work[w].kind
  PROVE  Counted'
<1>1. IsFiniteSet(messages)
  BY DEF Tidy
<1>2. \A s \in Sides : Recent(s)' = Recent(s) /\ Phones(s)' = Phones(s)
  BY DEF Recent, Phones, Sent
<1>3. \A s \in Sides : Sender(s)' \subseteq Sender(s) /\ Sharer(s)' \subseteq Sharer(s)
  BY DEF Sender, Sharer
<1>4. \A s \in Sides : /\ Cardinality(Recent(s)') <= Cardinality(Recent(s))
                       /\ Cardinality(Phones(s)') <= Cardinality(Phones(s))
  BY <1>1, <1>2, CountNumbers
<1> QED
  BY <1>1, <1>3, <1>4, LessCounted

LEMMA NextCounted ==
  ASSUME Tidy, Counted, [Next]_vars
  PROVE  Counted'
<1>1. TypeOK
  BY DEF Tidy
<1>2. ASSUME NEW w \in Workers, SendStep(w) PROVE Counted'
  <2>1. Busy \subseteq Workers
    BY DEF Busy
  <2>2. CASE SendStamp(w)
    <3>1. /\ \A x \in Workers \ {w} : work'[x] = work[x]
          /\ work'[w].by = work[w].by /\ work'[w].kind = work[w].kind /\ Busy' = Busy
          /\ UNCHANGED <<phase, late, messages>>
      BY <2>2, StampEffect
    <3> QED
      BY <2>1, <3>1, QuietCounted
  <2>3. CASE SendInsert(w)
    <3>1. /\ \A x \in Workers \ {w} : work'[x] = work[x]
          /\ work'[w].by = work[w].by /\ work'[w].kind = work[w].kind /\ Busy' = Busy
          /\ UNCHANGED <<phase, late, messages>>
      BY <2>3, InsertEffect
    <3> QED
      BY <2>1, <3>1, QuietCounted
  <2>4. CASE SendRollback(w)
    <3>1. Set(w, Idle) /\ UNCHANGED <<phase, late, messages>>
      BY <2>4, <1>1, RollbackEffect
    <3>2. /\ \A x \in Workers \ {w} : work'[x] = work[x]
          /\ Busy' = Busy \ {w}
      BY <1>1, <3>1, EndEffect
    <3> QED
      BY <2>1, <3>1, <3>2, QuietCounted
  <2> QED
    BY <1>2, <2>2, <2>3, <2>4, CheckCounted, CommitCounted DEF SendStep
<1>3. ASSUME UNCHANGED <<messages, work>>, UNCHANGED <<phase, late>> PROVE Counted'
  <2>1. Busy' = Busy
    BY <1>3 DEF Busy, At
  <2> QED
    BY <1>3, <2>1, QuietCounted
<1>4. ASSUME NEW s \in Readers, PageStep(s) PROVE Counted'
  BY <1>3, <1>4, PageTidy
<1>5. CASE Close \/ Archive \/ Reopen
  <2>1. UNCHANGED <<messages, work>>
    BY <1>5 DEF Close, Archive, Reopen
  <2>2. /\ Busy' = Busy
        /\ \A s \in Sides : /\ Recent(s)' = Recent(s) /\ Phones(s)' = Phones(s)
                            /\ Sender(s)' = Sender(s) /\ Sharer(s)' = Sharer(s)
    BY <2>1 DEF Busy, At, Recent, Phones, Sent, Sender, Sharer
  <2>3. Cardinality(Busy) <= Cardinality(Workers) /\ Cardinality(Busy) \in Nat
    BY Counts DEF Busy
  <2>4. IF writable' THEN late' = 0 ELSE late' + Cardinality(Busy') <= Cardinality(Workers)
    BY <1>5, <2>2, <2>3 DEF Close, Archive, Reopen, Counted, writable
  <2> QED
    BY <2>2, <2>4 DEF Counted
<1>6. CASE UNCHANGED vars
  BY <1>3, <1>6 DEF vars
<1> QED
  BY <1>2, <1>4, <1>5, <1>6, TickCounted DEF Next

LEMMA CountedBounds ==
  ASSUME Tidy, Counted
  PROVE  OverrunsAreOverlaps
<1>1. IsFiniteSet(messages) /\ late \in Nat
  BY DEF Tidy, TypeOK
<1>2. \A s \in Sides : /\ Cardinality(Recent(s)) < RateLimit + Cardinality(Workers)
                       /\ Cardinality(Phones(s)) <= Cardinality(Workers)
  BY <1>1, CountNumbers, Constants DEF Counted
<1>3. late <= Cardinality(Workers)
  BY <1>1, CountNumbers DEF Counted
<1> QED
  BY <1>2, <1>3 DEF OverrunsAreOverlaps

-----------------------------------------------------------------------------
(* Notices *)

\* The value of notified_at a view has loaded is out of date in one way only:
\* another notice has gone out since.
LoadedHolds ==
  \A w \in Busy : work[w].last < NotifyEvery => quiet[Other(work[w].by)] <= work[w].last

LEMMA QuietFields ==
  ASSUME TypeOK, NEW s \in Sides
  PROVE  quiet[s] \in Quiets /\ quiet[s] \in Nat /\ quiet[s] <= QuietMax
BY Constants DEF TypeOK, Quiets

LEMMA TickQuiet ==
  ASSUME TypeOK, Tick, NEW s \in Sides
  PROVE  /\ quiet'[s] = Older(quiet[s], QuietMax)
         /\ quiet[s] <= quiet'[s] /\ quiet'[s] <= quiet[s] + 1 /\ quiet'[s] <= QuietMax
         /\ quiet'[s] \in Nat
<1>1. quiet'[s] = Older(quiet[s], QuietMax)
  BY DEF Tick
<1> QED
  BY <1>1, QuietFields, Constants DEF Older, Upto

LEMMA CommitQuiet ==
  ASSUME TypeOK, NEW w \in Workers, SendCommit(w)
  PROVE  /\ work[w].by \in Sides /\ Other(work[w].by) \in Sides
         /\ work[w].last \in 0 .. NotifyEvery /\ work[w].age \in Ages
         /\ \A s \in Sides : quiet'[s] <= quiet[s] /\ quiet'[s] \in Nat
         /\ Notifies(w) => quiet'[Other(work[w].by)] = 0
         /\ ~Notifies(w) => quiet' = quiet
         /\ \A s \in Sides \ {Other(work[w].by)} : quiet'[s] = quiet[s]
<1>1. /\ w \in InFlight /\ w \in Stamped /\ w \in Busy
      /\ quiet' = IF Notifies(w) THEN [quiet EXCEPT ![Other(work[w].by)] = 0] ELSE quiet
  BY CommitEffect
<1>2. /\ work[w].by \in Sides /\ Other(work[w].by) \in Sides
      /\ work[w].last \in 0 .. NotifyEvery /\ work[w].age \in Ages
  BY <1>1, WorkFields
<1>3. quiet \in [Sides -> Quiets] /\ \A s \in Sides : quiet[s] \in Nat
  BY QuietFields DEF TypeOK
<1> QED
  BY <1>1, <1>2, <1>3

LEMMA InitNoticed == Init => LoadedHolds /\ EveryMessageNoticed
<1> SUFFICES ASSUME Init PROVE LoadedHolds /\ EveryMessageNoticed
  OBVIOUS
<1>1. \A w \in Workers : work[w].step = "idle"
  BY DEF Init, Idle
<1>2. Busy = {}
  BY <1>1 DEF Busy, At
<1> QED
  BY <1>2 DEF LoadedHolds, EveryMessageNoticed, Init, OpeningNote

LEMMA CommitNoticed ==
  ASSUME Tidy, LoadedHolds, EveryMessageNoticed, NEW w \in Workers, SendCommit(w)
  PROVE  LoadedHolds' /\ EveryMessageNoticed'
<1>1. TypeOK
  BY DEF Tidy
<1>2. /\ w \in Busy /\ messages' = messages \cup {Sends(w)} /\ Set(w, Idle)
  BY <1>1, CommitEffect
<1>3. /\ \A x \in Workers \ {w} : work'[x] = work[x]
      /\ Busy' = Busy \ {w} /\ Busy \subseteq Workers
  BY <1>1, <1>2, EndEffect DEF Busy
<1>4. /\ work[w].by \in Sides /\ Other(work[w].by) \in Sides
      /\ work[w].last \in 0 .. NotifyEvery /\ work[w].age \in Ages
      /\ \A s \in Sides : quiet'[s] <= quiet[s] /\ quiet'[s] \in Nat
      /\ Notifies(w) => quiet'[Other(work[w].by)] = 0
      /\ ~Notifies(w) => quiet' = quiet
  BY <1>1, CommitQuiet
<1>5. LoadedHolds'
  <2> SUFFICES ASSUME NEW x \in Busy \ {w}, work[x].last < NotifyEvery
               PROVE  quiet'[Other(work[x].by)] <= work[x].last
    BY <1>3 DEF LoadedHolds
  <2>1. Other(work[x].by) \in Sides /\ work[x].last \in 0 .. NotifyEvery
    BY <1>1, <1>3, WorkFields
  <2>2. quiet[Other(work[x].by)] <= work[x].last
    BY DEF LoadedHolds
  <2> QED
    BY <1>1, <1>4, <2>1, <2>2, QuietFields
<1>6. quiet'[Other(work[w].by)] <= NotifyEvery + work[w].age
  <2>1. work[w].age \in Nat
    BY <1>4 DEF Ages
  <2>2. CASE Notifies(w)
    BY <2>1, <2>2, <1>4, Constants
  <2>3. CASE work[w].last < NotifyEvery
    <3>1. quiet[Other(work[w].by)] <= work[w].last
      BY <2>3, <1>2 DEF LoadedHolds
    <3> QED
      BY <2>1, <2>3, <3>1, <1>1, <1>4, QuietFields, Constants
  <2>4. CASE ~Notifies(w) /\ ~(work[w].last < NotifyEvery)
    <3>1. quiet[Other(work[w].by)] <= NotifyEvery
      BY <2>4, <1>1, <1>4, QuietFields, Constants DEF Notifies
    <3> QED
      BY <2>1, <2>4, <3>1, <1>1, <1>4, QuietFields, Constants
  <2> QED
    BY <2>2, <2>3, <2>4
<1>7. EveryMessageNoticed'
  <2> SUFFICES ASSUME NEW m \in messages', m.by # "system"
               PROVE  quiet'[Other(m.by)] <= NotifyEvery + m.age
    BY DEF EveryMessageNoticed
  <2>1. CASE m = Sends(w)
    BY <2>1, <1>6 DEF Sends
  <2>2. CASE m \in messages
    <3>1. m.by \in Sides /\ m.age \in Ages /\ Other(m.by) \in Sides
      BY <2>2, <1>1, MessageFields, OtherSide
    <3>2. quiet[Other(m.by)] <= NotifyEvery + m.age
      BY <2>2 DEF EveryMessageNoticed
    <3>3. m.age \in Nat
      BY <3>1 DEF Ages
    <3> QED
      BY <3>1, <3>2, <3>3, <1>1, <1>4, QuietFields, Constants
  <2> QED
    BY <1>2, <2>1, <2>2
<1> QED
  BY <1>5, <1>7

LEMMA TickNoticed ==
  ASSUME Tidy, LoadedHolds, EveryMessageNoticed, Tick
  PROVE  LoadedHolds' /\ EveryMessageNoticed'
<1>1. TypeOK
  BY DEF Tidy
<1>2. LoadedHolds'
  <2>1. /\ Busy' = Busy /\ Busy \subseteq Workers
        /\ \A w \in Busy : /\ work'[w].by = work[w].by
                           /\ work'[w].last = Older(work[w].last, NotifyEvery)
    BY <1>1, TickWork DEF Busy
  <2> SUFFICES ASSUME NEW w \in Busy, Older(work[w].last, NotifyEvery) < NotifyEvery
               PROVE  quiet'[Other(work[w].by)] <= Older(work[w].last, NotifyEvery)
    BY <2>1 DEF LoadedHolds
  <2>2. Other(work[w].by) \in Sides /\ work[w].last \in 0 .. NotifyEvery
    BY <1>1, <2>1, WorkFields
  <2>3. /\ work[w].last < NotifyEvery
        /\ Older(work[w].last, NotifyEvery) = work[w].last + 1
    BY <2>2, Constants DEF Older, Upto
  <2>4. quiet[Other(work[w].by)] <= work[w].last
    BY <2>3 DEF LoadedHolds
  <2> QED
    BY <2>2, <2>3, <2>4, <1>1, TickQuiet, QuietFields
<1>3. EveryMessageNoticed'
  <2> SUFFICES ASSUME NEW m \in messages', m.by # "system"
               PROVE  quiet'[Other(m.by)] <= NotifyEvery + m.age
    BY DEF EveryMessageNoticed
  <2>1. PICK n \in messages : m = Aged(n)
    BY <1>1, TickMessages
  <2>2. n \in Message /\ m.by = n.by /\ m.age = Older(n.age, AgeMax)
    BY <2>1, <1>1, MessageFields, AgedMessage
  <2>3. n.by \in Sides /\ n.age \in Ages /\ Other(n.by) \in Sides
    BY <2>2, <1>1, MessageFields, OtherSide
  <2>4. quiet[Other(n.by)] <= NotifyEvery + n.age
    BY <2>2 DEF EveryMessageNoticed
  <2>5. m.age = AgeMax \/ m.age = n.age + 1
    BY <2>2, <2>3, Constants DEF Ages, Older, Upto
  <2>6. /\ quiet'[Other(n.by)] <= quiet[Other(n.by)] + 1
        /\ quiet'[Other(n.by)] <= NotifyEvery + AgeMax
        /\ quiet'[Other(n.by)] \in Nat /\ quiet[Other(n.by)] \in Nat
    BY <1>1, <2>3, TickQuiet, QuietFields DEF QuietMax
  <2>7. n.age \in Nat
    BY <2>3 DEF Ages
  <2> QED
    BY <2>2, <2>4, <2>5, <2>6, <2>7, Constants
<1> QED
  BY <1>2, <1>3

LEMMA NextNoticed ==
  ASSUME Tidy, LoadedHolds, EveryMessageNoticed, [Next]_vars
  PROVE  LoadedHolds' /\ EveryMessageNoticed'
<1>1. TypeOK /\ Busy \subseteq Workers
  BY DEF Tidy, Busy
<1>2. ASSUME UNCHANGED <<messages, quiet>>, Busy' \subseteq Busy,
             \A x \in Busy' : work'[x].by = work[x].by /\ work'[x].last = work[x].last
      PROVE  LoadedHolds' /\ EveryMessageNoticed'
  BY <1>2 DEF LoadedHolds, EveryMessageNoticed
<1>3. ASSUME NEW w \in Workers, SendStep(w) PROVE LoadedHolds' /\ EveryMessageNoticed'
  <2>1. CASE SendCheck(w)
    <3>1. /\ \A x \in Workers \ {w} : work'[x] = work[x]
          /\ w \notin Busy /\ Busy' = Busy \cup {w}
          /\ messages' = messages /\ quiet' = quiet
      BY <2>1, <1>1, CheckEffect
    <3>2. PICK s \in Sides : /\ work'[w].by = s
                             /\ work'[w].last = Upto(quiet[Other(s)], NotifyEvery)
                             /\ quiet[Other(s)] \in Nat
      BY <2>1, <1>1, CheckEffect
    <3>3. work'[w].last < NotifyEvery => quiet'[Other(work'[w].by)] <= work'[w].last
      BY <3>1, <3>2, Constants DEF Upto
    <3> QED
      BY <1>1, <3>1, <3>3 DEF LoadedHolds, EveryMessageNoticed
  <2>2. CASE SendStamp(w)
    <3>1. /\ \A x \in Workers \ {w} : work'[x] = work[x]
          /\ work'[w].by = work[w].by /\ work'[w].last = work[w].last /\ Busy' = Busy
          /\ UNCHANGED <<messages, quiet>>
      BY <2>2, StampEffect
    <3> QED
      BY <1>1, <1>2, <3>1
  <2>3. CASE SendInsert(w)
    <3>1. /\ \A x \in Workers \ {w} : work'[x] = work[x]
          /\ work'[w].by = work[w].by /\ work'[w].last = work[w].last /\ Busy' = Busy
          /\ UNCHANGED <<messages, quiet>>
      BY <2>3, InsertEffect
    <3> QED
      BY <1>1, <1>2, <3>1
  <2>4. CASE SendRollback(w)
    <3>1. Set(w, Idle) /\ UNCHANGED <<messages, quiet>>
      BY <2>4, <1>1, RollbackEffect
    <3>2. /\ \A x \in Workers \ {w} : work'[x] = work[x]
          /\ Busy' = Busy \ {w}
      BY <1>1, <3>1, EndEffect
    <3> QED
      BY <1>1, <1>2, <3>1, <3>2
  <2> QED
    BY <1>3, <2>1, <2>2, <2>3, <2>4, CommitNoticed DEF SendStep
<1>4. ASSUME UNCHANGED <<messages, quiet, work>> PROVE LoadedHolds' /\ EveryMessageNoticed'
  BY <1>4, <1>2 DEF Busy, At
<1>5. ASSUME NEW s \in Readers, PageStep(s) PROVE LoadedHolds' /\ EveryMessageNoticed'
  BY <1>4, <1>5, PageTidy
<1>6. CASE Close \/ Archive \/ Reopen
  BY <1>4, <1>6 DEF Close, Archive, Reopen
<1>7. CASE UNCHANGED vars
  BY <1>4, <1>7 DEF vars
<1> QED
  BY <1>3, <1>5, <1>6, <1>7, TickNoticed DEF Next

LEMMA NextThrottled ==
  ASSUME Tidy, [Next]_vars, NEW s \in Sides
  PROVE  quiet'[s] < quiet[s] => quiet[s] > NotifyEvery
<1>1. TypeOK
  BY DEF Tidy
<1>2. ASSUME NEW w \in Workers, SendStep(w)
      PROVE  quiet'[s] < quiet[s] => quiet[s] > NotifyEvery
  <2>1. CASE SendCommit(w)
    <3>1. CASE Notifies(w) /\ s = Other(work[w].by)
      BY <3>1 DEF Notifies
    <3>2. CASE ~(Notifies(w) /\ s = Other(work[w].by))
      <4>1. quiet'[s] = quiet[s]
        BY <2>1, <3>2, <1>1, CommitQuiet
      <4> QED
        BY <4>1, <1>1, QuietFields
    <3> QED
      BY <3>1, <3>2
  <2>2. CASE ~SendCommit(w)
    <3>1. quiet' = quiet
      BY <1>2, <2>2 DEF SendStep, SendCheck, SendStamp, SendInsert, SendRollback
    <3> QED
      BY <3>1, <1>1, QuietFields
  <2> QED
    BY <2>1, <2>2
<1>3. CASE Tick
  BY <1>1, <1>3, TickQuiet, QuietFields
<1>4. ASSUME quiet' = quiet PROVE quiet'[s] < quiet[s] => quiet[s] > NotifyEvery
  BY <1>1, <1>4, QuietFields
<1>5. ASSUME NEW r \in Readers, PageStep(r) PROVE quiet' = quiet
  BY <1>5, PageTidy
<1>6. CASE Close \/ Archive \/ Reopen \/ UNCHANGED vars
  BY <1>4, <1>6 DEF Close, Archive, Reopen, vars
<1> QED
  BY <1>2, <1>3, <1>4, <1>5, <1>6 DEF Next

-----------------------------------------------------------------------------
(* What a page shows *)

\* An id that is still to be committed has been overtaken by every higher one
\* that is.
OvertakenNoted ==
  \A w \in InFlight : \A i \in CommittedIds : work[w].id < i => work[w].id \in overtaken

\* A page asks for ids above that of a message, and what an answer on its way
\* does not have of those below its last was overtaken.
PageHolds ==
  \A s \in Readers :
    /\ page[s].state \notin {"closed", "opening"} => page[s].after \in CommittedIds
    /\ page[s].state \in {"closed", "opening", "open"} => page[s].got = {}
    /\ page[s].got \subseteq CommittedIds
    /\ \A i \in CommittedIds \ page[s].got, j \in page[s].got :
         page[s].after < i /\ i < j => i \in overtaken

Passed(i) == \E j \in CommittedIds : j > i /\ Before(j, i)

Shows == OvertakenNoted /\ PageHolds /\ NothingSkipped

LEMMA SkippedHow ==
  NothingSkipped <=>
    \A s \in Readers : page[s].state \notin {"closed", "opening"} =>
      \A i \in CommittedIds : i <= page[s].after =>
        i \in page[s].shown \cup overtaken \/ Passed(i)
BY DEF NothingSkipped, Passed

LEMMA InitShows == Init => Shows
<1> SUFFICES ASSUME Init PROVE Shows
  OBVIOUS
<1>1. \A w \in Workers : work[w].step = "idle"
  BY DEF Init, Idle
<1>2. InFlight = {}
  BY <1>1 DEF InFlight, At
<1>3. \A s \in Readers : page[s].state = "closed" /\ page[s].got = {}
  BY DEF Init, NoPage
<1> QED
  BY <1>2, <1>3 DEF Shows, OvertakenNoted, PageHolds, NothingSkipped

\* Steps that commit nothing and are not the page's.
LEMMA IdleShows ==
  ASSUME Shows, UNCHANGED page, CommittedIds' = CommittedIds,
         \A i, j : Before(i, j)' <=> Before(i, j),
         \A w \in InFlight' : \A i \in CommittedIds : work'[w].id < i => work'[w].id \in overtaken',
         \A i \in CommittedIds : i \in overtaken => i \in overtaken'
  PROVE  Shows'
<1>1. OvertakenNoted'
  BY DEF OvertakenNoted
<1>2. PageHolds'
  BY DEF Shows, PageHolds
<1>3. \A i : Passed(i)' <=> Passed(i)
  BY DEF Passed
<1>4. NothingSkipped'
  <2> SUFFICES ASSUME NEW s \in Readers, page[s].state \notin {"closed", "opening"},
                      NEW i \in CommittedIds, i <= page[s].after
               PROVE  i \in page[s].shown \cup overtaken' \/ Passed(i)
    BY <1>3 DEF NothingSkipped, Passed
  <2>1. i \in page[s].shown \cup overtaken \/ Passed(i)
    BY SkippedHow DEF Shows
  <2> QED
    BY <2>1
<1> QED
  BY <1>1, <1>2, <1>4 DEF Shows

LEMMA CommitIds ==
  ASSUME Tidy, NEW w \in Workers, SendCommit(w)
  PROVE  /\ CommittedIds' = CommittedIds \cup {work[w].id}
         /\ work[w].id \notin CommittedIds
         /\ \A i, j : Before(i, j) => Before(i, j)'
         /\ \A i : Passed(i) => Passed(i)'
<1>1. w \in InFlight /\ messages' = messages \cup {Sends(w)}
  BY CommitEffect DEF Tidy
<1>2. CommittedIds' = CommittedIds \cup {work[w].id}
  <2>1. Sends(w).id = work[w].id
    BY DEF Sends
  <2>2. CommittedIds' = {m.id : m \in messages \cup {Sends(w)}}
    BY <1>1 DEF CommittedIds
  <2> QED
    BY <2>1, <2>2 DEF CommittedIds
<1>3. work[w].id \notin CommittedIds
  BY <1>1 DEF Tidy, Numbered, CommittedIds
<1>4. \A i, j : Before(i, j) => Before(i, j)'
  BY <1>1 DEF Before
<1> QED
  BY <1>2, <1>3, <1>4 DEF Passed

LEMMA CommitShows ==
  ASSUME Tidy, Shows, NEW w \in Workers, SendCommit(w)
  PROVE  Shows'
<1>1. TypeOK /\ OvertakenNoted /\ PageHolds
  BY DEF Tidy, Shows
<1>2. /\ w \in InFlight /\ Set(w, Idle) /\ page' = page
      /\ overtaken' = overtaken \cup {work[x].id : x \in {y \in InFlight : work[y].id < work[w].id}}
  BY <1>1, CommitEffect
<1>3. /\ \A x \in Workers \ {w} : work'[x] = work[x]
      /\ InFlight' = InFlight \ {w} /\ InFlight \subseteq Workers
  BY <1>1, <1>2, EndEffect DEF InFlight
<1>4. /\ CommittedIds' = CommittedIds \cup {work[w].id}
      /\ work[w].id \notin CommittedIds
      /\ \A i : Passed(i) => Passed(i)'
  BY CommitIds
<1>5. OvertakenNoted'
  <2> SUFFICES ASSUME NEW x \in InFlight \ {w}, NEW i \in CommittedIds', work[x].id < i
               PROVE  work[x].id \in overtaken'
    BY <1>3 DEF OvertakenNoted
  <2>1. CASE i \in CommittedIds
    BY <1>1, <1>2, <2>1 DEF OvertakenNoted
  <2>2. CASE i = work[w].id
    BY <1>2, <2>2
  <2> QED
    BY <1>4, <2>1, <2>2
<1>6. PageHolds'
  <2> SUFFICES ASSUME NEW s \in Readers
               PROVE  /\ page[s].state \notin {"closed", "opening"} => page[s].after \in CommittedIds'
                      /\ page[s].state \in {"closed", "opening", "open"} => page[s].got = {}
                      /\ page[s].got \subseteq CommittedIds'
                      /\ \A i \in CommittedIds' \ page[s].got, j \in page[s].got :
                           page[s].after < i /\ i < j => i \in overtaken'
    BY <1>2 DEF PageHolds
  <2>1. ASSUME NEW i \in CommittedIds' \ page[s].got, NEW j \in page[s].got,
               page[s].after < i /\ i < j
        PROVE  i \in overtaken'
    <3>1. CASE i \in CommittedIds
      BY <1>1, <1>2, <2>1, <3>1 DEF PageHolds
    <3>2. CASE i = work[w].id
      BY <1>1, <1>2, <2>1, <3>2 DEF PageHolds, OvertakenNoted
    <3> QED
      BY <1>4, <3>1, <3>2
  <2> QED
    BY <1>1, <1>4, <2>1 DEF PageHolds
<1>7. NothingSkipped'
  <2> SUFFICES ASSUME NEW s \in Readers, page[s].state \notin {"closed", "opening"},
                      NEW i \in CommittedIds', i <= page[s].after
               PROVE  i \in page[s].shown \cup overtaken' \/ Passed(i)'
    BY <1>2 DEF NothingSkipped, Passed
  <2>1. CASE i \in CommittedIds
    <3>1. i \in page[s].shown \cup overtaken \/ Passed(i)
      BY <2>1, SkippedHow DEF Shows
    <3> QED
      BY <3>1, <1>2, <1>4
  <2>2. CASE i = work[w].id
    <3>1. page[s].after \in CommittedIds
      BY <1>1 DEF PageHolds
    <3>2. i # page[s].after
      BY <2>2, <3>1, <1>4
    <3>3. i \in Int /\ page[s].after \in Int
      BY <2>2, <3>1, <1>1, <1>2, <1>3, WorkFields, CommittedAreIds DEF Ids
    <3>4. i < page[s].after
      BY <3>2, <3>3
    <3> QED
      BY <2>2, <3>1, <3>4, <1>1, <1>2 DEF OvertakenNoted
  <2> QED
    BY <1>4, <2>1, <2>2
<1> QED
  BY <1>5, <1>6, <1>7 DEF Shows

\* What a page does with an answer, and the steps of a page.
LEMMA DrawnOrPassed ==
  ASSUME Tidy, NEW s \in Readers, NEW i \in page[s].got, i > page[s].after,
         page[s].got \subseteq CommittedIds
  PROVE  i \in Drawn(s) \/ Passed(i)
<1> SUFFICES ASSUME i \notin Drawn(s) PROVE Passed(i)
  OBVIOUS
<1>1. PICK j \in page[s].got : Before(j, i) /\ ~(j < i)
  BY DEF Drawn
<1>2. i \in Int /\ j \in Int
  BY CommittedAreIds DEF Tidy, Ids
<1>3. j # i
  <2> SUFFICES ASSUME j = i PROVE FALSE
    OBVIOUS
  <2>1. PICK m, n \in messages : m.id = i /\ n.id = i /\ m.stamp < n.stamp
    BY <1>1 DEF Before
  <2>2. m = n
    BY <2>1 DEF Tidy, Numbered
  <2>3. m.stamp \in Int
    BY MessageFields DEF Tidy, Ids
  <2> QED
    BY <2>1, <2>2, <2>3
<1> QED
  BY <1>1, <1>2, <1>3 DEF Passed

LEMMA PageShows ==
  ASSUME Tidy, Shows, NEW s \in Readers, PageStep(s)
  PROVE  Shows'
<1>1. TypeOK /\ OvertakenNoted /\ PageHolds
  BY DEF Tidy, Shows
<1>2. UNCHANGED <<messages, work, overtaken>>
  BY PageTidy
<1>3. /\ CommittedIds' = CommittedIds
      /\ \A i : Passed(i)' <=> Passed(i)
  BY <1>2 DEF CommittedIds, Passed, Before
<1>4. OvertakenNoted'
  BY <1>1, <1>2, <1>3 DEF OvertakenNoted, InFlight, At
<1>5. \A r \in Readers \ {s} : page'[r] = page[r]
  BY <1>1 DEF TypeOK, PageStep, PageOpen, PageList, Poll, PollMark, PollAnswer, PollLost
<1>6. page \in [Readers -> Page]
  BY <1>1 DEF TypeOK
<1> DEFINE Holds(p) ==
      /\ p.state \notin {"closed", "opening"} => p.after \in CommittedIds
      /\ p.state \in {"closed", "opening", "open"} => p.got = {}
      /\ p.got \subseteq CommittedIds
      /\ \A i \in CommittedIds \ p.got, j \in p.got : p.after < i /\ i < j => i \in overtaken
    Skips(p) ==
      p.state \notin {"closed", "opening"} =>
        \A i \in CommittedIds : i <= p.after => i \in p.shown \cup overtaken \/ Passed(i)
<1>7. \A r \in Readers : Holds(page[r]) /\ Skips(page[r])
  BY <1>1, SkippedHow DEF PageHolds, Shows
<1>8. Holds(page'[s]) /\ Skips(page'[s])
  <2>1. CASE PageOpen(s)
    <3>1. page'[s] = [NoPage EXCEPT !.state = "opening"]
      BY <2>1, <1>6 DEF PageOpen
    <3>2. page'[s].state = "opening" /\ page'[s].got = {}
      BY <3>1 DEF NoPage
    <3> QED
      BY <3>2
  <2>6. CASE PageList(s)
    <3>1. page'[s] = [state |-> "open", after |-> Latest(CommittedIds),
                      shown |-> CommittedIds, got |-> {}]
      BY <2>6, <1>6 DEF PageList
    <3>2. Latest(CommittedIds) \in CommittedIds
      BY LatestIn
    <3> QED
      BY <3>1, <3>2
  <2>2. CASE Poll(s)
    <3>1. page' = [page EXCEPT ![s].state = "fetched", ![s].got = NewFor(s)]
      BY <2>2 DEF Poll
    <3>2. /\ page'[s].state = "fetched" /\ page'[s].got = NewFor(s)
          /\ page'[s].after = page[s].after /\ page'[s].shown = page[s].shown
      BY <3>1, <1>6 DEF Page
    <3>3. page[s].state = "open"
      BY <2>2 DEF Poll
    <3>4. Skips(page'[s])
      BY <3>2, <3>3, <1>7
    <3>5. /\ NewFor(s) \subseteq CommittedIds
          /\ \A i \in CommittedIds : page[s].after < i => i \in NewFor(s)
      BY DEF NewFor
    <3>6. page[s].after \in CommittedIds
      BY <3>3, <1>7
    <3>7. Holds(page'[s])
      BY <3>2, <3>5, <3>6
    <3> QED
      BY <3>4, <3>7
  <2>3. CASE PollMark(s)
    <3>1. page' = [page EXCEPT ![s].state = "polling"] /\ page[s].state = "fetched"
      BY <2>3 DEF PollMark
    <3>2. /\ page'[s].state = "polling" /\ page'[s].got = page[s].got
          /\ page'[s].after = page[s].after /\ page'[s].shown = page[s].shown
      BY <3>1, <1>6 DEF Page
    <3> QED
      BY <3>1, <3>2, <1>7
  <2>4. CASE PollAnswer(s)
    <3>1. /\ page[s].state = "polling"
          /\ page'[s] = [state |-> "open", after |-> Highest(page[s].got, page[s].after),
                         shown |-> page[s].shown \cup Drawn(s), got |-> {}]
      BY <2>4, <1>6 DEF PollAnswer
    <3> DEFINE h == Highest(page[s].got, page[s].after)
    <3>2. page[s].got = {} => h = page[s].after
      BY DEF Highest
    <3>3. page[s].got # {} => h \in page[s].got /\ \A j \in page[s].got : j <= h
      <4>1. MaxMessages + 1 \in Nat
        BY Constants
      <4>2. page[s].got \in SUBSET (0 .. MaxMessages + 1)
        BY <1>1, PageFields, Constants DEF Ids
      <4> QED
        BY <4>1, <4>2, HighestIn
    <3> HIDE DEF h
    <3>4. h \in CommittedIds
      BY <3>1, <3>2, <3>3, <1>7
    <3>5. ASSUME NEW i \in CommittedIds, i <= h
          PROVE  i \in page[s].shown \cup Drawn(s) \cup overtaken \/ Passed(i)
      <4>1. i \in Int /\ h \in Int /\ page[s].after \in Int
        BY <3>4, <1>1, CommittedAreIds, PageFields DEF Ids
      <4>2. CASE i <= page[s].after
        BY <3>1, <4>2, <1>7
      <4>3. CASE i > page[s].after /\ i \in page[s].got
        BY <4>3, <1>7, DrawnOrPassed
      <4>4. CASE i > page[s].after /\ i \notin page[s].got
        <5>1. page[s].got # {}
          BY <3>2, <3>5, <4>1, <4>4
        <5>2. h \in page[s].got /\ i < h
          BY <5>1, <3>3, <3>5, <4>1, <4>4
        <5> QED
          BY <5>2, <4>1, <4>4, <1>7
      <4> QED
        BY <4>1, <4>2, <4>3, <4>4
    <3>6. /\ page'[s].state = "open" /\ page'[s].after = h /\ page'[s].got = {}
          /\ page'[s].shown = page[s].shown \cup Drawn(s)
      BY <3>1 DEF h
    <3> QED
      BY <3>4, <3>5, <3>6
  <2>5. CASE PollLost(s)
    <3>1. page' = [page EXCEPT ![s].state = "open", ![s].got = {}] /\ page[s].state = "polling"
      BY <2>5 DEF PollLost
    <3>2. /\ page'[s].state = "open" /\ page'[s].got = {}
          /\ page'[s].after = page[s].after /\ page'[s].shown = page[s].shown
      BY <3>1, <1>6 DEF Page
    <3> QED
      BY <3>1, <3>2, <1>7
  <2> QED
    BY <2>1, <2>2, <2>3, <2>4, <2>5, <2>6 DEF PageStep
<1>9. \A r \in Readers : Holds(page'[r]) /\ Skips(page'[r])
  BY <1>5, <1>7, <1>8
<1>10. PageHolds'
  BY <1>2, <1>3, <1>9 DEF PageHolds
<1>11. NothingSkipped'
  <2> SUFFICES ASSUME NEW r \in Readers, page'[r].state \notin {"closed", "opening"},
                      NEW i \in CommittedIds, i <= page'[r].after
               PROVE  i \in page'[r].shown \cup overtaken \/ Passed(i)
    BY <1>2, <1>3 DEF NothingSkipped, Passed
  <2> QED
    BY <1>9
<1> QED
  BY <1>4, <1>10, <1>11 DEF Shows

LEMMA NextShows ==
  ASSUME Tidy, Shows, [Next]_vars
  PROVE  Shows'
<1>1. TypeOK /\ OvertakenNoted /\ InFlight \subseteq Workers
  BY DEF Tidy, Shows, InFlight
<1>2. messages' = messages =>
        CommittedIds' = CommittedIds /\ \A i, j : Before(i, j)' <=> Before(i, j)
  BY DEF CommittedIds, Before
<1>3. ASSUME NEW w \in Workers, SendStep(w) PROVE Shows'
  <2>1. CASE SendCheck(w) \/ SendStamp(w)
    <3>1. /\ \A x \in Workers \ {w} : work'[x] = work[x]
          /\ InFlight' = InFlight /\ w \notin InFlight
          /\ UNCHANGED <<messages, page, overtaken>>
      <4>1. CASE SendCheck(w)
        BY <4>1, <1>1, CheckEffect DEF Stamped
      <4>2. CASE SendStamp(w)
        BY <4>2, StampEffect DEF Stamped
      <4> QED
        BY <2>1, <4>1, <4>2
    <3> QED
      BY <1>1, <1>2, <3>1, IdleShows DEF OvertakenNoted
  <2>2. CASE SendInsert(w)
    <3>1. /\ \A x \in Workers \ {w} : work'[x] = work[x]
          /\ InFlight' = InFlight \cup {w} /\ w \notin InFlight
          /\ work'[w].id = nextId /\ nextId \in Ids
          /\ UNCHANGED <<messages, page, overtaken>>
      BY <2>2, InsertEffect
    <3>2. \A i \in CommittedIds : ~(nextId < i)
      <4>1. \A m \in messages : m.id < nextId /\ m.id \in Ids
        BY <1>1, MessageFields DEF Tidy, Numbered
      <4> QED
        BY <4>1, <3>1 DEF CommittedIds, Ids
    <3> QED
      BY <1>1, <1>2, <3>1, <3>2, IdleShows DEF OvertakenNoted
  <2>3. CASE SendRollback(w)
    <3>1. /\ Set(w, Idle) /\ UNCHANGED <<messages, page>>
          /\ overtaken' = IF w \in InFlight THEN overtaken \ {work[w].id} ELSE overtaken
      BY <2>3, <1>1, RollbackEffect
    <3>2. /\ \A x \in Workers \ {w} : work'[x] = work[x]
          /\ InFlight' = InFlight \ {w}
      BY <1>1, <3>1, EndEffect
    <3>3. w \in InFlight => /\ work[w].id \notin CommittedIds
                            /\ \A x \in InFlight \ {w} : work[x].id # work[w].id
      BY DEF Tidy, Numbered, CommittedIds
    <3> QED
      BY <1>1, <1>2, <3>1, <3>2, <3>3, IdleShows DEF OvertakenNoted
  <2> QED
    BY <1>3, <2>1, <2>2, <2>3, CommitShows DEF SendStep
<1>4. CASE Close \/ Archive \/ Reopen \/ UNCHANGED vars
  <2>1. UNCHANGED <<messages, work, page, overtaken>>
    BY <1>4 DEF Close, Archive, Reopen, vars
  <2>2. InFlight' = InFlight
    BY <2>1 DEF InFlight, At
  <2> QED
    BY <1>1, <1>2, <2>1, <2>2, IdleShows DEF OvertakenNoted
<1>5. CASE Tick
  <2>1. /\ CommittedIds' = CommittedIds /\ \A i, j : Before(i, j)' <=> Before(i, j)
        /\ InFlight' = InFlight /\ \A w \in InFlight : work'[w].id = work[w].id
    BY <1>1, <1>5, TickMessages, TickWork
  <2>2. UNCHANGED <<page, overtaken>>
    BY <1>5 DEF Tick
  <2> QED
    BY <1>1, <2>1, <2>2, IdleShows DEF OvertakenNoted
<1> QED
  BY <1>3, <1>4, <1>5, PageShows DEF Next

-----------------------------------------------------------------------------
(* What counts as unread *)

\* Whatever was stamped up to the moment a reader's mark stands for has been
\* shown, is in an answer on its way, or is noted as missed; also what has not
\* been committed.
MarkHolds ==
  \A s \in Readers :
    /\ readAt[s] <= clock
    /\ \A m \in Sent(Other(s)) : m.stamp <= readAt[s] =>
         m.id \in page[s].shown \cup page[s].got \/ m.stamp \in missed[s]
    /\ \A w \in Stamped :
         work[w].by = Other(s) /\ work[w].stamp <= readAt[s] => work[w].stamp \in missed[s]

\* The same for one reader, to be shown of the state after a step.
MarkedFor(s) ==
  /\ readAt[s] <= clock
  /\ \A m \in messages : m.by = Other(s) /\ m.stamp <= readAt[s] =>
       m.id \in page[s].shown \cup page[s].got \/ m.stamp \in missed[s]
  /\ \A w \in Stamped :
       work[w].by = Other(s) /\ work[w].stamp <= readAt[s] => work[w].stamp \in missed[s]

LEMMA MarkedForAll == MarkHolds <=> \A s \in Readers : MarkedFor(s)
BY DEF MarkHolds, MarkedFor, Sent

\* A stamp belongs to one message.
LEMMA StampOfOne ==
  ASSUME Tidy, NEW ids
  PROVE  /\ \A m \in messages : m.stamp \in StampsOf(ids) => m.id \in ids
         /\ \A m \in messages : m.id \in ids => m.stamp \in StampsOf(ids)
         /\ \A w \in Stamped : work[w].stamp \notin StampsOf(ids)
BY DEF Tidy, Numbered, StampsOf

LEMMA UnshownHas ==
  ASSUME NEW s, NEW moment, NEW shown
  PROVE  /\ \A m \in messages : m.by = Other(s) /\ m.stamp <= moment /\ m.id \notin shown
              => m.stamp \in Unshown(s, moment, shown)
         /\ \A w \in Stamped : work[w].by = Other(s) /\ work[w].stamp <= moment
              => work[w].stamp \in Unshown(s, moment, shown)
BY DEF Unshown

LEMMA InitMarked == Init => MarkHolds
<1> SUFFICES ASSUME Init PROVE MarkHolds
  OBVIOUS
<1>1. \A w \in Workers : work[w].step = "idle"
  BY DEF Init, Idle
<1>2. Stamped = {}
  BY <1>1 DEF Stamped, InFlight, At
<1>3. \A s : Sent(Other(s)) = {}
  BY DEF Init, Sent, OpeningNote, Other
<1> QED
  BY <1>2, <1>3 DEF Init, MarkHolds

LEMMA CommitMarked ==
  ASSUME Tidy, MarkHolds, NEW w \in Workers, SendCommit(w)
  PROVE  MarkHolds'
<1>1. TypeOK /\ \A s \in Readers : MarkedFor(s)
  BY MarkedForAll DEF Tidy
<1>2. /\ w \in Stamped /\ w \in Busy
      /\ messages' = messages \cup {Sends(w)}
      /\ Mark(work[w].by, work[w].stamp, Seen(work[w].by))
      /\ Set(w, Idle)
      /\ UNCHANGED <<clock, page>>
  BY <1>1, CommitEffect
<1>3. /\ \A x \in Workers \ {w} : work'[x] = work[x]
      /\ Stamped' = Stamped \ {w} /\ Stamped \subseteq Workers
  BY <1>1, <1>2, EndEffect DEF Stamped, InFlight
<1>4. work[w].by \in Sides /\ work[w].stamp \in Ids
  BY <1>1, <1>2, WorkFields
<1>5. Sends(w).by = work[w].by /\ Sends(w).stamp = work[w].stamp /\ Sends(w).id = work[w].id
  BY DEF Sends
<1>6. work[w].stamp <= clock
  BY <1>2 DEF Tidy, Numbered
<1>7. ASSUME NEW s \in Readers PROVE MarkedFor(s)'
  <2>1. s \in Sides /\ Other(s) \in Sides /\ Other(s) # s
    BY <1>1, PageFields, OtherSide
  <2>2. CASE work[w].by = s
    <3>1. /\ readAt'[s] = work[w].stamp
          /\ missed'[s] = (missed[s] \ StampsOf(page[s].shown))
                            \cup Unshown(s, work[w].stamp, page[s].shown)
      BY <1>1, <1>2, <1>4, <2>2, MarkEffect DEF Seen
    <3>2. ASSUME NEW m \in messages', m.by = Other(s), m.stamp <= readAt'[s]
          PROVE  m.id \in page[s].shown \cup page[s].got \/ m.stamp \in missed'[s]
      <4>1. m \in messages
        BY <1>2, <1>5, <2>1, <2>2, <3>2
      <4> QED
        BY <3>1, <3>2, <4>1, UnshownHas
    <3>3. \A x \in Stamped' : work'[x].by = Other(s) /\ work'[x].stamp <= readAt'[s]
            => work'[x].stamp \in missed'[s]
      BY <1>3, <3>1, UnshownHas
    <3> QED
      BY <1>2, <1>6, <3>1, <3>2, <3>3 DEF MarkedFor
  <2>3. CASE work[w].by # s
    <3>1. readAt'[s] = readAt[s] /\ missed'[s] = missed[s]
      BY <1>1, <1>2, <1>4, <2>3, MarkEffect
    <3>2. ASSUME NEW m \in messages', m.by = Other(s), m.stamp <= readAt'[s]
          PROVE  m.id \in page[s].shown \cup page[s].got \/ m.stamp \in missed'[s]
      <4>1. CASE m \in messages
        BY <1>1, <3>1, <3>2, <4>1 DEF MarkedFor
      <4>2. CASE m = Sends(w)
        BY <1>1, <1>2, <1>5, <3>1, <3>2, <4>2 DEF MarkedFor
      <4> QED
        BY <1>2, <4>1, <4>2
    <3>3. \A x \in Stamped' : work'[x].by = Other(s) /\ work'[x].stamp <= readAt'[s]
            => work'[x].stamp \in missed'[s]
      BY <1>1, <1>3, <3>1 DEF MarkedFor
    <3> QED
      BY <1>1, <1>2, <3>1, <3>2, <3>3 DEF MarkedFor
  <2> QED
    BY <2>2, <2>3
<1> QED
  BY <1>7 DEF MarkHolds, MarkedFor, Sent

LEMMA PageMarked ==
  ASSUME Tidy, MarkHolds, PageHolds, NEW s \in Readers, PageStep(s)
  PROVE  MarkHolds'
<1>1. TypeOK /\ \A r \in Readers : MarkedFor(r)
  BY MarkedForAll DEF Tidy
<1>2. UNCHANGED <<messages, work, clock>>
  BY PageTidy
<1>3. Stamped' = Stamped
  BY <1>2 DEF Stamped, InFlight, At
<1>4. /\ page \in [Readers -> Page] /\ readAt \in [Readers -> 0 .. MaxMessages + 1]
      /\ missed \in [Readers -> SUBSET Ids]
      /\ clock \in Int /\ clock <= clock
      /\ s \in Sides /\ clock \in Ids
  BY <1>1, PageFields, Constants DEF TypeOK, Ids
<1>5. \A r \in Readers \ {s} :
        page'[r] = page[r] /\ readAt'[r] = readAt[r] /\ missed'[r] = missed[r]
  <2>1. CASE PageOpen(s)
    BY <2>1, <1>4 DEF PageOpen
  <2>6. CASE PageList(s)
    BY <2>6, <1>4 DEF PageList
  <2>2. CASE Poll(s)
    BY <2>2, <1>4 DEF Poll, marks
  <2>3. CASE PollMark(s)
    <3>1. Mark(s, clock, page[s].shown \cup page[s].got)
      BY <2>3 DEF PollMark
    <3> QED
      BY <2>3, <3>1, <1>1, <1>4, MarkEffect DEF PollMark
  <2>4. CASE PollAnswer(s)
    BY <2>4, <1>4 DEF PollAnswer, MissOf
  <2>5. CASE PollLost(s)
    BY <2>5, <1>4 DEF PollLost, MissOf
  <2> QED
    BY <2>1, <2>2, <2>3, <2>4, <2>5, <2>6 DEF PageStep
<1>6. /\ readAt'[s] <= clock
      /\ \A m \in messages : m.by = Other(s) /\ m.stamp <= readAt'[s] =>
           m.id \in page'[s].shown \cup page'[s].got \/ m.stamp \in missed'[s]
      /\ \A w \in Stamped :
           work[w].by = Other(s) /\ work[w].stamp <= readAt'[s] => work[w].stamp \in missed'[s]
  <2>1. CASE PageOpen(s)
    <3>1. readAt'[s] = clock /\ missed'[s] = Unshown(s, clock, {})
      BY <2>1, <1>4 DEF PageOpen
    <3> QED
      BY <3>1, <1>4, UnshownHas
  <2>6. CASE PageList(s)
    <3>1. /\ page'[s].shown = CommittedIds
          /\ readAt'[s] = readAt[s]
          /\ missed'[s] = missed[s] \ StampsOf(CommittedIds)
      BY <2>6, <1>4 DEF PageList
    <3>2. \A m \in messages : m.id \in CommittedIds
      BY DEF CommittedIds
    <3>3. \A w \in Stamped : work[w].stamp \notin StampsOf(CommittedIds)
      BY StampOfOne
    <3> QED
      BY <3>1, <3>2, <3>3, <1>1 DEF MarkedFor
  <2>2. CASE Poll(s)
    <3>1. page' = [page EXCEPT ![s].state = "fetched", ![s].got = NewFor(s)]
          /\ UNCHANGED <<readAt, missed>> /\ page[s].state = "open"
      BY <2>2 DEF Poll, marks
    <3>2. page'[s].shown = page[s].shown
      BY <3>1, <1>4 DEF Page
    <3>3. page[s].got = {}
      BY <3>1 DEF PageHolds
    <3> QED
      BY <3>1, <3>2, <3>3, <1>1 DEF MarkedFor
  <2>3. CASE PollMark(s)
    <3> DEFINE ids == page[s].shown \cup page[s].got
    <3>1. page' = [page EXCEPT ![s].state = "polling"] /\ Mark(s, clock, ids)
      BY <2>3 DEF PollMark
    <3>2. page'[s].shown \cup page'[s].got = ids
      BY <3>1, <1>4 DEF Page
    <3>3. /\ readAt'[s] = clock
          /\ missed'[s] = (missed[s] \ StampsOf(ids)) \cup Unshown(s, clock, ids)
      BY <3>1, <1>1, <1>4, MarkEffect
    <3> HIDE DEF ids
    <3> QED
      BY <3>2, <3>3, <1>4, UnshownHas
  <2>4. CASE PollAnswer(s)
    <3>1. /\ page'[s].shown = page[s].shown \cup Drawn(s)
          /\ readAt'[s] = readAt[s]
          /\ missed'[s] = (missed[s] \ StampsOf(Drawn(s)))
                            \cup (StampsOf(page[s].got \ Drawn(s)) \ StampsOf(page[s].shown))
      BY <2>4, <1>4 DEF PollAnswer, MissOf
    <3>2. ASSUME NEW m \in messages, m.by = Other(s), m.stamp <= readAt[s]
          PROVE  m.id \in page'[s].shown \cup page'[s].got \/ m.stamp \in missed'[s]
      <4>1. m.id \in page[s].shown \cup page[s].got \/ m.stamp \in missed[s]
        BY <3>2, <1>1 DEF MarkedFor
      <4>2. CASE m.id \in page[s].shown \cup Drawn(s)
        BY <3>1, <4>2
      <4>3. CASE m.id \notin page[s].shown \cup Drawn(s)
        <5>1. m.stamp \notin StampsOf(Drawn(s)) /\ m.stamp \notin StampsOf(page[s].shown)
          BY <4>3, StampOfOne
        <5>2. m.id \in page[s].got => m.stamp \in StampsOf(page[s].got \ Drawn(s))
          BY <4>3, StampOfOne
        <5> QED
          BY <3>1, <4>1, <4>3, <5>1, <5>2
      <4> QED
        BY <4>2, <4>3
    <3>3. ASSUME NEW w \in Stamped, work[w].by = Other(s), work[w].stamp <= readAt[s]
          PROVE  work[w].stamp \in missed'[s]
      BY <3>1, <3>3, <1>1, StampOfOne DEF MarkedFor
    <3> QED
      BY <3>1, <3>2, <3>3, <1>1 DEF MarkedFor
  <2>5. CASE PollLost(s)
    <3>1. page' = [page EXCEPT ![s].state = "open", ![s].got = {}] /\ MissOf(s, page[s].got)
          /\ readAt' = readAt
      BY <2>5 DEF PollLost
    <3>2. page'[s].shown = page[s].shown
      BY <3>1, <1>4 DEF Page
    <3>3. missed'[s] = (missed[s] \ StampsOf(Drawn(s)))
                         \cup (StampsOf(page[s].got) \ StampsOf(page[s].shown))
      BY <3>1, <1>4 DEF MissOf
    <3>4. Drawn(s) \subseteq page[s].got
      BY DEF Drawn
    <3>5. ASSUME NEW m \in messages, m.by = Other(s), m.stamp <= readAt[s]
          PROVE  m.id \in page'[s].shown \/ m.stamp \in missed'[s]
      <4>1. m.id \in page[s].shown \cup page[s].got \/ m.stamp \in missed[s]
        BY <3>5, <1>1 DEF MarkedFor
      <4>2. CASE m.id \in page[s].shown
        BY <3>2, <4>2
      <4>3. CASE m.id \notin page[s].shown
        <5>1. m.stamp \notin StampsOf(page[s].shown)
          BY <4>3, StampOfOne
        <5>2. m.id \in page[s].got => m.stamp \in StampsOf(page[s].got)
          BY StampOfOne
        <5>3. m.id \notin page[s].got => m.stamp \notin StampsOf(Drawn(s))
          BY <3>4, StampOfOne
        <5> QED
          BY <3>3, <4>1, <4>3, <5>1, <5>2, <5>3
      <4> QED
        BY <4>2, <4>3
    <3>6. ASSUME NEW w \in Stamped, work[w].by = Other(s), work[w].stamp <= readAt[s]
          PROVE  work[w].stamp \in missed'[s]
      BY <3>3, <3>6, <1>1, StampOfOne DEF MarkedFor
    <3> QED
      BY <3>1, <3>5, <3>6, <1>1 DEF MarkedFor
  <2> QED
    BY <2>1, <2>2, <2>3, <2>4, <2>5, <2>6 DEF PageStep
<1>7. MarkedFor(s)'
  BY <1>2, <1>3, <1>6 DEF MarkedFor
<1>8. ASSUME NEW r \in Readers \ {s} PROVE MarkedFor(r)'
  BY <1>1, <1>2, <1>3, <1>5 DEF MarkedFor
<1>9. \A r \in Readers : MarkedFor(r)'
  BY <1>7, <1>8
<1> QED
  BY <1>9 DEF MarkHolds, MarkedFor, Sent

\* Steps that mark nothing: what is stamped meanwhile is later than any mark.
LEMMA IdleMarked ==
  ASSUME Tidy, MarkHolds, UNCHANGED <<page, readAt>>, clock <= clock', clock' \in Int,
         \A m \in messages' : \E n \in messages : m.id = n.id /\ m.stamp = n.stamp /\ m.by = n.by,
         \A w \in Stamped' :
           \/ work'[w].stamp > clock
           \/ w \in Stamped /\ work'[w].stamp = work[w].stamp /\ work'[w].by = work[w].by,
         \A w \in Stamped' : work'[w].stamp \in Int,
         \A s \in Readers : \A m \in messages : m.stamp \in missed[s] => m.stamp \in missed'[s],
         \A s \in Readers : \A w \in Stamped' : work'[w].stamp \in missed[s] => work'[w].stamp \in missed'[s]
  PROVE  MarkHolds'
<1>1. TypeOK /\ \A r \in Readers : MarkedFor(r)
  BY MarkedForAll DEF Tidy
<1>2. \A s \in Readers : readAt[s] \in Int /\ clock \in Int /\ readAt[s] <= clock
  BY <1>1, Constants DEF TypeOK, MarkedFor
<1>3. ASSUME NEW s \in Readers PROVE MarkedFor(s)'
  <2>1. readAt'[s] <= clock'
    BY <1>2
  <2>2. ASSUME NEW m \in messages', m.by = Other(s), m.stamp <= readAt[s]
        PROVE  m.id \in page[s].shown \cup page[s].got \/ m.stamp \in missed'[s]
    <3>1. PICK n \in messages : m.id = n.id /\ m.stamp = n.stamp /\ m.by = n.by
      OBVIOUS
    <3> QED
      BY <2>2, <3>1, <1>1 DEF MarkedFor
  <2>3. ASSUME NEW w \in Stamped', work'[w].by = Other(s), work'[w].stamp <= readAt[s]
        PROVE  work'[w].stamp \in missed'[s]
    <3>1. ~(work'[w].stamp > clock)
      BY <2>3, <1>2
    <3> QED
      BY <2>3, <3>1, <1>1 DEF MarkedFor
  <2> QED
    BY <2>1, <2>2, <2>3 DEF MarkedFor
<1> QED
  BY <1>3 DEF MarkHolds, MarkedFor, Sent

LEMMA NextMarked ==
  ASSUME Tidy, MarkHolds, PageHolds, [Next]_vars
  PROVE  MarkHolds'
<1>1. TypeOK /\ Stamped \subseteq Workers /\ clock \in Int /\ clock <= clock
  BY DEF Tidy, TypeOK, Stamped, InFlight
<1>2. \A w \in Stamped : work[w].stamp \in Int
  BY <1>1, WorkFields DEF Ids
<1>3. ASSUME NEW w \in Workers, SendStep(w) PROVE MarkHolds'
  <2>1. CASE SendCheck(w)
    <3>1. /\ \A x \in Workers \ {w} : work'[x] = work[x]
          /\ Stamped' = Stamped /\ w \notin Stamped
          /\ UNCHANGED <<messages, page, clock, marks>>
      BY <2>1, <1>1, CheckEffect
    <3> QED
      BY <1>1, <1>2, <3>1, IdleMarked DEF marks
  <2>2. CASE SendStamp(w)
    <3>1. /\ \A x \in Workers \ {w} : work'[x] = work[x]
          /\ Stamped' = Stamped \cup {w} /\ w \notin Stamped
          /\ work'[w].stamp = clock + 1 /\ clock' = clock + 1
          /\ UNCHANGED <<messages, page, marks>>
      BY <2>2, StampEffect
    <3>2. /\ clock + 1 > clock /\ clock + 1 \in Int /\ clock <= clock'
          /\ readAt' = readAt /\ missed' = missed
      BY <1>1, <3>1 DEF marks
    <3>3. /\ \A x \in Stamped' : \/ work'[x].stamp > clock
                                 \/ /\ x \in Stamped
                                    /\ work'[x].stamp = work[x].stamp /\ work'[x].by = work[x].by
          /\ \A x \in Stamped' : work'[x].stamp \in Int
      BY <1>1, <1>2, <3>1, <3>2
    <3> QED
      BY <3>1, <3>2, <3>3, IdleMarked
  <2>3. CASE SendInsert(w)
    <3>1. /\ \A x \in Workers \ {w} : work'[x] = work[x]
          /\ Stamped' = Stamped
          /\ work'[w].stamp = work[w].stamp /\ work'[w].by = work[w].by
          /\ UNCHANGED <<messages, page, clock, marks>>
      BY <2>3, InsertEffect
    <3> QED
      BY <1>1, <1>2, <3>1, IdleMarked DEF marks
  <2>4. CASE SendRollback(w)
    <3>1. /\ Set(w, Idle) /\ UNCHANGED <<messages, page, clock, readAt>>
          /\ \A s \in Readers :
               missed'[s] = IF w \in Stamped THEN missed[s] \ {work[w].stamp} ELSE missed[s]
      BY <2>4, <1>1, RollbackEffect
    <3>2. /\ \A x \in Workers \ {w} : work'[x] = work[x]
          /\ Stamped' = Stamped \ {w}
      BY <1>1, <3>1, EndEffect
    <3>3. w \in Stamped => /\ \A m \in messages : m.stamp # work[w].stamp
                           /\ \A x \in Stamped \ {w} : work[x].stamp # work[w].stamp
      BY DEF Tidy, Numbered
    <3> QED
      BY <1>1, <1>2, <3>1, <3>2, <3>3, IdleMarked
  <2> QED
    BY <1>3, <2>1, <2>2, <2>3, <2>4, CommitMarked DEF SendStep
<1>4. CASE Close \/ Archive \/ Reopen \/ UNCHANGED vars
  <2>1. UNCHANGED <<messages, work, page, clock, marks>>
    <3>1. CASE Close \/ Archive \/ Reopen
      BY <3>1 DEF Close, Archive, Reopen
    <3>2. CASE UNCHANGED vars
      BY <3>2 DEF vars, marks
    <3> QED
      BY <1>4, <3>1, <3>2
  <2>2. Stamped' = Stamped
    BY <2>1 DEF Stamped, InFlight, At
  <2> QED
    BY <1>1, <1>2, <2>1, <2>2, IdleMarked DEF marks
<1>5. CASE Tick
  <2>1. /\ Stamped' = Stamped /\ \A w \in Stamped : work'[w].stamp = work[w].stamp
        /\ \A w \in Busy : work'[w].by = work[w].by
    BY <1>1, <1>5, TickWork
  <2>2. UNCHANGED <<page, clock, marks>>
    BY <1>5 DEF Tick
  <2>3. \A m \in messages' : \E n \in messages : m.id = n.id /\ m.stamp = n.stamp /\ m.by = n.by
    <3>1. \A m \in messages' : \E n \in messages : m = Aged(n)
      BY <1>1, <1>5, TickMessages
    <3>2. \A n \in messages : n \in Message
      BY <1>1, MessageFields
    <3> QED
      BY <3>1, <3>2, AgedMessage
  <2>4. Stamped \subseteq Busy
    BY DEF Stamped, InFlight, Busy, At
  <2> QED
    BY <1>1, <1>2, <2>1, <2>2, <2>3, <2>4, IdleMarked DEF marks
<1> QED
  BY <1>3, <1>4, <1>5, PageMarked DEF Next

LEMMA MarkedIsUnread ==
  ASSUME Tidy, MarkHolds
  PROVE  UnshownIsUnread
<1>1. TypeOK /\ \A s \in Readers : MarkedFor(s)
  BY MarkedForAll DEF Tidy
<1> SUFFICES ASSUME NEW s \in Readers, NEW m \in messages, m.by = Other(s)
             PROVE  \/ m.id \in page[s].shown \cup page[s].got
                    \/ m.stamp \in missed[s]
                    \/ lastAt < m.stamp
                    \/ lastAt > readAt[s]
  BY DEF UnshownIsUnread, HasUnread, Sent
<1>2. lastAt \in Int /\ readAt[s] \in Int /\ m.stamp \in Int
  BY <1>1, MessageFields DEF TypeOK, Ids
<1>3. CASE m.stamp <= readAt[s]
  BY <1>1, <1>3 DEF MarkedFor
<1>4. CASE m.stamp > readAt[s]
  BY <1>2, <1>4
<1> QED
  BY <1>2, <1>3, <1>4

-----------------------------------------------------------------------------
(* The theorems *)

ConversationInv ==
  /\ Tidy
  /\ Counted
  /\ LoadedHolds /\ EveryMessageNoticed
  /\ Shows
  /\ MarkHolds

\* However sends, polls and the end of the conversation interleave, for any
\* number of workers and messages and any limits.
THEOREM ConversationHolds == Spec => []ConversationInv
<1>1. Init => ConversationInv
  BY InitTidy, InitCounted, InitNoticed, InitShows, InitMarked DEF ConversationInv
<1>2. ConversationInv /\ [Next]_vars => ConversationInv'
  <2> SUFFICES ASSUME ConversationInv, [Next]_vars PROVE ConversationInv'
    OBVIOUS
  <2>1. Tidy /\ Counted /\ LoadedHolds /\ EveryMessageNoticed /\ Shows /\ MarkHolds /\ PageHolds
    BY DEF ConversationInv, Shows
  <2> QED
    BY <2>1, NextTidy, NextCounted, NextNoticed, NextShows, NextMarked DEF ConversationInv
<1> QED
  BY <1>1, <1>2, PTL DEF Spec

\* Messages, workers, pages and marks keep their types; ids and stamps stay
\* within the messages begun.
THEOREM ConversationTyped == Spec => []TypeOK
<1>1. ConversationInv => TypeOK
  BY DEF ConversationInv, Tidy
<1> QED
  BY <1>1, ConversationHolds, PTL

\* The rate limit, the shared number and is_writable, checked without a lock
\* (send, share_phone), are overrun by no more than the workers that overlap.
THEOREM OverrunsAreSmall == Spec => []OverrunsAreOverlaps
<1>1. ConversationInv => OverrunsAreOverlaps
  BY CountedBounds DEF ConversationInv
<1> QED
  BY <1>1, ConversationHolds, PTL

\* A side is notified at most once per NOTIFY_EVERY (_notify_other).
THEOREM OneNoticeAtATime == Spec => NoticesThrottled
<1>1. ConversationInv /\ [Next]_vars => [\A s \in Sides : quiet'[s] < quiet[s] => quiet[s] > NotifyEvery]_vars
  BY NextThrottled DEF ConversationInv
<1> QED
  BY <1>1, ConversationHolds, PTL DEF Spec, NoticesThrottled

\* Although notified_at is loaded before the lock, each message has a notice that
\* went out with it or shortly before.
THEOREM NobodyUnnoticed == Spec => []EveryMessageNoticed
<1>1. ConversationInv => EveryMessageNoticed
  BY DEF ConversationInv
<1> QED
  BY <1>1, ConversationHolds, PTL

\* A page that polls for higher ids skips only what was overtaken, by id or by
\* stamp (messages_json, chat.js).
THEOREM PagesSkipNothing == Spec => []NothingSkipped
<1>1. ConversationInv => NothingSkipped
  BY DEF ConversationInv, Shows
<1> QED
  BY <1>1, ConversationHolds, PTL

\* What a reader was not shown counts as unread while the conversation is in the
\* list, but for what was marked on its way or by a page that did not come to list
\* it, and what a later message with an earlier stamp hides (mark_read,
\* unread_count).
THEOREM UnreadUntilShown == Spec => []UnshownIsUnread
<1>1. ConversationInv => UnshownIsUnread
  BY MarkedIsUnread DEF ConversationInv
<1> QED
  BY <1>1, ConversationHolds, PTL

=============================================================================
