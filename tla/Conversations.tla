---------------------------- MODULE Conversations ----------------------------
(***************************************************************************)
(* The conversation of a recipient and an accepted volunteer                *)
(* (apps/conversations), from the moment accept has opened it.  Sending is  *)
(* a transaction of a web worker: it checks against what is committed,      *)
(* stamps the message (created_at), inserts it, which draws its id, and then *)
(* updates the conversation's row, which it holds locked until it commits;  *)
(* whatever happens under that lock is one action.  Reading is a page that  *)
(* polls for ids above the last one it has; opening it and an answer with   *)
(* messages in it mark the conversation as read.                            *)
(*                                                                         *)
(* The two windows of ten minutes are measured in ages that stop growing    *)
(* when every comparison is decided.                                        *)
(***************************************************************************)
EXTENDS Integers, FiniteSets

CONSTANTS
  Workers,      \* web workers
  Readers,      \* the sides that have the page open
  WithPhone,    \* the sides with a phone number in their profile
  RateLimit,    \* RATE_LIMIT (30 messages)
  RateWindow,   \* RATE_WINDOW (10 minutes)
  NotifyEvery,  \* NOTIFY_EVERY (10 minutes)
  MaxMessages   \* bound of the model: no more messages than these are begun

ASSUME ConversationsAssumption ==
  /\ IsFiniteSet(Workers)
  /\ Readers \subseteq {"recipient", "volunteer"}
  /\ WithPhone \subseteq {"recipient", "volunteer"}
  /\ RateLimit \in Nat \ {0}
  /\ {RateWindow, NotifyEvery, MaxMessages} \subseteq Nat

VARIABLES
  phase,      \* writable, read-only, or archived and out of the list
  messages,   \* committed messages
  nextId,     \* the sequence of message ids
  clock,      \* orders the values of created_at
  work,       \* what each worker is sending
  quiet,      \* time since each side was last notified
  page,       \* the conversation page of each reader
  lastAt,     \* last_message_at
  readAt,     \* read_at of each reader, 0 before the first time
  missed,     \* ghost: stamps each reader has marked as read without having been shown
  late,       \* ghost: messages committed since the conversation was closed
  overtaken   \* ghost: ids that were not committed when a higher one was

vars == <<phase, messages, nextId, clock, work, quiet, page, lastAt, readAt, missed, late,
          overtaken>>
marks == <<lastAt, readAt, missed>>

\* is_writable: the volunteer is accepted on an open request
writable == phase = "writable"

Sides == {"recipient", "volunteer"}
Other(s) == IF s = "recipient" THEN "volunteer" ELSE "recipient"

Ids == 1 .. MaxMessages + 1
AgeMax == RateWindow + 1
QuietMax == NotifyEvery + AgeMax
Ages == 0 .. AgeMax
Quiets == 0 .. QuietMax

Message == [id : Ids, stamp : Ids, by : Sides, kind : {"text", "phone"}, age : Ages]
               \cup [id : {1}, stamp : {1}, by : {"system"}, kind : {"system"}, age : Ages]
Idle == [step |-> "idle"]
Sending ==
  [step : {"checked"}, by : Sides, kind : {"text", "phone"}, last : 0 .. NotifyEvery]
    \cup [step : {"stamped"}, by : Sides, kind : {"text", "phone"}, last : 0 .. NotifyEvery,
          stamp : Ids, age : Ages]
    \cup [step : {"inserted"}, by : Sides, kind : {"text", "phone"}, last : 0 .. NotifyEvery,
          stamp : Ids, age : Ages, id : Ids]

NoPage == [state |-> "closed", after |-> 0, shown |-> {}, got |-> {}]
Page == [state : {"closed", "opening", "open", "fetched", "polling"}, after : 0 .. MaxMessages + 1,
         shown : SUBSET Ids, got : SUBSET Ids]

TypeOK ==
  /\ phase \in {"writable", "readOnly", "archived"}
  /\ messages \subseteq Message
  /\ nextId \in 2 .. MaxMessages + 2
  /\ clock \in 1 .. MaxMessages + 1
  /\ work \in [Workers -> {Idle} \cup Sending]
  /\ quiet \in [Sides -> Quiets]
  /\ page \in [Readers -> Page]
  /\ lastAt \in Ids
  /\ readAt \in [Readers -> 0 .. MaxMessages + 1]
  /\ missed \in [Readers -> SUBSET Ids]
  /\ late \in Nat
  /\ overtaken \subseteq Ids

-----------------------------------------------------------------------------
(* send and share_phone *)

Upto(age, max) == IF age < max THEN age ELSE max
Older(age, max) == Upto(age + 1, max)

At(w, s) == work[w].step = s
Set(w, r) == work' = [work EXCEPT ![w] = r]

Sent(s) == {m \in messages : m.by = s}
Recent(s) == {m \in Sent(s) : m.age <= RateWindow}
Phones(s) == {m \in Sent(s) : m.kind = "phone"}
InFlight == {w \in Workers : At(w, "inserted")}
Stamped == {w \in Workers : At(w, "stamped")} \cup InFlight

MayWriteClosed(s, kind) ==
  /\ kind = "phone" => s \in WithPhone /\ Phones(s) = {}
  /\ Cardinality(Recent(s)) < RateLimit

\* is_writable, the rate limit, and what share_phone looks for: a number in the
\* profile and none sent before
MayWrite(s, kind) ==
  /\ writable
  /\ kind = "phone" => s \in WithPhone /\ Phones(s) = {}
  /\ Cardinality(Recent(s)) < RateLimit

\* the view loads the conversation, its notified_at included, and send checks
SendCheck(w) ==
  /\ At(w, "idle")
  /\ clock + Cardinality({x \in Workers : At(x, "checked")}) <= MaxMessages
  /\ \E s \in Sides, kind \in {"text", "phone"} :
       /\ MayWrite(s, kind)
       /\ Set(w, [step |-> "checked", by |-> s, kind |-> kind, last |-> Upto(quiet[Other(s)], NotifyEvery)])
  /\ UNCHANGED <<phase, messages, nextId, clock, quiet, page, late, overtaken, marks>>

\* created_at is taken, in the process
SendStamp(w) ==
  /\ At(w, "checked")
  /\ Set(w, [step |-> "stamped", by |-> work[w].by, kind |-> work[w].kind,
             last |-> work[w].last, stamp |-> clock + 1, age |-> 0])
  /\ clock' = clock + 1
  /\ UNCHANGED <<phase, messages, nextId, quiet, page, late, overtaken, marks>>

\* the id is drawn, in the database
SendInsert(w) ==
  /\ At(w, "stamped")
  /\ Set(w, [step |-> "inserted", by |-> work[w].by, kind |-> work[w].kind,
             last |-> work[w].last, stamp |-> work[w].stamp, age |-> work[w].age,
             id |-> nextId])
  /\ nextId' = nextId + 1
  /\ UNCHANGED <<phase, messages, clock, quiet, page, late, overtaken, marks>>

\* deciding from the notified_at the view has loaded
NotifiesStale(w) == work[w].last >= NotifyEvery
\* looking at the sender's side of the row
NotifiesOwn(w) ==
  /\ work[w].last >= NotifyEvery
  /\ quiet[work[w].by] > NotifyEvery

\* _notify_other: the loaded notified_at saves a query, the conditional update
\* of the locked row decides
Notifies(w) ==
  /\ work[w].last >= NotifyEvery
  /\ quiet[Other(work[w].by)] > NotifyEvery

StampsOf(ids) == {m.stamp : m \in {x \in messages : x.id \in ids}}

\* stamps of the other side's messages up to a moment, committed or not, that
\* are not among those shown
Unshown(s, moment, shown) ==
  {m.stamp : m \in {x \in messages : x.by = Other(s) /\ x.id \notin shown /\ x.stamp <= moment}}
    \cup {work[w].stamp : w \in {x \in Stamped : work[x].by = Other(s) /\ work[x].stamp <= moment}}

Mark(s, moment, shown) ==
  IF s \in Readers
  THEN /\ readAt' = [readAt EXCEPT ![s] = moment]
       /\ missed' = [missed EXCEPT ![s] = (@ \ StampsOf(shown)) \cup Unshown(s, moment, shown)]
  ELSE UNCHANGED <<readAt, missed>>

Seen(s) == IF s \in Readers THEN page[s].shown ELSE {}

\* the update of the conversation, which counts as read by the sender, the
\* notice, the commit
SendCommit(w) ==
  LET m == [id |-> work[w].id, stamp |-> work[w].stamp, by |-> work[w].by,
            kind |-> work[w].kind, age |-> work[w].age]
  IN /\ At(w, "inserted")
     /\ messages' = messages \cup {m}
     /\ quiet' = IF Notifies(w) THEN [quiet EXCEPT ![Other(m.by)] = 0] ELSE quiet
     /\ lastAt' = m.stamp
     /\ Mark(m.by, m.stamp, Seen(m.by))
     /\ Set(w, Idle)
     /\ late' = IF writable THEN 0 ELSE late + 1
     /\ overtaken' = overtaken \cup {work[x].id : x \in {y \in InFlight : work[y].id < m.id}}
     /\ UNCHANGED <<phase, nextId, clock, page>>

\* an error or a killed worker; an id once drawn is gone
SendRollback(w) ==
  /\ ~At(w, "idle")
  /\ Set(w, Idle)
  /\ missed' = IF w \in Stamped THEN [s \in Readers |-> missed[s] \ {work[w].stamp}] ELSE missed
  /\ overtaken' = IF w \in InFlight THEN overtaken \ {work[w].id} ELSE overtaken
  /\ UNCHANGED <<phase, messages, nextId, clock, quiet, page, lastAt, readAt, late>>

-----------------------------------------------------------------------------
(* The page: conversation_detail, messages_json and chat.js *)

CommittedIds == {m.id : m \in messages}
Highest(ids, n) == IF ids = {} THEN n ELSE CHOOSE i \in ids : \A j \in ids : j <= i

\* visible_messages is in the order of created_at
Before(i, j) ==
  \E m, n \in messages : m.id = i /\ n.id = j /\ m.stamp < n.stamp
Latest(ids) == CHOOSE i \in ids : \A j \in ids : ~Before(i, j)

\* mark_read
PageOpen(s) ==
  /\ page' = [page EXCEPT ![s] = [NoPage EXCEPT !.state = "opening"]]
  /\ readAt' = [readAt EXCEPT ![s] = clock]
  /\ missed' = [missed EXCEPT ![s] = Unshown(s, clock, {})]
  /\ UNCHANGED <<phase, messages, nextId, clock, work, quiet, lastAt, late, overtaken>>

\* then the whole history; last_id is the id of the last message in it
PageList(s) ==
  /\ page[s].state = "opening"
  /\ page' = [page EXCEPT ![s] = [state |-> "open", after |-> Latest(CommittedIds),
                                  shown |-> CommittedIds, got |-> {}]]
  /\ missed' = [missed EXCEPT ![s] = @ \ StampsOf(CommittedIds)]
  /\ UNCHANGED <<phase, messages, nextId, clock, work, quiet, lastAt, readAt, late, overtaken>>

NewFor(s) == {i \in CommittedIds : i > page[s].after}

\* messages_json; the page has one poll on its way at a time
Poll(s) ==
  /\ page[s].state = "open"
  /\ NewFor(s) # {}
  /\ page' = [page EXCEPT ![s].state = "fetched", ![s].got = NewFor(s)]
  /\ UNCHANGED <<phase, messages, nextId, clock, work, quiet, late, overtaken, marks>>

PollMark(s) ==
  /\ page[s].state = "fetched"
  /\ page' = [page EXCEPT ![s].state = "polling"]
  /\ Mark(s, clock, page[s].shown \cup page[s].got)
  /\ UNCHANGED <<phase, messages, nextId, clock, work, quiet, lastAt, late, overtaken>>

\* chat.js goes through them in that order and draws those above the last it has
Drawn(s) == {i \in page[s].got : i > page[s].after
                                    /\ \A j \in page[s].got : Before(j, i) => j < i}

\* ids the server has marked as read and the page has not drawn
MissOf(s, ids) ==
  missed' = [missed EXCEPT ![s] = (@ \ StampsOf(Drawn(s))) \cup (StampsOf(ids) \ StampsOf(page[s].shown))]

PollAnswer(s) ==
  /\ page[s].state = "polling"
  /\ page' = [page EXCEPT ![s] =
                [state |-> "open", after |-> Highest(@.got, @.after),
                 shown |-> @.shown \cup Drawn(s), got |-> {}]]
  /\ MissOf(s, page[s].got \ Drawn(s))
  /\ UNCHANGED <<phase, messages, nextId, clock, work, quiet, lastAt, readAt, late, overtaken>>

\* offline, with the last id moved on when the poll was sent
PollLostAhead(s) ==
  /\ page[s].state = "polling"
  /\ page' = [page EXCEPT ![s].state = "open", ![s].got = {}, ![s].after = Highest(page[s].got, 0)]
  /\ UNCHANGED <<phase, messages, nextId, clock, work, quiet, late, overtaken, marks>>

\* offline: the next poll asks for the same ids, but the server has marked them
PollLost(s) ==
  /\ page[s].state = "polling"
  /\ page' = [page EXCEPT ![s].state = "open", ![s].got = {}]
  /\ MissOf(s, page[s].got)
  /\ UNCHANGED <<phase, messages, nextId, clock, work, quiet, lastAt, readAt, late, overtaken>>

\* unread_count, where a side that never looked has no read_at: an archived
\* conversation is "hidden from the list, so must not light up the badge"
HasUnreadOnceRead(s) == phase # "archived" /\ readAt[s] # 0 /\ lastAt > readAt[s]
HasUnread(s) == phase # "archived" /\ lastAt > readAt[s]

-----------------------------------------------------------------------------
(* The environment *)

\* the volunteer leaves, the request closes or is moderated again; a request that
\* closes after the volunteer has left counts from then (closed_since), which
\* takes its conversation back into the list
Close ==
  /\ phase # "readOnly"
  /\ phase' = "readOnly"
  /\ UNCHANGED <<messages, nextId, clock, work, quiet, page, late, overtaken, marks>>

\* READ_ONLY_FOR, fourteen days, is over: is_archived.  Every window has passed by
\* then, and no web request lasts so long
Archive ==
  /\ phase = "readOnly"
  /\ \A w \in Workers : At(w, "idle")
  /\ \A s \in Sides : quiet[s] = QuietMax
  /\ phase' = "archived"
  /\ UNCHANGED <<messages, nextId, clock, work, quiet, page, late, overtaken, marks>>

\* the request is approved again with the volunteer on it, or the volunteer
\* responds again and is accepted
Reopen ==
  /\ ~writable
  /\ phase' = "writable"
  /\ late' = 0
  /\ UNCHANGED <<messages, nextId, clock, work, quiet, page, overtaken, marks>>

Tick ==
  /\ messages' = {[m EXCEPT !.age = Older(@, AgeMax)] : m \in messages}
  /\ quiet' = [s \in Sides |-> Older(quiet[s], QuietMax)]
  /\ work' = [w \in Workers |->
       IF At(w, "idle") THEN Idle
       ELSE IF At(w, "checked") THEN [work[w] EXCEPT !.last = Older(@, NotifyEvery)]
       ELSE [work[w] EXCEPT !.last = Older(@, NotifyEvery), !.age = Older(@, AgeMax)]]
  /\ UNCHANGED <<phase, nextId, clock, page, late, overtaken, marks>>

-----------------------------------------------------------------------------

\* its age is never asked for
OpeningNote == [id |-> 1, stamp |-> 1, by |-> "system", kind |-> "system", age |-> AgeMax]

\* open_for, in the transaction of accept: one system message, nobody notified
Init ==
  /\ phase = "writable"
  /\ messages = {OpeningNote}
  /\ nextId = 2
  /\ clock = 1
  /\ work = [w \in Workers |-> Idle]
  /\ quiet = [s \in Sides |-> QuietMax]
  /\ page = [s \in Readers |-> NoPage]
  /\ lastAt = 1
  /\ readAt = [s \in Readers |-> 0]
  /\ missed = [s \in Readers |-> {}]
  /\ late = 0
  /\ overtaken = {}

SendStep(w) == SendCheck(w) \/ SendStamp(w) \/ SendInsert(w) \/ SendCommit(w) \/ SendRollback(w)
PageStep(s) == PageOpen(s) \/ PageList(s) \/ Poll(s) \/ PollMark(s) \/ PollAnswer(s) \/ PollLost(s)

Next ==
  \/ \E w \in Workers : SendStep(w)
  \/ \E s \in Readers : PageStep(s)
  \/ Close \/ Archive \/ Reopen \/ Tick

Spec == Init /\ [][Next]_vars

-----------------------------------------------------------------------------
(* Safety *)

\* The rate limit, the number that is shared once and is_writable are checked
\* against committed rows and without a lock, so parallel sends pass them
\* together, but never by more than the workers that can be at it: neither above
\* the limit, nor with a second number, nor after a removal or the request's end.
OverrunsAreOverlaps ==
  /\ \A s \in Sides :
       /\ Cardinality(Recent(s)) < RateLimit + Cardinality(Workers)
       /\ Cardinality(Phones(s)) <= Cardinality(Workers)
  /\ late <= Cardinality(Workers)

\* "At most once per NOTIFY_EVERY": the conditional update, not the value the
\* view has loaded, decides about a second notice, so overlapping sends give one.
NoticesThrottled ==
  [][\A s \in Sides : quiet'[s] < quiet[s] => quiet[s] > NotifyEvery]_vars

\* And yet nobody misses that they were written to: a notice has gone out with
\* each message, or not longer than NOTIFY_EVERY before it.
EveryMessageNoticed ==
  \A m \in messages \ {x \in messages : x.by = "system"} :
    quiet[Other(m.by)] <= NotifyEvery + m.age

\* An open page, also one whose polls fail, misses no message below the last it
\* shows, but for one whose transaction was overtaken by that of a higher id, or
\* that was stamped after a higher id.
NothingSkipped ==
  \A s \in Readers :
    page[s].state \notin {"closed", "opening"} =>
      \A i \in CommittedIds : i <= page[s].after =>
        i \in page[s].shown \cup overtaken \/ \E j \in CommittedIds : j > i /\ Before(j, i)

\* A message its reader has not been shown is counted as unread, as long as the
\* conversation is in the list (unread_count leaves out an archived one).  The
\* exceptions are those that were on their way, or came, between a page's query and
\* its mark or before a message the reader sent; those marked by a page that is
\* opened, until it lists them, for good if it dies in between; those of an answer
\* that is lost or that chat.js passes over; and those after which a message with
\* an earlier stamp was committed, which takes last_message_at back.
UnshownIsUnread ==
  phase # "archived" =>
    \A s \in Readers : \A m \in Sent(Other(s)) :
      \/ m.id \in page[s].shown \cup page[s].got
      \/ m.stamp \in missed[s]
      \/ lastAt < m.stamp
      \/ HasUnread(s)
=============================================================================
