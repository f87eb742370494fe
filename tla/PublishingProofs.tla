-------------------------- MODULE PublishingProofs --------------------------
(***************************************************************************)
(* For any number of requests, workers, forms and moderators, and any       *)
(* limits: no unread text becomes public but in the ways PublicWasReviewed  *)
(* names, and the limit of open requests is overrun by less than the        *)
(* workers.                                                                 *)
(*                                                                         *)
(* publish decides from a count it made before; the invariant says that     *)
(* the decision is still right when it commits, since a request that has    *)
(* gone live stays among those that did.  An edit form carries a status and *)
(* a text it has read; the invariant says that the two can be put back:     *)
(* what was open when it was read had been reviewed, or waited for          *)
(* after_edit.  The overrun is bounded because a creation that passed the   *)
(* check holds a worker until it is saved.                                  *)
(***************************************************************************)
EXTENDS Publishing, FiniteSetTheorems, TLAPS

\* A request that was never open is not counted.
DraftsUncounted == \A q \in Requests : status[q] \in {"none", "draft"} => q \notin published

\* Without q itself, enough requests went live to publish q unread.
Enough(q) == Cardinality(live \ {q}) >= Premoderated

\* That text of q may be public.
Vouched(q, t) == <<q, t>> \in cleared \cup slipped \/ Enough(q)

Reviewed(q) == Vouched(q, text[q]) \/ Reviewing(q)

\* What publish has decided, and what a form has read, still holds.
Sound(r) ==
  /\ r.step = "publishing" /\ ~r.review => r.trust = 2 \/ Enough(r.request)
  /\ r.step = "editing" =>
       /\ r.published => r.request \in live
       /\ r.status \in {"none", "draft"} => ~r.published
       /\ r.status \in Open /\ ~r.waiting => Vouched(r.request, r.text)

WorkHolds == \A r \in Work : (\E w \in Workers : work[w] = r) => Sound(r)

PubInv ==
  /\ TypeOK
  /\ published \subseteq live
  /\ DraftsUncounted
  /\ WorkHolds
  /\ \A q \in Requests : status[q] \in Open => Reviewed(q)

\* The ghosts only grow.
Grows == live \subseteq live' /\ cleared \subseteq cleared' /\ slipped \subseteq slipped'

\* publish holds its request's lock, and nobody else touches the draft.
LockHolds ==
  \A w \in Workers : At(w, "publishing") =>
    /\ status[work[w].request] = "draft"
    /\ \A x \in Workers :
         At(x, "publishing") /\ work[x].request = work[w].request => x = w

LimitInv == TypeOK /\ LockHolds /\ FewOverLimit

-----------------------------------------------------------------------------
(* Counting *)

LEMMA RequestsFinite ==
  ASSUME NEW S \in SUBSET Requests
  PROVE  IsFiniteSet(S) /\ Cardinality(S) \in Nat
BY PublishingAssumption, FS_Subset, FS_CardinalityType

LEMMA EnoughGrows ==
  ASSUME live' \subseteq Requests, live \subseteq live', NEW q, Enough(q)
  PROVE  Enough(q)'
<1>1. /\ live \ {q} \in SUBSET Requests /\ live' \ {q} \in SUBSET Requests
      /\ live \ {q} \in SUBSET (live' \ {q})
  OBVIOUS
<1>2. Cardinality(live \ {q}) <= Cardinality(live' \ {q})
  BY <1>1, RequestsFinite, FS_Subset
<1>3. /\ Cardinality(live \ {q}) \in Nat
      /\ Cardinality(live' \ {q}) \in Nat
  BY <1>1, RequestsFinite
<1> QED
  BY <1>2, <1>3, PublishingAssumption DEF Enough

\* needs_premoderation counts the others, if the request was never public;
\* needs_premoderation_on_edit counts the edited request too.
LEMMA EnoughWithout ==
  ASSUME published \subseteq live, live \subseteq Requests, NEW q,
         \/ q \notin published /\ ~(Cardinality(published) < Premoderated)
         \/ ~(Cardinality(published) <= Premoderated)
  PROVE  Enough(q)
<1>1. published \in SUBSET Requests /\ published \ {q} \in SUBSET (live \ {q})
      /\ live \ {q} \in SUBSET Requests
  OBVIOUS
<1>2. IsFiniteSet(published) /\ Cardinality(published) \in Nat
      /\ IsFiniteSet(live \ {q}) /\ Cardinality(live \ {q}) \in Nat
  BY <1>1, RequestsFinite
<1>3. Cardinality(published \ {q})
        = IF q \in published THEN Cardinality(published) - 1 ELSE Cardinality(published)
  BY <1>2, FS_RemoveElement
<1>4. Cardinality(published \ {q}) <= Cardinality(live \ {q})
  BY <1>1, <1>2, FS_Subset
<1> QED
  BY <1>2, <1>3, <1>4, PublishingAssumption DEF Enough

\* What a worker holds at each step.
LEMMA WorkShape ==
  ASSUME TypeOK, NEW w \in Workers
  PROVE  /\ work[w] \in Work
         /\ At(w, "loaded") \/ At(w, "create") => work[w].trust \in Levels
         /\ At(w, "publish") => work[w].trust \in Levels /\ work[w].request \in Requests
         /\ At(w, "publishing") => /\ work[w].trust \in Levels
                                   /\ work[w].request \in Requests
                                   /\ work[w].review \in BOOLEAN
         /\ At(w, "edit") => work[w].request \in Requests
         /\ At(w, "editing") => work[w] \in Form
         /\ At(w, "after_edit") => /\ work[w].request \in Requests
                                   /\ work[w].content \in BOOLEAN
BY DEF TypeOK, Work, Form, Idle, At

-----------------------------------------------------------------------------
(* The parts of the invariant *)

LEMMA VouchedGrows ==
  ASSUME Grows, live' \subseteq Requests, NEW q, NEW t, Vouched(q, t)
  PROVE  Vouched(q, t)'
<1>1. Enough(q) => Enough(q)'
  BY EnoughGrows DEF Grows
<1> QED
  BY <1>1 DEF Vouched, Grows

LEMMA SoundGrows ==
  ASSUME Grows, live' \subseteq Requests, NEW r, Sound(r)
  PROVE  Sound(r)'
<1>1. Enough(r.request) => Enough(r.request)'
  BY EnoughGrows DEF Grows
<1>2. Vouched(r.request, r.text) => Vouched(r.request, r.text)'
  BY VouchedGrows
<1> QED
  BY <1>1, <1>2 DEF Sound, Grows

LEMMA InitPub == Init => PubInv
<1> SUFFICES ASSUME Init PROVE PubInv
  OBVIOUS
<1>1. TypeOK
  BY PublishingAssumption DEF Init, TypeOK, Work, Statuses, Texts
<1>2. published \subseteq live /\ DraftsUncounted
  BY DEF Init, DraftsUncounted
<1>3. WorkHolds
  BY DEF Init, WorkHolds, Sound, Idle
<1>4. \A q \in Requests : status[q] \notin Open
  BY DEF Init, Open
<1> QED
  BY <1>1, <1>2, <1>3, <1>4 DEF PubInv

\* What is left to show of a step of one worker.
LEMMA WorkerStep ==
  ASSUME PubInv, TypeOK', Grows, published' \subseteq live', DraftsUncounted',
         NEW w \in Workers, NEW r, work' = [work EXCEPT ![w] = r], Sound(r)',
         \A q \in Requests : status'[q] \in Open =>
           \/ Reviewed(q)'
           \/ /\ status[q] \in Open /\ text'[q] = text[q]
              /\ ~(At(w, "after_edit") /\ work[w].request = q /\ work[w].content)
  PROVE  PubInv'
<1>1. live' \subseteq Requests /\ work \in [Workers -> Work]
  BY DEF PubInv, TypeOK
<1>2. WorkHolds'
  <2> SUFFICES ASSUME NEW p \in Work, NEW x \in Workers, work'[x] = p PROVE Sound(p)'
    BY DEF WorkHolds
  <2>1. CASE x = w
    BY <1>1, <2>1
  <2>2. CASE x # w
    <3>1. Sound(p)
      BY <1>1, <2>2 DEF PubInv, WorkHolds
    <3> QED
      BY <1>1, <3>1, SoundGrows
  <2> QED
    BY <2>1, <2>2
<1>3. ASSUME NEW q \in Requests, status'[q] \in Open PROVE Reviewed(q)'
  <2>1. CASE Reviewed(q)'
    BY <2>1
  <2>2. CASE /\ status[q] \in Open /\ text'[q] = text[q]
             /\ ~(At(w, "after_edit") /\ work[w].request = q /\ work[w].content)
    <3>1. Vouched(q, text[q]) \/ Reviewing(q)
      BY <2>2 DEF PubInv, Reviewed
    <3>2. PICK t : t = text[q]
      OBVIOUS
    <3>3. Vouched(q, t) => Vouched(q, t)'
      BY <1>1, VouchedGrows
    <3>4. Reviewing(q) => Reviewing(q)'
      BY <1>1, <2>2 DEF Reviewing, At
    <3>5. t = text'[q]
      BY <2>2, <3>2
    <3>6. Vouched(q, t)' \/ Reviewing(q)'
      BY <3>1, <3>2, <3>3, <3>4
    <3> QED
      BY <3>5, <3>6 DEF Reviewed, Vouched, Enough
  <2> QED
    BY <1>3, <2>1, <2>2
<1> QED
  BY <1>2, <1>3 DEF PubInv

\* And of a step in which no worker is involved.
LEMMA OtherStep ==
  ASSUME PubInv, TypeOK', Grows, published' \subseteq live', DraftsUncounted', UNCHANGED work,
         \A q \in Requests : status'[q] \in Open =>
           Reviewed(q)' \/ (status[q] \in Open /\ text'[q] = text[q])
  PROVE  PubInv'
<1>1. live' \subseteq Requests
  BY DEF PubInv, TypeOK
<1>2. WorkHolds'
  <2> SUFFICES ASSUME NEW p \in Work, NEW x \in Workers, work[x] = p PROVE Sound(p)'
    BY DEF WorkHolds
  <2> QED
    BY <1>1, SoundGrows DEF PubInv, WorkHolds
<1>3. ASSUME NEW q \in Requests, status'[q] \in Open PROVE Reviewed(q)'
  <2>1. CASE Reviewed(q)'
    BY <2>1
  <2>2. CASE status[q] \in Open /\ text'[q] = text[q]
    <3>1. Vouched(q, text[q]) \/ Reviewing(q)
      BY <2>2 DEF PubInv, Reviewed
    <3>2. PICK t : t = text[q]
      OBVIOUS
    <3>3. Vouched(q, t) => Vouched(q, t)'
      BY <1>1, VouchedGrows
    <3>4. Reviewing(q) => Reviewing(q)'
      BY DEF Reviewing, At
    <3>5. t = text'[q]
      BY <2>2, <3>2
    <3>6. Vouched(q, t)' \/ Reviewing(q)'
      BY <3>1, <3>2, <3>3, <3>4
    <3> QED
      BY <3>5, <3>6 DEF Reviewed, Vouched, Enough
  <2> QED
    BY <1>3, <2>1, <2>2
<1> QED
  BY <1>2, <1>3 DEF PubInv

\* A step of one worker that only notes what it has read.
LEMMA ReadStep ==
  ASSUME PubInv, NEW w \in Workers, NEW r \in Work, Set(w, r), Sound(r),
         ~At(w, "after_edit"), forms' \in Texts,
         UNCHANGED <<status, published, text, trust, page, ghosts>>
  PROVE  PubInv'
<1>1. /\ status' = status /\ published' = published /\ text' = text /\ trust' = trust
      /\ page' = page /\ live' = live /\ cleared' = cleared /\ slipped' = slipped
      /\ returned' = returned
  BY DEF ghosts
<1>2. TypeOK'
  BY <1>1 DEF PubInv, TypeOK, Set
<1>3. Grows /\ published' \subseteq live' /\ DraftsUncounted' /\ live' \subseteq Requests
  BY <1>1 DEF Grows, PubInv, TypeOK, DraftsUncounted
<1>4. Sound(r)'
  BY <1>3, SoundGrows
<1> QED
  BY <1>1, <1>2, <1>3, <1>4, WorkerStep DEF Set

-----------------------------------------------------------------------------
(* The steps of the recipient *)

LEMMA EditReadPub ==
  ASSUME PubInv, NEW w \in Workers, EditRead(w)
  PROVE  PubInv'
<1> USE DEF PubInv
<1>1. PICK q \in Requests :
        Set(w, [step |-> "editing", form |-> forms + 1, request |-> q, status |-> status[q],
                published |-> q \in published, text |-> text[q], waiting |-> Reviewing(q)])
  BY WorkShape DEF EditRead
<1>2. PICK p \in BOOLEAN : p = (q \in published)
  <2>1. (q \in published) \in BOOLEAN
    OBVIOUS
  <2> QED
    BY <2>1, Zenon
<1>r. Reviewing(q) \in BOOLEAN
  BY DEF Reviewing
<1>3. PICK v \in BOOLEAN : v = Reviewing(q)
  BY <1>r
<1> DEFINE r == [step |-> "editing", form |-> forms + 1, request |-> q, status |-> status[q],
                 published |-> p, text |-> text[q], waiting |-> v]
<1>4. Set(w, r) /\ forms + 1 \in Texts /\ forms' = forms + 1
  <2>1. p = (q \in published) /\ v = Reviewing(q)
    BY <1>2, <1>3
  <2> QED
    BY <1>1, <2>1, PublishingAssumption DEF EditRead, TypeOK, Texts
<1>5. r \in Work
  <2>1. status[q] \in Statuses /\ text[q] \in Texts
    BY DEF TypeOK
  <2> QED
    BY <2>1, <1>4 DEF Work, Form
<1>6. Sound(r)
  <2>1. p => q \in live
    BY <1>2
  <2>2. status[q] \in {"none", "draft"} => ~p
    BY <1>2 DEF DraftsUncounted
  <2>3. status[q] \in Open /\ ~v => Vouched(q, text[q])
    BY <1>3 DEF Reviewed
  <2> HIDE DEF PubInv
  <2> QED
    BY <2>1, <2>2, <2>3 DEF Sound
<1>7. ~At(w, "after_edit") /\ UNCHANGED <<status, published, text, trust, page, ghosts>>
  BY DEF EditRead, At
<1> HIDE DEF r, PubInv
<1> QED
  BY <1>4, <1>5, <1>6, <1>7, ReadStep

LEMMA CreateSavePub ==
  ASSUME PubInv, NEW w \in Workers, CreateSave(w)
  PROVE  PubInv'
<1>1. PICK q \in Requests :
        /\ status[q] = "none"
        /\ status' = [status EXCEPT ![q] = "draft"]
        /\ Set(w, IF work[w].trust >= 1
                  THEN [step |-> "publish", trust |-> work[w].trust, request |-> q] ELSE Idle)
  BY DEF CreateSave, Move
<1>2. PICK r \in Work : /\ work' = [work EXCEPT ![w] = r]
                        /\ r.step \in {"publish", "idle"}
  <2>1. At(w, "create") /\ work[w].trust \in Levels
    BY WorkShape DEF CreateSave, PubInv
  <2>2. /\ [step |-> "publish", trust |-> work[w].trust, request |-> q] \in Work
        /\ Idle \in Work /\ Idle.step = "idle"
    BY <2>1 DEF Work, Idle
  <2> QED
    BY <1>1, <2>2 DEF Set
<1>3. /\ published' = published /\ text' = text /\ forms' = forms /\ trust' = trust
      /\ page' = page /\ live' = live /\ cleared' = cleared /\ slipped' = slipped
      /\ returned' = returned /\ ~At(w, "after_edit")
  BY DEF CreateSave, ghosts, texts, At
<1>4. TypeOK'
  BY <1>1, <1>2, <1>3 DEF PubInv, TypeOK, Statuses
<1>5. Grows /\ published' \subseteq live' /\ DraftsUncounted'
  BY <1>1, <1>3 DEF Grows, PubInv, TypeOK, DraftsUncounted
<1>6. Sound(r)'
  BY <1>2 DEF Sound
<1>7. \A p \in Requests : status'[p] \in Open => status[p] \in Open /\ text'[p] = text[p]
  BY <1>1, <1>3 DEF PubInv, TypeOK, Open
<1> QED
  BY <1>2, <1>3, <1>4, <1>5, <1>6, <1>7, WorkerStep

LEMMA PublishCheckPub ==
  ASSUME PubInv, NEW w \in Workers, PublishCheck(w)
  PROVE  PubInv'
<1>1. PICK q \in Requests, level \in Levels :
        q = work[w].request /\ level = work[w].trust /\ status[q] = "draft"
  BY WorkShape DEF PublishCheck, PubInv
<1>2. PICK b \in BOOLEAN : b <=> NeedsPremoderation(level)
  OBVIOUS
<1> DEFINE r == [step |-> "publishing", trust |-> level, request |-> q, review |-> b]
<1>3. /\ Set(w, r)
      /\ ~At(w, "after_edit") /\ forms' \in Texts
      /\ UNCHANGED <<status, published, text, trust, page, ghosts>>
  <2>1. b = NeedsPremoderation(level)
    BY <1>2 DEF NeedsPremoderation
  <2> QED
    BY <1>1, <2>1 DEF PublishCheck, At, texts, PubInv, TypeOK
<1>4. r \in Work
  BY DEF Work
<1>5. ~b => level = 2 \/ Enough(q)
  <2>1. q \notin published /\ published \subseteq live /\ live \subseteq Requests
    BY <1>1 DEF DraftsUncounted, PubInv, TypeOK
  <2>2. level \in 0 .. 2
    BY PublishingAssumption
  <2>3. ~(Cardinality(published) < Premoderated) => Enough(q)
    BY <2>1, EnoughWithout
  <2> QED
    BY <1>2, <2>2, <2>3 DEF NeedsPremoderation
<1>6. Sound(r)
  BY <1>5 DEF Sound
<1> HIDE DEF r
<1> QED
  BY <1>3, <1>4, <1>6, ReadStep

LEMMA PublishCommitPub ==
  ASSUME PubInv, NEW w \in Workers, PublishCommit(w)
  PROVE  PubInv'
<1> USE DEF PubInv
<1>1. PICK q \in Requests : q = work[w].request
  BY WorkShape DEF PublishCommit
<1>2. /\ work' = [work EXCEPT ![w] = Idle]
      /\ Idle \in Work /\ Sound(Idle)'
      /\ ~At(w, "after_edit")
      /\ text' = text /\ forms' = forms
      /\ UNCHANGED <<trust, page, slipped, returned>>
  BY DEF PublishCommit, Set, At, Idle, Work, Sound, texts
<1>3. /\ live \subseteq live' /\ live' \subseteq Requests
      /\ published' \subseteq live' /\ published' \subseteq published \cup {q}
      /\ cleared \subseteq cleared' /\ cleared' \subseteq Requests \X Texts
  BY <1>1 DEF PublishCommit, GoLive, Present, TypeOK
<1>4. status' = [status EXCEPT ![q] = "pending_moderation"] \/ status' = [status EXCEPT ![q] = "active"]
  BY <1>1 DEF PublishCommit, Move
<1>5. TypeOK'
  <2>1. published' \subseteq Requests
    BY <1>3
  <2> QED
    BY <1>2, <1>3, <1>4, <2>1 DEF TypeOK, Statuses
<1>6. Grows
  BY <1>2, <1>3 DEF Grows
<1>7. DraftsUncounted'
  <2>1. \A p \in Requests : status'[p] \in {"none", "draft"} => p # q /\ status[p] = status'[p]
    BY <1>4 DEF TypeOK
  <2> QED
    BY <1>3, <2>1 DEF DraftsUncounted
<1>8. status'[q] \in Open => Reviewed(q)'
  <2> SUFFICES ASSUME status'[q] \in Open PROVE Reviewed(q)'
    OBVIOUS
  <2>1. ~work[w].review
    <3>1. CASE work[w].review
      BY <1>1, <3>1 DEF PublishCommit, Move, TypeOK, Open
    <3> QED
      BY <3>1
  <2>2. work[w].trust = 2 \/ Enough(q)
    <3>1. Sound(work[w])
      BY WorkShape DEF WorkHolds
    <3> QED
      BY <1>1, <2>1, <3>1 DEF Sound, PublishCommit, At
  <2>3. CASE work[w].trust = 2
    BY <1>1, <1>2, <2>1, <2>3 DEF PublishCommit, Reviewed, Vouched, Present
  <2>4. CASE Enough(q)
    BY <1>3, <2>4, EnoughGrows DEF Reviewed, Vouched
  <2> QED
    BY <2>2, <2>3, <2>4
<1>9. \A p \in Requests \ {q} : status'[p] \in Open => status[p] \in Open /\ text'[p] = text[p]
  BY <1>2, <1>4 DEF TypeOK
<1> HIDE DEF PubInv
<1> QED
  BY <1>2, <1>3, <1>5, <1>6, <1>7, <1>8, <1>9, WorkerStep

LEMMA EditSavePub ==
  ASSUME PubInv, NEW w \in Workers, NEW content \in BOOLEAN, EditSave(w, content)
  PROVE  PubInv'
<1> USE DEF PubInv
<1>1. PICK f \in Form : f = work[w]
  BY WorkShape DEF EditSave
<1>2. PICK q \in Requests : q = f.request
  BY DEF Form
<1>3. /\ f.status \in Statuses /\ f.text \in Texts /\ f.form \in Texts
      /\ f.published \in BOOLEAN /\ f.waiting \in BOOLEAN /\ f.step = "editing"
  BY DEF Form
<1> DEFINE r == [step |-> "after_edit", request |-> q, content |-> content]
<1>4. /\ work' = [work EXCEPT ![w] = r]
      /\ r \in Work /\ Sound(r)'
      /\ ~At(w, "after_edit")
      /\ status' = [status EXCEPT ![q] = f.status]
      /\ text' = [text EXCEPT ![q] = IF content THEN f.form ELSE f.text]
      /\ published' = IF f.published THEN published \cup {q} ELSE published \ {q}
      /\ slipped' = IF ~content /\ f.waiting THEN slipped \cup {<<q, f.text>>} ELSE slipped
      /\ returned' \subseteq returned \cup {q}
      /\ UNCHANGED <<forms, trust, page, live, cleared>>
  BY <1>1, <1>2 DEF EditSave, Set, At, Move, Work, Sound
<1>5. Sound(f)
  BY <1>1, WorkShape DEF WorkHolds
<1>6. TypeOK'
  <2>1. status' \in [Requests -> Statuses] /\ text' \in [Requests -> Texts]
    BY <1>3, <1>4 DEF TypeOK
  <2>2. published' \subseteq Requests /\ returned' \subseteq Requests
    BY <1>4 DEF TypeOK
  <2>3. slipped' \subseteq Requests \X Texts
    BY <1>3, <1>4 DEF TypeOK
  <2>4. work' \in [Workers -> Work]
    BY <1>4 DEF TypeOK
  <2> QED
    BY <1>4, <2>1, <2>2, <2>3, <2>4 DEF TypeOK
<1>7. Grows /\ published' \subseteq live'
  BY <1>2, <1>3, <1>4, <1>5 DEF Grows, Sound
<1>8. DraftsUncounted'
  <2>1. f.status \in {"none", "draft"} => q \notin published'
    BY <1>2, <1>3, <1>4, <1>5 DEF Sound
  <2>2. \A p \in Requests \ {q} : status'[p] = status[p] /\ (p \in published' <=> p \in published)
    BY <1>4 DEF TypeOK
  <2>3. status'[q] = f.status
    BY <1>4 DEF TypeOK
  <2> QED
    BY <2>1, <2>2, <2>3 DEF DraftsUncounted
<1>9. status'[q] \in Open => Reviewed(q)'
  <2> SUFFICES ASSUME f.status \in Open PROVE Reviewed(q)'
    BY <1>4 DEF TypeOK
  <2>1. CASE content
    <3>1. work'[w].step = "after_edit" /\ work'[w].request = q /\ work'[w].content
      BY <1>4, <2>1 DEF TypeOK
    <3> QED
      BY <3>1 DEF Reviewed, Reviewing, At
  <2>2. CASE ~content
    <3>1. text'[q] = f.text
      BY <1>4, <2>2 DEF TypeOK
    <3>2. CASE f.waiting
      <4>1. <<q, f.text>> \in slipped'
        BY <1>4, <2>2, <3>2
      <4> QED
        BY <3>1, <4>1 DEF Reviewed, Vouched
    <3>3. CASE ~f.waiting
      <4>1. Vouched(q, f.text)
        BY <1>2, <1>3, <1>5, <3>3 DEF Sound
      <4>2. live' \subseteq Requests
        BY <1>6 DEF TypeOK
      <4>3. Vouched(q, f.text)'
        BY <1>7, <4>1, <4>2, VouchedGrows
      <4> QED
        BY <3>1, <4>3 DEF Reviewed, Vouched, Enough
    <3> QED
      BY <1>3, <3>2, <3>3
  <2> QED
    BY <2>1, <2>2
<1>10. \A p \in Requests \ {q} : status'[p] \in Open => status[p] \in Open /\ text'[p] = text[p]
  BY <1>4 DEF TypeOK
<1> HIDE DEF PubInv, r
<1> QED
  BY <1>4, <1>6, <1>7, <1>8, <1>9, <1>10, WorkerStep

LEMMA AfterEditPub ==
  ASSUME PubInv, NEW w \in Workers, AfterEdit(w)
  PROVE  PubInv'
<1> USE DEF PubInv
<1>1. PICK q \in Requests : q = work[w].request
  BY WorkShape DEF AfterEdit
<1>2. PICK c \in BOOLEAN : c = work[w].content
  BY WorkShape DEF AfterEdit
<1>3. /\ work' = [work EXCEPT ![w] = Idle]
      /\ Idle \in Work /\ Sound(Idle)'
      /\ text' = text /\ forms' = forms
      /\ UNCHANGED <<published, trust, page, live>>
  BY DEF AfterEdit, Set, Idle, Work, Sound, texts
<1>4. /\ cleared' = IF status[q] \in Open /\ c /\ trust = 2
                    THEN cleared \cup {<<q, text[q]>>} ELSE cleared
      /\ slipped' = IF status[q] = "in_progress" /\ c /\ ReviewEdit
                    THEN slipped \cup {<<q, text[q]>>} ELSE slipped
      /\ returned' \subseteq Requests
  BY <1>1, <1>2 DEF AfterEdit, Present, TypeOK
<1>5. \/ status' = [status EXCEPT ![q] = "pending_moderation"]
      \/ /\ ~(status[q] = "active" /\ c /\ ReviewEdit)
         /\ \/ status[q] = "active" /\ status' = [status EXCEPT ![q] = "in_progress"]
            \/ status' = status
  BY <1>1, <1>2 DEF AfterEdit, Move
<1>6. TypeOK'
  <2>1. <<q, text[q]>> \in Requests \X Texts
    BY DEF TypeOK
  <2>2. cleared' \subseteq Requests \X Texts /\ slipped' \subseteq Requests \X Texts
    BY <1>4, <2>1 DEF TypeOK
  <2>3. status' \in [Requests -> Statuses] /\ work' \in [Workers -> Work]
    BY <1>3, <1>5 DEF TypeOK, Statuses
  <2> QED
    BY <1>3, <1>4, <2>2, <2>3 DEF TypeOK
<1>7. Grows /\ published' \subseteq live'
  BY <1>3, <1>4 DEF Grows
<1>8. DraftsUncounted'
  BY <1>3, <1>5 DEF TypeOK, DraftsUncounted
<1>9. \A p \in Requests : status'[p] \in Open => status[p] \in Open /\ text'[p] = text[p]
  BY <1>3, <1>5 DEF TypeOK, Open
<1>10. status'[q] \in Open /\ c => Reviewed(q)'
  <2> SUFFICES ASSUME status'[q] \in Open, c PROVE Reviewed(q)'
    OBVIOUS
  <2>1. status[q] \in Open
    BY <1>9
  <2>2. ~(status[q] = "active" /\ ReviewEdit)
    BY <1>5 DEF TypeOK, Open
  <2>3. CASE trust = 2
    BY <1>3, <1>4, <2>1, <2>3 DEF Reviewed, Vouched
  <2>4. CASE ReviewEdit
    <3>1. status[q] = "in_progress"
      BY <2>1, <2>2, <2>4 DEF Open
    <3> QED
      BY <1>3, <1>4, <2>4, <3>1 DEF Reviewed, Vouched
  <2>5. CASE trust # 2 /\ ~ReviewEdit
    <3>1. ~(Cardinality(published) <= Premoderated)
      BY <2>5, PublishingAssumption DEF ReviewEdit, TypeOK
    <3>2. Enough(q)
      BY <3>1, EnoughWithout DEF TypeOK
    <3> QED
      BY <1>3, <3>2 DEF Reviewed, Vouched, Enough
  <2> QED
    BY <2>3, <2>4, <2>5
<1>11. \A p \in Requests : status'[p] \in Open =>
         \/ Reviewed(p)'
         \/ /\ status[p] \in Open /\ text'[p] = text[p]
            /\ ~(At(w, "after_edit") /\ work[w].request = p /\ work[w].content)
  BY <1>1, <1>2, <1>9, <1>10
<1> HIDE DEF PubInv
<1> QED
  BY <1>3, <1>6, <1>7, <1>8, <1>11, WorkerStep

LEMMA GiveUpPub ==
  ASSUME PubInv, NEW w \in Workers, GiveUp(w)
  PROVE  PubInv'
<1> USE DEF PubInv
<1>1. /\ work' = [work EXCEPT ![w] = Idle]
      /\ Idle \in Work /\ Sound(Idle)'
      /\ text' = text /\ forms' = forms
      /\ UNCHANGED <<status, published, trust, page, live, cleared, returned>>
  BY DEF GiveUp, Set, Idle, Work, Sound, texts
<1>2. slipped \subseteq slipped' /\ slipped' \subseteq Requests \X Texts
  <2>1. At(w, "after_edit") => Present(work[w].request) \in Requests \X Texts
    BY WorkShape DEF Present, TypeOK
  <2> QED
    BY <2>1 DEF GiveUp, TypeOK
<1>3. TypeOK'
  BY <1>1, <1>2 DEF TypeOK
<1>4. Grows /\ published' \subseteq live' /\ DraftsUncounted'
  BY <1>1, <1>2 DEF Grows, DraftsUncounted
<1>5. ASSUME NEW p \in Requests, status'[p] \in Open,
             At(w, "after_edit"), work[w].request = p, work[w].content
      PROVE  Reviewed(p)'
  <2>1. <<p, text[p]>> \in slipped'
    BY <1>1, <1>5 DEF GiveUp, Present
  <2> QED
    BY <1>1, <2>1 DEF Reviewed, Vouched
<1> HIDE DEF PubInv
<1> QED
  BY <1>1, <1>3, <1>4, <1>5, WorkerStep

LEMMA RecipientPub ==
  ASSUME PubInv, NEW w \in Workers, RecipientStep(w)
  PROVE  PubInv'
<1> USE DEF PubInv
<1>0. forms \in Texts /\ (forms' = forms => forms' \in Texts)
  BY DEF TypeOK
<1>1. CASE Load(w)
  <2>1. [step |-> "loaded", trust |-> trust] \in Work /\ Sound([step |-> "loaded", trust |-> trust])
    BY DEF TypeOK, Work, Sound
  <2> QED
    BY <1>0, <1>1, <2>1, ReadStep DEF Load, At, texts
<1>2. CASE CreateCheck(w)
  <2>1. /\ [step |-> "create", trust |-> work[w].trust] \in Work
        /\ Sound([step |-> "create", trust |-> work[w].trust])
    BY <1>2, WorkShape DEF CreateCheck, Work, Sound
  <2> QED
    BY <1>0, <1>2, <2>1, ReadStep DEF CreateCheck, At, texts
<1>3. CASE PublishDraft(w)
  <2>1. PICK q \in Requests :
          Set(w, [step |-> "publish", trust |-> work[w].trust, request |-> q])
    BY <1>3 DEF PublishDraft
  <2>2. /\ [step |-> "publish", trust |-> work[w].trust, request |-> q] \in Work
        /\ Sound([step |-> "publish", trust |-> work[w].trust, request |-> q])
    BY <1>3, WorkShape DEF PublishDraft, Work, Sound
  <2> QED
    BY <1>0, <1>3, <2>1, <2>2, ReadStep DEF PublishDraft, At, texts
<1>4. CASE EditOpen(w)
  <2>1. PICK q \in Requests : Set(w, [step |-> "edit", request |-> q])
    BY <1>4 DEF EditOpen
  <2>2. [step |-> "edit", request |-> q] \in Work /\ Sound([step |-> "edit", request |-> q])
    BY DEF Work, Sound
  <2> QED
    BY <1>0, <1>4, <2>1, <2>2, ReadStep DEF EditOpen, At, texts
<1> QED
  BY <1>1, <1>2, <1>3, <1>4, CreateSavePub, PublishCheckPub, PublishCommitPub, EditReadPub, EditSavePub,
     AfterEditPub, GiveUpPub DEF RecipientStep

-----------------------------------------------------------------------------
(* The steps of the volunteers, the moderators and the rest *)

LEMMA RequestPub ==
  ASSUME PubInv, NEW q \in Requests, RequestStep(q)
  PROVE  PubInv'
<1>1. /\ UNCHANGED <<published, trust, work, page, live, cleared, slipped>>
      /\ text' = text /\ forms' = forms /\ returned' \subseteq returned
      /\ \/ status[q] \in Open /\ status' = [status EXCEPT ![q] = "in_progress"]
         \/ status[q] \in Open /\ status' = [status EXCEPT ![q] = "active"]
         \/ status' = [status EXCEPT ![q] = "closed"]
  BY DEF RequestStep, Fill, Reopen, Close, Move, texts, ghosts, Open
<1>2. TypeOK'
  BY <1>1 DEF PubInv, TypeOK, Statuses
<1>3. Grows /\ published' \subseteq live' /\ DraftsUncounted'
  BY <1>1 DEF Grows, PubInv, TypeOK, DraftsUncounted
<1>4. \A p \in Requests : status'[p] \in Open => status[p] \in Open /\ text'[p] = text[p]
  BY <1>1 DEF PubInv, TypeOK, Open
<1> QED
  BY <1>1, <1>2, <1>3, <1>4, OtherStep

LEMMA ApprovePub ==
  ASSUME PubInv, NEW m \in Moderators, Approve(m)
  PROVE  PubInv'
<1>1. PICK q \in Requests, t \in Texts : q = page[m].request /\ t = page[m].text
  BY DEF Approve, PubInv, TypeOK, NoPage
<1>2. /\ status' = [status EXCEPT ![q] = "active"]
      /\ published' = published \cup {q} /\ live' = live \cup {q}
      /\ page' = [page EXCEPT ![m] = NoPage]
      /\ text' = text /\ forms' = forms
      /\ UNCHANGED <<trust, work, returned>>
      /\ cleared' = cleared \cup {<<q, t>>}
      /\ slipped' = IF t # text[q] /\ ~Reviewing(q) THEN slipped \cup {<<q, text[q]>>} ELSE slipped
  BY <1>1 DEF Approve, Move, GoLive, Present, texts
<1>3. <<q, t>> \in Requests \X Texts /\ <<q, text[q]>> \in Requests \X Texts
  BY DEF PubInv, TypeOK
<1>4. TypeOK'
  <2>1. cleared' \subseteq Requests \X Texts /\ slipped' \subseteq Requests \X Texts
    BY <1>2, <1>3 DEF PubInv, TypeOK
  <2> QED
    BY <1>2, <2>1 DEF PubInv, TypeOK, Statuses
<1>5. Grows /\ published' \subseteq live' /\ DraftsUncounted'
  BY <1>2 DEF Grows, PubInv, TypeOK, DraftsUncounted
<1>6. Reviewed(q)'
  <2>1. CASE Reviewing(q)
    BY <1>2, <2>1 DEF Reviewed, Reviewing, At
  <2>2. CASE ~Reviewing(q)
    <3>1. <<q, text[q]>> \in cleared' \cup slipped'
      BY <1>2, <2>2
    <3> QED
      BY <1>2, <3>1 DEF Reviewed, Vouched
  <2> QED
    BY <2>1, <2>2
<1>7. \A p \in Requests \ {q} : status'[p] \in Open => status[p] \in Open /\ text'[p] = text[p]
  BY <1>2 DEF PubInv, TypeOK
<1> QED
  BY <1>2, <1>4, <1>5, <1>6, <1>7, OtherStep

LEMMA ModeratorPub ==
  ASSUME PubInv, NEW m \in Moderators, ModeratorStep(m)
  PROVE  PubInv'
<1>1. CASE QueuePage(m) \/ RejectRequest(m)
  <2>1. /\ UNCHANGED <<published, trust, work, live, cleared, slipped, returned>>
        /\ text' = text /\ forms' = forms
        /\ \E q \in Requests :
             status' = status \/ status' = [status EXCEPT ![q] = "rejected"]
        /\ page' \in [Moderators -> {NoPage} \cup [request : Requests, text : Texts]]
    <3>1. CASE QueuePage(m)
      BY <3>1 DEF QueuePage, texts, ghosts, PubInv, TypeOK
    <3>2. CASE RejectRequest(m)
      <4>1. page[m].request \in Requests
        BY <3>2 DEF RejectRequest, PubInv, TypeOK, NoPage
      <4> QED
        BY <3>2, <4>1 DEF RejectRequest, Move, texts, ghosts, PubInv, TypeOK
    <3> QED
      BY <1>1, <3>1, <3>2
  <2>2. TypeOK'
    BY <2>1 DEF PubInv, TypeOK, Statuses
  <2>3. Grows /\ published' \subseteq live' /\ DraftsUncounted'
    BY <2>1 DEF Grows, PubInv, TypeOK, DraftsUncounted
  <2>4. \A p \in Requests : status'[p] \in Open => status[p] \in Open /\ text'[p] = text[p]
    BY <2>1 DEF PubInv, TypeOK, Open
  <2> QED
    BY <2>1, <2>2, <2>3, <2>4, OtherStep
<1> QED
  BY <1>1, ApprovePub DEF ModeratorStep

LEMMA UnchangedPub ==
  ASSUME PubInv, trust' \in Levels, UNCHANGED <<status, published, texts, work, page, ghosts>>
  PROVE  PubInv'
<1>1. TypeOK' /\ DraftsUncounted' /\ Grows /\ published' \subseteq live'
  BY DEF PubInv, TypeOK, DraftsUncounted, ghosts, texts, Grows
<1> QED
  BY <1>1, OtherStep DEF ghosts, texts

LEMMA NextPub == PubInv /\ [Next]_vars => PubInv'
<1> SUFFICES ASSUME PubInv, [Next]_vars PROVE PubInv'
  OBVIOUS
<1>1. CASE TrustChange
  BY <1>1, UnchangedPub DEF TrustChange
<1>2. CASE UNCHANGED vars
  BY <1>2, UnchangedPub DEF vars, ghosts, texts, PubInv, TypeOK
<1> QED
  BY <1>1, <1>2, RecipientPub, RequestPub, ModeratorPub DEF Next

-----------------------------------------------------------------------------
(* The limit *)

\* The workers and the requests are few, and so are those in question.
LEMMA LimitFinite ==
  /\ IsFiniteSet(Unfinished \ returned) /\ Cardinality(Unfinished \ returned) \in Nat
  /\ IsFiniteSet(Creating) /\ Cardinality(Creating) \in Nat
  /\ IsFiniteSet(Unfinished) /\ Cardinality(Unfinished) \in Nat
  /\ Cardinality(Unfinished \ returned) <= Cardinality(Unfinished)
  /\ Cardinality(Creating) <= Cardinality(Workers)
  /\ Cardinality(Workers) \in Nat
<1>1. Unfinished \in SUBSET Requests /\ Creating \in SUBSET Workers
  BY DEF Unfinished, Creating
<1>2. Unfinished \ returned \in SUBSET Unfinished
  OBVIOUS
<1>3. IsFiniteSet(Unfinished) /\ IsFiniteSet(Creating)
  BY <1>1, PublishingAssumption, FS_Subset
<1> QED
  BY <1>1, <1>2, <1>3, PublishingAssumption, FS_Subset, FS_CardinalityType

\* A step by which no more requests are open and no more creations under way.
LEMMA LimitKept ==
  ASSUME LimitInv, TypeOK', LockHolds',
         (Unfinished \ returned)' \subseteq Unfinished \ returned,
         Creating' \subseteq Creating
  PROVE  LimitInv'
<1>1. /\ IsFiniteSet(Unfinished \ returned) /\ Cardinality(Unfinished \ returned) \in Nat
      /\ IsFiniteSet(Creating) /\ Cardinality(Creating) \in Nat
      /\ Cardinality(Workers) \in Nat
  BY LimitFinite
<1>2. /\ Cardinality((Unfinished \ returned)') \in Nat
      /\ Cardinality(Creating') \in Nat
      /\ Cardinality((Unfinished \ returned)') <= Cardinality(Unfinished \ returned)
      /\ Cardinality(Creating') <= Cardinality(Creating)
  BY <1>1, FS_Subset, FS_CardinalityType
<1> QED
  BY <1>1, <1>2, PublishingAssumption DEF LimitInv, FewOverLimit

LEMMA InitLimit == Init => LimitInv
<1> SUFFICES ASSUME Init PROVE LimitInv
  OBVIOUS
<1>1. TypeOK
  BY InitPub DEF PubInv
<1>2. Unfinished \ returned = {} /\ Creating = {}
  BY DEF Init, Unfinished, UnfinishedStatuses, Open, Creating, At, Idle
<1>3. Cardinality(Unfinished \ returned) = 0 /\ Cardinality(Creating) = 0
  BY <1>2, FS_EmptySet
<1>4. LockHolds
  BY DEF Init, LockHolds, At, Idle
<1> QED
  BY <1>1, <1>3, <1>4, LimitFinite, PublishingAssumption DEF LimitInv, FewOverLimit

LEMMA CreateCheckLimit ==
  ASSUME LimitInv, TypeOK', LockHolds', NEW w \in Workers, CreateCheck(w)
  PROVE  LimitInv'
<1>1. (Unfinished \ returned)' = Unfinished \ returned
  BY DEF CreateCheck, Unfinished, ghosts
<1>2. Cardinality(Unfinished) < MaxActive
  BY DEF CreateCheck, MayCreate
<1>3. Creating' \in SUBSET Workers
  BY DEF Creating
<1>4. Cardinality(Creating') \in Nat /\ Cardinality(Creating') <= Cardinality(Workers)
  BY <1>3, PublishingAssumption, FS_Subset, FS_CardinalityType
<1>5. /\ Cardinality(Unfinished \ returned) \in Nat
      /\ Cardinality(Unfinished) \in Nat
      /\ Cardinality(Unfinished \ returned) <= Cardinality(Unfinished)
      /\ Cardinality(Workers) \in Nat
  BY LimitFinite
<1>6. Cardinality((Unfinished \ returned)') = Cardinality(Unfinished \ returned)
  BY <1>1
<1> QED
  BY <1>2, <1>4, <1>5, <1>6, PublishingAssumption DEF LimitInv, FewOverLimit

LEMMA CreateSaveLimit ==
  ASSUME LimitInv, TypeOK', LockHolds', NEW w \in Workers, CreateSave(w)
  PROVE  LimitInv'
<1>0. PICK q \in Requests :
        /\ status' = [status EXCEPT ![q] = "draft"]
        /\ Set(w, IF work[w].trust >= 1
                  THEN [step |-> "publish", trust |-> work[w].trust, request |-> q] ELSE Idle)
  BY DEF CreateSave, Move
<1>1. /\ status' = [status EXCEPT ![q] = "draft"]
      /\ \/ work' = [work EXCEPT ![w] =
                [step |-> "publish", trust |-> work[w].trust, request |-> q]]
         \/ work' = [work EXCEPT ![w] = Idle]
  BY <1>0 DEF Set
<1>2. (Unfinished \ returned)' \subseteq (Unfinished \ returned) \cup {q}
  BY <1>1 DEF CreateSave, Unfinished, LimitInv, TypeOK, ghosts
<1>3. Creating' = Creating \ {w} /\ w \in Creating
  BY <1>1 DEF CreateSave, Creating, At, LimitInv, TypeOK, Idle
<1>4. /\ IsFiniteSet(Unfinished \ returned) /\ Cardinality(Unfinished \ returned) \in Nat
      /\ IsFiniteSet(Creating) /\ Cardinality(Creating) \in Nat
      /\ Cardinality(Workers) \in Nat
  BY LimitFinite
<1>5. Cardinality(Creating') = Cardinality(Creating) - 1
  BY <1>3, <1>4, FS_RemoveElement
<1>6. /\ IsFiniteSet((Unfinished \ returned) \cup {q})
      /\ Cardinality((Unfinished \ returned) \cup {q})
           <= Cardinality(Unfinished \ returned) + 1
  <2> DEFINE U == Unfinished \ returned
  <2>1. IsFiniteSet(U) /\ Cardinality(U) \in Nat
    BY <1>4
  <2> HIDE DEF U
  <2>2. /\ IsFiniteSet(U \cup {q})
        /\ Cardinality(U \cup {q}) = IF q \in U THEN Cardinality(U) ELSE Cardinality(U) + 1
    BY <2>1, FS_AddElement
  <2>3. Cardinality(U \cup {q}) <= Cardinality(U) + 1
    BY <2>1, <2>2
  <2> QED
    BY <2>2, <2>3 DEF U
<1>7. /\ Cardinality((Unfinished \ returned)') \in Nat
      /\ Cardinality((Unfinished \ returned)')
           <= Cardinality((Unfinished \ returned) \cup {q})
  BY <1>2, <1>6, FS_Subset, FS_CardinalityType
<1>8. Cardinality((Unfinished \ returned) \cup {q}) \in Nat
  BY <1>6, FS_CardinalityType
<1> QED
  BY <1>4, <1>5, <1>6, <1>7, <1>8, PublishingAssumption DEF LimitInv, FewOverLimit

LEMMA NextLock ==
  ASSUME TypeOK, LockHolds, Next
  PROVE  LockHolds'
<1> USE DEF LockHolds, At
<1>1. ASSUME NEW w \in Workers, RecipientStep(w) PROVE LockHolds'
  <2>1. CASE Load(w) \/ CreateCheck(w) \/ PublishDraft(w) \/ EditOpen(w) \/ EditRead(w)
    BY <2>1 DEF Load, CreateCheck, PublishDraft, EditOpen, EditRead, Set, TypeOK, ghosts
  <2>2. CASE CreateSave(w)
    BY <2>2 DEF CreateSave, Move, Set, Idle, TypeOK, ghosts
  <2>3. CASE PublishCheck(w)
    BY <2>3 DEF PublishCheck, Locked, Set, TypeOK, ghosts
  <2>4. CASE PublishCommit(w)
    <3>1. PICK q \in Requests : q = work[w].request
      BY <2>4, WorkShape DEF PublishCommit
    <3>2. /\ work' = [work EXCEPT ![w] = Idle]
          /\ \A p \in Requests \ {q} : status'[p] = status[p]
      BY <2>4, <3>1 DEF PublishCommit, Set, Move, TypeOK
    <3>3. \A x \in Workers \ {w} :
            work[x].step = "publishing" => work[x].request \in Requests \ {q}
      BY <2>4, <3>1, WorkShape DEF PublishCommit
    <3> QED
      BY <3>2, <3>3 DEF TypeOK, Idle
  <2>5. CASE (\E content \in BOOLEAN : EditSave(w, content)) \/ AfterEdit(w)
    <3>1. PICK q \in Requests : q = work[w].request
      BY <2>5, WorkShape DEF EditSave, AfterEdit, Form
    <3>2. PICK r : /\ work' = [work EXCEPT ![w] = r] /\ r.step # "publishing"
                   /\ ~Locked(q)
                   /\ \A p \in Requests \ {q} : status'[p] = status[p]
      BY <2>5, <3>1 DEF EditSave, AfterEdit, Set, Move, Idle, TypeOK
    <3>3. \A x \in Workers :
            work[x].step = "publishing" => work[x].request \in Requests \ {q}
      BY <3>2, WorkShape DEF Locked
    <3> QED
      BY <3>2, <3>3 DEF TypeOK
  <2>7. CASE GiveUp(w)
    BY <2>7 DEF GiveUp, Set, Idle, TypeOK
  <2> QED
    BY <1>1, <2>1, <2>2, <2>3, <2>4, <2>5, <2>7 DEF RecipientStep
<1>2. ASSUME NEW q \in Requests, RequestStep(q) PROVE LockHolds'
  <2>1. CASE Close(q)
    BY <2>1, WorkShape DEF Close, Locked, Move, TypeOK
  <2>2. CASE Fill(q) \/ Reopen(q)
    BY <2>2, WorkShape DEF Fill, Reopen, Move, TypeOK
  <2> QED
    BY <1>2, <2>1, <2>2 DEF RequestStep
<1>3. ASSUME NEW m \in Moderators, ModeratorStep(m) PROVE LockHolds'
  <2>1. CASE QueuePage(m)
    BY <2>1 DEF QueuePage, ghosts
  <2>2. CASE Approve(m) \/ RejectRequest(m)
    BY <2>2, WorkShape DEF Approve, RejectRequest, Move, TypeOK, ghosts
  <2> QED
    BY <1>3, <2>1, <2>2 DEF ModeratorStep
<1>4. CASE TrustChange
  BY <1>4 DEF TrustChange, ghosts
<1> QED
  BY <1>1, <1>2, <1>3, <1>4 DEF Next

LEMMA NextLimit ==
  ASSUME LimitInv, TypeOK', [Next]_vars
  PROVE  LimitInv'
<1>l. LockHolds'
  <2>1. CASE UNCHANGED vars
    BY <2>1 DEF vars, LimitInv, LockHolds, At
  <2> QED
    BY <2>1, NextLock DEF LimitInv
<1> USE DEF LimitInv
<1>1. ASSUME NEW w \in Workers, RecipientStep(w) PROVE LimitInv'
  <2>1. CASE Load(w) \/ PublishDraft(w) \/ PublishCheck(w) \/ EditOpen(w) \/ EditRead(w)
    <3>1. /\ (Unfinished \ returned)' = Unfinished \ returned
          /\ Creating' \subseteq Creating
      BY <2>1 DEF Load, PublishDraft, PublishCheck, EditOpen, EditRead, Set, Unfinished, Creating, At, TypeOK,
                  ghosts
    <3> QED
      BY <1>l, <3>1, LimitKept
  <2>3. CASE PublishCommit(w)
    <3>1. PICK q \in Requests : q = work[w].request /\ status[q] = "draft"
      BY <2>3, WorkShape DEF PublishCommit, LockHolds
    <3>2. /\ (Unfinished \ returned)' \subseteq Unfinished \ returned
          /\ Creating' \subseteq Creating
      BY <2>3, <3>1 DEF PublishCommit, Set, Move, Unfinished, UnfinishedStatuses, Creating, At, Idle,
                        TypeOK
    <3> QED
      BY <1>l, <3>2, LimitKept
  <2>4. CASE \E content \in BOOLEAN : EditSave(w, content)
    <3>1. PICK q \in Requests : q = work[w].request
      BY <2>4, WorkShape DEF EditSave, Form
    <3>2. /\ (Unfinished \ returned)' \subseteq Unfinished \ returned
          /\ Creating' \subseteq Creating
      BY <2>4, <3>1 DEF EditSave, Set, Move, Unfinished, Creating, At, TypeOK
    <3> QED
      BY <1>l, <3>2, LimitKept
  <2>5. CASE AfterEdit(w)
    <3>1. PICK q \in Requests : q = work[w].request
      BY <2>5, WorkShape DEF AfterEdit
    <3>2. /\ (Unfinished \ returned)' \subseteq Unfinished \ returned
          /\ Creating' \subseteq Creating
      BY <2>5, <3>1 DEF AfterEdit, Set, Move, Unfinished, UnfinishedStatuses, Open, Creating, At,
                        Idle, TypeOK
    <3> QED
      BY <1>l, <3>2, LimitKept
  <2>6. CASE GiveUp(w)
    <3>1. /\ (Unfinished \ returned)' = Unfinished \ returned
          /\ Creating' \subseteq Creating
      BY <2>6 DEF GiveUp, Set, Unfinished, Creating, At, Idle, TypeOK
    <3> QED
      BY <1>l, <3>1, LimitKept
  <2> QED
    BY <1>1, <1>l, <2>1, <2>3, <2>4, <2>5, <2>6, CreateCheckLimit, CreateSaveLimit
       DEF RecipientStep
<1>2. ASSUME NEW q \in Requests, RequestStep(q) PROVE LimitInv'
  <2>1. /\ (Unfinished \ returned)' \subseteq Unfinished \ returned
        /\ Creating' \subseteq Creating
    BY <1>2 DEF RequestStep, Fill, Reopen, Close, Move, Unfinished, UnfinishedStatuses, Open,
                Creating, At, TypeOK, ghosts
  <2> QED
    BY <1>l, <2>1, LimitKept
<1>3. ASSUME NEW m \in Moderators, ModeratorStep(m) PROVE LimitInv'
  <2>1. /\ (Unfinished \ returned)' \subseteq Unfinished \ returned
        /\ Creating' \subseteq Creating
    BY <1>3 DEF ModeratorStep, QueuePage, Approve, RejectRequest, Move, Unfinished,
                UnfinishedStatuses, Creating, At, TypeOK, ghosts
  <2> QED
    BY <1>l, <2>1, LimitKept
<1>4. CASE TrustChange \/ UNCHANGED vars
  <2>1. /\ (Unfinished \ returned)' = Unfinished \ returned
        /\ Creating' = Creating
    BY <1>4 DEF TrustChange, vars, Unfinished, Creating, At, ghosts
  <2> QED
    BY <1>l, <2>1, LimitKept
<1> QED
  BY <1>1, <1>2, <1>3, <1>4 DEF Next

-----------------------------------------------------------------------------
(* The theorems *)

\* Both invariants hold of every execution.
THEOREM PublishingHolds == Spec => [](PubInv /\ LimitInv)
<1>1. Init => PubInv /\ LimitInv
  BY InitPub, InitLimit
<1>2. PubInv /\ LimitInv /\ [Next]_vars => (PubInv /\ LimitInv)'
  <2> SUFFICES ASSUME PubInv, LimitInv, [Next]_vars PROVE PubInv' /\ LimitInv'
    OBVIOUS
  <2>1. PubInv'
    BY NextPub
  <2>2. TypeOK'
    BY <2>1 DEF PubInv
  <2> QED
    BY <2>1, <2>2, NextLimit
<1> QED
  BY <1>1, <1>2, PTL DEF Spec

\* The variables keep their types.
THEOREM PublishingTypes == Spec => []TypeOK
<1>1. PubInv => TypeOK
  BY DEF PubInv
<1> QED
  BY <1>1, PublishingHolds, PTL

\* No text is public that no moderator has read and nothing excuses: enough
\* requests that went live, a verified recipient, an edit still under way, or one
\* of the four named slips (publish, the edit view, after_edit, accept, approve).
THEOREM PublicIsReviewed == Spec => []PublicWasReviewed
<1>1. PubInv => PublicWasReviewed
  BY DEF PubInv, PublicWasReviewed, Reviewed, Vouched, Enough, Present
<1> QED
  BY <1>1, PublishingHolds, PTL

\* Creations that overlap exceed the limit by less than the workers
\* (can_create_request).
THEOREM LimitOverrunIsSmall == Spec => []FewOverLimit
<1>1. LimitInv => FewOverLimit
  BY DEF LimitInv
<1> QED
  BY <1>1, PublishingHolds, PTL
=============================================================================
