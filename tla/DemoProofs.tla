----------------------------- MODULE DemoProofs -----------------------------
(***************************************************************************)
(* The demo world is never there in part, for any number of calls,         *)
(* commands, visitors and failures.  What has to be shown is that a wipe    *)
(* that read the rows earlier takes all of a world or nothing of it: it     *)
(* holds the keys of every account of the world or of none.                *)
(***************************************************************************)
EXTENDS Demo, TLAPS

\* accounts as they were seeded
Seeded == Present \ revived
Full(w) == Seeded = Roles /\ \A r \in Roles : row[r] = w

AllOrNone == Seeded = {} \/ \E w \in Worlds : Full(w)

WipesWhole ==
  \A c \in Runners, w \in Worlds :
    call[c].step = "delete" /\ Full(w) =>
      \/ \A r \in Roles : call[c].seen[r] = w
      \/ \A r \in Roles : call[c].seen[r] # w

DemoInv == DemoTypeOK /\ revived \subseteq Present /\ AllOrNone /\ WipesWhole

LEMMA InitDemo == Init => DemoInv
<1> SUFFICES ASSUME Init PROVE DemoInv
  OBVIOUS
<1>1. DemoTypeOK
  BY DemoAssumption
  DEF Init, DemoTypeOK, Idle, NoPage, None, Roles
<1>2. Present = {}
  BY DEF Init, Present
<1> QED
  BY <1>1, <1>2 DEF Init, DemoInv, Seeded, AllOrNone, WipesWhole, Idle

\* A step that leaves the rows alone, and from which no call holds other keys.
LEMMA RowsStay ==
  ASSUME DemoInv, DemoTypeOK', UNCHANGED <<row, revived>>,
         \A c \in Runners : call'[c].step = "delete" => call'[c].seen = call[c].seen
                                                     /\ call[c].step = "delete"
  PROVE  DemoInv'
<1>1. Present' = Present /\ Seeded' = Seeded /\ \A w \in Worlds : Full(w)' <=> Full(w)
  BY DEF Present, Seeded, Full
<1> QED
  BY <1>1 DEF DemoInv, AllOrNone, WipesWhole

LEMMA CallType ==
  ASSUME DemoTypeOK, NEW c \in Runners, NEW s \in {"idle", "collect", "delete", "seed"},
         Goto(c, [Idle EXCEPT !.step = s])
  PROVE  /\ call' \in [Runners -> [step : {"idle", "collect", "delete", "seed"},
                                   seen : [Roles -> Worlds \cup {None}]]]
         /\ \A d \in Runners : call'[d].step = "delete" /\ s # "delete"
                                 => call'[d] = call[d]
BY DEF DemoTypeOK, Goto, Idle

-----------------------------------------------------------------------------

\* The steps of a call that touch no row.
LEMMA CallInv ==
  ASSUME DemoInv, NEW c \in Runners, Decide(c) \/ Command(c) \/ Fail(c)
  PROVE  DemoInv'
<1>1. DemoTypeOK
  BY DEF DemoInv
<1>2. PICK s \in {"idle", "collect", "seed"} : Goto(c, [Idle EXCEPT !.step = s])
  <2>1. Idle = [Idle EXCEPT !.step = "idle"]
    BY DEF Idle
  <2> QED
    BY <2>1 DEF Decide, Command, Fail
<1>3. UNCHANGED <<row, young, page, revived>> /\ faults' \in 0..MaxFaults
  BY <1>1, DemoAssumption DEF Decide, Command, Fail, Fault, DemoTypeOK
<1>4. DemoTypeOK'
  BY <1>1, <1>2, <1>3, CallType DEF DemoTypeOK
<1> QED
  BY <1>1, <1>2, <1>3, <1>4, CallType, RowsStay

\* delete() reads all the rows at once.
LEMMA CollectInv ==
  ASSUME DemoInv, NEW c \in Runners, WipeCollect(c)
  PROVE  DemoInv'
<1> DEFINE here == [step |-> "delete", seen |-> row]
<1>1. DemoTypeOK
  BY DEF DemoInv
<1>2. /\ call' = [call EXCEPT ![c] = here]
      /\ UNCHANGED <<row, young, page, revived, faults>>
  BY DEF WipeCollect, Goto
<1>3. DemoTypeOK'
  BY <1>1, <1>2 DEF DemoTypeOK
<1>4. Present' = Present /\ Seeded' = Seeded /\ \A w \in Worlds : Full(w)' <=> Full(w)
  BY <1>2 DEF Present, Seeded, Full
<1>5. WipesWhole'
  <2> SUFFICES ASSUME NEW d \in Runners, NEW w \in Worlds,
                      call'[d].step = "delete", Full(w)
               PROVE  \/ \A r \in Roles : call'[d].seen[r] = w
                      \/ \A r \in Roles : call'[d].seen[r] # w
    BY <1>4 DEF WipesWhole
  <2>1. CASE d = c
    <3>1. call'[d].seen = row
      BY <1>1, <1>2, <2>1 DEF DemoTypeOK
    <3> QED
      BY <3>1 DEF Full
  <2>2. CASE d # c
    BY <1>1, <1>2, <2>2 DEF DemoInv, DemoTypeOK, WipesWhole
  <2> QED
    BY <2>1, <2>2
<1> QED
  BY <1>2, <1>3, <1>4, <1>5 DEF DemoInv, AllOrNone

\* It deletes a whole world or nothing of it.
LEMMA DeleteInv ==
  ASSUME DemoInv, NEW c \in Runners, WipeDelete(c)
  PROVE  DemoInv'
<1> DEFINE gone == {r \in Roles : row[r] = call[c].seen[r]}
<1>1. DemoTypeOK /\ revived \subseteq Present
  BY DEF DemoInv
<1>2. /\ call[c].step = "delete"
      /\ row' = [r \in Roles |-> IF r \in gone THEN None ELSE row[r]]
      /\ revived' = revived \ gone
      /\ Goto(c, [Idle EXCEPT !.step = "seed"])
      /\ UNCHANGED <<young, page, faults>>
  BY DEF WipeDelete
<1>3. DemoTypeOK'
  BY <1>1, <1>2, CallType DEF DemoTypeOK
<1>4. Present' = Present \ gone /\ Seeded' = Seeded \ gone
  BY <1>2 DEF Present, Seeded
<1>5. \A d \in Runners : call'[d].step = "delete" => call'[d] = call[d]
  BY <1>1, <1>2, CallType
<1>6. CASE Seeded = {}
  BY <1>1, <1>2, <1>3, <1>4, <1>6 DEF DemoInv, AllOrNone, WipesWhole, Full, Roles
<1>7. CASE Seeded # {}
  <2>1. PICK w \in Worlds : Full(w)
    BY <1>7 DEF DemoInv, AllOrNone
  <2>2. gone = Roles \/ gone = {}
    BY <1>2, <2>1 DEF DemoInv, WipesWhole, Full
  <2>3. CASE gone = Roles
    <3>1. Seeded' = {}
      BY <1>4, <2>3 DEF Seeded, Present
    <3> QED
      BY <1>1, <1>2, <1>3, <1>4, <3>1 DEF DemoInv, AllOrNone, WipesWhole, Full, Roles
  <2>4. CASE gone = {}
    <3>1. row' = row /\ revived' = revived
      BY <1>1, <1>2, <2>4 DEF DemoTypeOK
    <3> QED
      BY <1>1, <1>2, <1>3, <1>5, <3>1, RowsStay
  <2> QED
    BY <2>2, <2>3, <2>4
<1> QED
  BY <1>6, <1>7

\* seed() inserts all accounts or, when a username is taken, none; nobody can
\* hold a key of the new rows.
LEMMA SeedInv ==
  ASSUME DemoInv, NEW c \in Runners, Seed(c)
  PROVE  DemoInv'
<1> DEFINE w == CHOOSE x \in Worlds : x \in Unused
           new == SeedAll(Roles \ Present)
<1>1. DemoTypeOK /\ revived \subseteq Present
  BY DEF DemoInv
<1>2. w \in Worlds /\ w \in Unused
  BY DEF Seed, Unused
<1>3. /\ row' = [r \in Roles |-> IF r \in new THEN w ELSE row[r]]
      /\ young' = IF new # {} THEN (young \ Unused) \cup {w} ELSE young
      /\ Goto(c, Idle)
      /\ UNCHANGED <<page, revived, faults>>
  BY DEF Seed
<1> HIDE DEF w
<1>4. Goto(c, [Idle EXCEPT !.step = "idle"])
  BY <1>3 DEF Idle
<1>5. new = {} \/ (new = Roles /\ Present = {} /\ revived = {})
  BY <1>1 DEF SeedAll, Present
<1>6. \A d \in Runners : call'[d].step = "delete" => call'[d] = call[d]
  BY <1>1, <1>4, CallType
<1>7. DemoTypeOK'
  BY <1>1, <1>2, <1>3, <1>4, <1>5, CallType DEF DemoTypeOK
<1>8. CASE new = {}
  <2>1. row' = row /\ revived' = revived
    BY <1>1, <1>3, <1>8 DEF DemoTypeOK
  <2> QED
    BY <1>6, <1>7, <2>1, RowsStay
<1>9. CASE new # {}
  <2>1. /\ new = Roles /\ revived' = {} /\ \A r \in Roles : row'[r] = w
    BY <1>3, <1>5, <1>9
  <2>2. w # None
    BY <1>2 DEF Worlds, None
  <2>3. Present' = Roles /\ Seeded' = Roles
    BY <2>1, <2>2 DEF Present, Seeded
  <2>4. AllOrNone'
    BY <1>2, <2>1, <2>3 DEF AllOrNone, Full
  <2>5. WipesWhole'
    <3> SUFFICES ASSUME NEW d \in Runners, NEW x \in Worlds,
                        call'[d].step = "delete", Full(x)'
                 PROVE  \A r \in Roles : call'[d].seen[r] # x
      BY DEF WipesWhole
    <3>1. x = w
      BY <2>1 DEF Full, Roles
    <3> QED
      BY <1>2, <1>6, <3>1 DEF Unused
  <2> QED
    BY <1>7, <2>1, <2>4, <2>5 DEF DemoInv
<1> QED
  BY <1>8, <1>9

\* The visitors, and the day.
LEMMA VisitInv ==
  ASSUME DemoInv,
         \/ Day
         \/ \E v \in Visitors : Leave(v) \/ \E role \in Roles : Enter(v, role)
  PROVE  DemoInv'
<1>1. DemoTypeOK
  BY DEF DemoInv
<1>2. UNCHANGED <<row, call, revived, faults>>
  BY DEF Day, Leave, Enter
<1>3. page' \in [Visitors -> [role : Roles, world : Worlds] \cup {NoPage}]
  <2>1. CASE Day
    BY <1>1, <2>1 DEF Day, DemoTypeOK
  <2>2. ASSUME NEW v \in Visitors, Leave(v)
        PROVE  page' \in [Visitors -> [role : Roles, world : Worlds] \cup {NoPage}]
    BY <1>1, <2>2 DEF Leave, DemoTypeOK
  <2>3. ASSUME NEW v \in Visitors, NEW role \in Roles, Enter(v, role)
        PROVE  page' \in [Visitors -> [role : Roles, world : Worlds] \cup {NoPage}]
    <3>1. PICK r \in Matching(role) : page' = [page EXCEPT ![v] = [role |-> r, world |-> row[r]]]
      BY <2>3 DEF Enter
    <3>2. r \in Roles /\ r \in Present
      BY <3>1 DEF Matching, Present, Grouped, Roles
    <3>3. row[r] \in Worlds
      BY <1>1, <3>2 DEF Present, DemoTypeOK
    <3> QED
      BY <1>1, <3>1, <3>2, <3>3 DEF DemoTypeOK
  <2> QED
    BY <2>1, <2>2, <2>3
<1>4. young' \subseteq Worlds
  BY <1>1 DEF Day, Leave, Enter, DemoTypeOK
<1> QED
  BY <1>1, <1>2, <1>3, <1>4, RowsStay DEF DemoTypeOK

\* A form puts an account back only where there is none, and so only when no
\* account is there as it was seeded.
LEMMA SaveInv ==
  ASSUME DemoInv, NEW v \in Visitors, SaveProfile(v)
  PROVE  DemoInv'
<1> DEFINE r == page[v].role
<1>1. DemoTypeOK /\ r \in Roles /\ page[v].world \in Worlds
  BY DEF DemoInv, DemoTypeOK, SaveProfile
<1>2. page' = [page EXCEPT ![v] = NoPage] /\ UNCHANGED <<young, call>>
  BY DEF SaveProfile
<1>3. page' \in [Visitors -> [role : Roles, world : Worlds] \cup {NoPage}]
  BY <1>1, <1>2 DEF DemoTypeOK
<1>4. CASE UNCHANGED <<row, revived, faults>>
  BY <1>1, <1>2, <1>3, <1>4, RowsStay DEF DemoTypeOK
<1>5. CASE /\ row[r] = None
           /\ Fault
           /\ row' = [row EXCEPT ![r] = page[v].world]
           /\ revived' = revived \cup {r}
  <2>1. DemoTypeOK'
    BY <1>1, <1>2, <1>3, <1>5, DemoAssumption DEF DemoTypeOK, Fault
  <2>2. Seeded = {}
    <3>1. r \notin Present
      BY <1>5 DEF Present
    <3>2. Seeded # Roles
      BY <1>1, <3>1 DEF Seeded
    <3> QED
      BY <3>2 DEF DemoInv, AllOrNone, Full
  <2>3. Present' \subseteq Present \cup {r} /\ Present \subseteq Present'
    BY <1>1, <1>5 DEF Present, DemoTypeOK
  <2>4. Seeded' = {}
    BY <1>5, <2>2, <2>3 DEF Seeded
  <2>5. row'[r] # None
    BY <1>1, <1>5 DEF DemoTypeOK, Worlds, None
  <2>6. revived' \subseteq Present'
    BY <1>1, <1>5, <2>3, <2>5 DEF DemoInv, Present
  <2> QED
    BY <2>1, <2>4, <2>6 DEF DemoInv, AllOrNone, WipesWhole, Full, Roles
<1> QED
  BY <1>4, <1>5 DEF SaveProfile

LEMMA NextDemo == DemoInv /\ [Next]_dvars => DemoInv'
<1> SUFFICES ASSUME DemoInv, [Next]_dvars PROVE DemoInv'
  OBVIOUS
<1>1. CASE UNCHANGED dvars
  BY <1>1 DEF dvars, DemoInv, DemoTypeOK, AllOrNone, WipesWhole, Full, Seeded, Present
<1>2. CASE Next
  BY <1>2, CallInv, CollectInv, DeleteInv, SeedInv, VisitInv, SaveInv
  DEF Next, Run, GoOn, Runners
<1> QED
  BY <1>1, <1>2

-----------------------------------------------------------------------------

\* Worlds are seeded and wiped as wholes by any number of calls and commands,
\* with any number of failures (apps/core/demo.py).
THEOREM DemoHolds == Spec => []DemoInv
<1> QED
  BY InitDemo, NextDemo, PTL DEF Spec

\* Every variable of the demonstration keeps its type.
THEOREM DemoTyped == Spec => []DemoTypeOK
BY DemoHolds, PTL DEF DemoInv

\* Every button leads to an account of one world, or there is no account but
\* those that a form has put back.
THEOREM WorldsAreWhole == Spec => []NeverInPart
<1>1. DemoInv => NeverInPart
  <2> SUFFICES ASSUME DemoInv PROVE NeverInPart
    OBVIOUS
  <2>1. CASE Seeded = {}
    BY <2>1 DEF Seeded, NeverInPart
  <2>2. ASSUME NEW w \in Worlds, Full(w) PROVE NeverInPart
    <3>1. Present = Roles /\ "moderator" \in Seeded
      BY <2>2 DEF Full, Seeded, Present, Roles
    <3> QED
      BY <2>2, <3>1 DEF NeverInPart, Whole, Grouped, Full, Seeded
  <2> QED
    BY <2>1, <2>2 DEF DemoInv, AllOrNone
<1> QED
  BY <1>1, DemoHolds, PTL

-----------------------------------------------------------------------------
(* The contract of WholeWorlds: a step is one of its steps or leaves the    *)
(* accounts as they are.                                                   *)

\* What the invariant says of the accounts between two worlds, and within one.
LEMMA BetweenOrWithin ==
  ASSUME DemoInv
  PROVE  \/ \A s \in Roles \ revived : row[s] = None
         \/ revived = {} /\ \E w \in Worlds : \A r \in Roles : row[r] = w
<1>1. revived \subseteq Present /\ AllOrNone
  BY DEF DemoInv
<1>2. CASE Seeded = {}
  BY <1>2 DEF Seeded, Present
<1>3. CASE \E w \in Worlds : Full(w)
  BY <1>1, <1>3 DEF Full, Seeded, Present
<1> QED
  BY <1>1, <1>2, <1>3 DEF AllOrNone

\* delete() takes the whole world, or only accounts that were put back.
LEMMA DeleteKeeps ==
  ASSUME DemoInv, NEW c \in Runners, WipeDelete(c)
  PROVE  Contract!Next \/ UNCHANGED <<row, revived>>
<1> DEFINE gone == {r \in Roles : row[r] = call[c].seen[r]}
<1>1. DemoTypeOK /\ revived \subseteq Present
  BY DEF DemoInv
<1>2. /\ call[c].step = "delete"
      /\ row' = [r \in Roles |-> IF r \in gone THEN None ELSE row[r]]
      /\ revived' = revived \ gone
  BY DEF WipeDelete
<1>3. CASE \A s \in Roles \ revived : row[s] = None
  <2> DEFINE swept == gone \cap revived
  <2>1. row' = [r \in Roles |-> IF r \in swept THEN None ELSE row[r]]
    BY <1>2, <1>3
  <2>2. revived' = revived \ swept
    BY <1>2
  <2>3. Contract!Sweep(swept)
    BY <2>1, <2>2 DEF Contract!Sweep
  <2> QED
    BY <2>3 DEF Contract!Next
<1>4. ASSUME revived = {}, NEW w \in Worlds, \A r \in Roles : row[r] = w
      PROVE  Contract!Next \/ UNCHANGED <<row, revived>>
  <2>1. Full(w)
    BY <1>4 DEF Full, Seeded, Present, Worlds, None
  <2>2. gone = Roles \/ gone = {}
    BY <1>2, <1>4, <2>1 DEF DemoInv, WipesWhole
  <2>3. CASE gone = Roles
    <3>1. row' = [r \in Roles |-> None]
      BY <1>2, <2>3
    <3>2. revived' = revived
      BY <1>2, <1>4
    <3>3. Contract!Wipe(w)
      BY <1>4, <3>1, <3>2 DEF Contract!Wipe
    <3> QED
      BY <3>3 DEF Contract!Next
  <2>4. CASE gone = {}
    BY <1>1, <1>2, <2>4 DEF DemoTypeOK
  <2> QED
    BY <2>2, <2>3, <2>4
<1> QED
  BY <1>3, <1>4, BetweenOrWithin

\* seed() inserts a world where there is no account, or nothing.
LEMMA SeedKeeps ==
  ASSUME DemoInv, NEW c \in Runners, Seed(c)
  PROVE  Contract!Next \/ UNCHANGED <<row, revived>>
<1> DEFINE w == CHOOSE x \in Worlds : x \in Unused
           new == SeedAll(Roles \ Present)
<1>1. DemoTypeOK
  BY DEF DemoInv
<1>2. w \in Worlds
  BY DEF Seed, Unused
<1>3. /\ row' = [r \in Roles |-> IF r \in new THEN w ELSE row[r]]
      /\ UNCHANGED revived
  BY DEF Seed
<1> HIDE DEF w
<1>4. CASE new = {}
  BY <1>1, <1>3, <1>4 DEF DemoTypeOK
<1>5. CASE new # {}
  <2>1. new = Roles /\ \A r \in Roles : row[r] = None
    BY <1>5 DEF SeedAll, Present
  <2>2. row' = [r \in Roles |-> w]
    BY <1>3, <2>1
  <2>3. Contract!Seed(w)
    BY <1>3, <2>1, <2>2 DEF Contract!Seed
  <2> QED
    BY <1>2, <2>3 DEF Contract!Next
<1> QED
  BY <1>4, <1>5

\* A form inserts an account only between two worlds.
LEMMA SaveKeeps ==
  ASSUME DemoInv, NEW v \in Visitors, SaveProfile(v)
  PROVE  Contract!Next \/ UNCHANGED <<row, revived>>
<1> DEFINE r == page[v].role
           w == page[v].world
<1>1. r \in Roles /\ w \in Worlds
  BY DEF DemoInv, DemoTypeOK, SaveProfile
<1>2. CASE /\ row[r] = None
           /\ row' = [row EXCEPT ![r] = w]
           /\ revived' = revived \cup {r}
  <2>1. \A s \in Roles \ revived : row[s] = None
    BY <1>1, <1>2, BetweenOrWithin DEF Worlds, None
  <2>2. Contract!PutBack(r, w)
    BY <1>2, <2>1 DEF Contract!PutBack
  <2> QED
    BY <1>1, <2>2 DEF Contract!Next
<1> QED
  BY <1>2 DEF SaveProfile

\* However many calls and commands wipe and seed at the same time, and whatever
\* fails, a world comes with all its accounts and goes with all of them
\* (delete, seed and reset_daily of apps/core/demo.py).
THEOREM DemoKeepsWorlds == Spec => KeepsWorlds
<1>1. Init => Contract!Init
  BY DEF Init, Contract!Init
<1>2. DemoInv /\ [Next]_dvars => [Contract!Next]_(Contract!vars)
  <2> SUFFICES ASSUME DemoInv, [Next]_dvars
               PROVE  Contract!Next \/ UNCHANGED <<row, revived>>
    BY DEF Contract!vars
  <2>1. CASE UNCHANGED dvars
    BY <2>1 DEF dvars
  <2>2. CASE Next
    <3>1. ASSUME NEW c \in Runners, Decide(c) \/ Command(c) \/ Fail(c) \/ WipeCollect(c)
          PROVE  UNCHANGED <<row, revived>>
      BY <3>1 DEF Decide, Command, Fail, WipeCollect
    <3>2. ASSUME NEW v \in Visitors, Leave(v) \/ \E role \in Roles : Enter(v, role)
          PROVE  UNCHANGED <<row, revived>>
      BY <3>2 DEF Leave, Enter
    <3>3. CASE Day
      BY <3>3 DEF Day
    <3> QED
      BY <2>2, <3>1, <3>2, <3>3, DeleteKeeps, SeedKeeps, SaveKeeps
      DEF Next, Run, GoOn, Runners
  <2> QED
    BY <2>1, <2>2
<1> QED
  BY <1>1, <1>2, DemoHolds, PTL DEF Spec, KeepsWorlds, Contract!Spec
=============================================================================
