-------------------------------- MODULE Demo --------------------------------
(***************************************************************************)
(* The public demonstration (apps/core/demo.py, demo_login): the last job  *)
(* of every cron call replaces the demo world once a day.  The decision,   *)
(* the deletion and the seeding are separate transactions, calls overlap,  *)
(* and visitors go on using the accounts that are being replaced.          *)
(*                                                                         *)
(* A world is one seeding: its three one-click accounts stand for all that *)
(* seed() inserts in its transaction.  What the requests in it go through  *)
(* afterwards is in Lifecycle and the other modules.                       *)
(***************************************************************************)
EXTENDS Naturals, FiniteSets

CONSTANTS
  Calls,      \* cron calls
  Commands,   \* runs of the seed_demo command
  Visitors,   \* browsers that were logged in by one of the buttons
  MaxWorlds,  \* names for the worlds that exist or are remembered at once
  MaxFaults   \* calls killed, deletions refused, accounts written back

ASSUME DemoAssumption ==
  MaxWorlds \in Nat \ {0} /\ MaxFaults \in Nat /\ Calls \cap Commands = {}

VARIABLES
  row,      \* the world each demo account was seeded with, None without its row
  young,    \* the worlds seeded less than RESET_EVERY ago
  call,     \* how far each call or command is
  page,     \* the account a visitor's profile form was loaded with
  revived,  \* the accounts whose row a profile form has put back
  faults

dvars == <<row, young, call, page, revived, faults>>

Roles == {"volunteer", "recipient", "moderator"}
Worlds == 1..MaxWorlds
None == 0

Runners == Calls \cup Commands
Idle == [step |-> "idle", seen |-> [r \in Roles |-> None]]
NoPage == [role |-> "volunteer", world |-> None]

DemoTypeOK ==
  /\ row \in [Roles -> Worlds \cup {None}]
  /\ young \subseteq Worlds
  /\ call \in [Runners -> [step : {"idle", "collect", "delete", "seed"},
                         seen : [Roles -> Worlds \cup {None}]]]
  /\ page \in [Visitors -> [role : Roles, world : Worlds] \cup {NoPage}]
  /\ revived \subseteq Roles
  /\ faults \in 0..MaxFaults

Present == {r \in Roles : row[r] # None}
\* whether the moderator's account is in the group: the row alone is put back
Grouped == "moderator" \in Present \ revived
Whole == Present = Roles /\ Grouped /\ \A r, s \in Roles : row[r] = row[s]
Fresh == Present # {} /\ \A r \in Present : row[r] \in young

\* worlds nobody holds a primary key of
Unused ==
  {w \in Worlds :
     /\ \A r \in Roles : row[r] # w
     /\ \A c \in Runners, r \in Roles : call[c].seen[r] # w
     /\ \A v \in Visitors : page[v].world # w}

Init ==
  /\ row = [r \in Roles |-> None]
  /\ young = {}
  /\ call = [c \in Runners |-> Idle]
  /\ page = [v \in Visitors |-> NoPage]
  /\ revived = {}
  /\ faults = 0

Goto(c, s) == call' = [call EXCEPT ![c] = s]
Fault == faults < MaxFaults /\ faults' = faults + 1

-----------------------------------------------------------------------------
(* reset_daily, and the seed_demo command *)

\* the oldest demo account decides
ResetDueOnlyEmpty == Present = {}
ResetDue == ~Fresh

Decide(c) ==
  /\ call[c].step = "idle"
  /\ ResetDue
  /\ Goto(c, [Idle EXCEPT !.step = "collect"])
  /\ UNCHANGED <<row, young, page, revived, faults>>

\* seed_demo looks at nothing, and wipes only with --reset
Command(c) ==
  /\ call[c].step = "idle"
  /\ \E s \in {"collect", "seed"} : Goto(c, [Idle EXCEPT !.step = s])
  /\ UNCHANGED <<row, young, page, revived, faults>>

\* delete() reads the rows and all that hangs on them before its transaction
WipeCollect(c) ==
  /\ call[c].step = "collect"
  /\ Goto(c, [step |-> "delete", seen |-> row])
  /\ UNCHANGED <<row, young, page, revived, faults>>

WipeDelete(c) ==
  LET gone == {r \in Roles : row[r] = call[c].seen[r]}
  IN /\ call[c].step = "delete"
     /\ row' = [r \in Roles |-> IF r \in gone THEN None ELSE row[r]]
     /\ revived' = revived \ gone
     /\ Goto(c, [Idle EXCEPT !.step = "seed"])
     /\ UNCHANGED <<young, page, faults>>

\* one transaction; a username that is taken undoes all of it
SeedWhatIsFree(free) == free
SeedAll(free) == IF free = Roles THEN Roles ELSE {}

Seed(c) ==
  LET w == CHOOSE x \in Worlds : x \in Unused
      new == SeedAll(Roles \ Present)
  IN /\ call[c].step = "seed"
     /\ Unused # {}  \* bound of the model
     /\ row' = [r \in Roles |-> IF r \in new THEN w ELSE row[r]]
     /\ young' = IF new # {} THEN (young \ Unused) \cup {w} ELSE young
     /\ Goto(c, Idle)
     /\ UNCHANGED <<page, revived, faults>>

\* the call is killed, or a row that a visitor added since delete() read makes
\* the database refuse the deletion; run_periodic_tasks goes on without the job
Fail(c) ==
  /\ call[c].step # "idle"
  /\ Fault
  /\ Goto(c, Idle)
  /\ UNCHANGED <<row, young, page, revived>>

GoOn(c) == WipeCollect(c) \/ WipeDelete(c) \/ Seed(c)
Run(c) == Decide(c) \/ GoOn(c)

\* RESET_EVERY has passed for every world there is
Day ==
  /\ young # {}
  /\ young' = {}
  /\ UNCHANGED <<row, call, page, revived, faults>>

-----------------------------------------------------------------------------
(* Visitors *)

\* demo_login: a volunteer who is not a moderator, the recipient, or a member
\* of the group
Matching(role) ==
  CASE role = "moderator" -> IF Grouped THEN {"moderator"} ELSE {}
    [] role = "recipient" -> Present \cap {"recipient"}
    [] role = "volunteer" ->
         Present \cap {r \in Roles : r = "volunteer" \/ (r = "moderator" /\ ~Grouped)}

\* and the page that holds the account's row while the visitor's form is saved
Enter(v, role) ==
  /\ page[v] = NoPage
  /\ \E r \in Matching(role) : page' = [page EXCEPT ![v] = [role |-> r, world |-> row[r]]]
  /\ UNCHANGED <<row, young, call, revived, faults>>

\* user.save() updates the row by its key and inserts it when there is none;
\* a username that is taken refuses the insert
SaveProfile(v) ==
  LET r == page[v].role
  IN /\ page[v] # NoPage
     /\ page' = [page EXCEPT ![v] = NoPage]
     /\ \/ /\ row[r] = None
           /\ Fault
           /\ row' = [row EXCEPT ![r] = page[v].world]
           /\ revived' = revived \cup {r}
        \/ row[r] # None /\ UNCHANGED <<row, revived, faults>>
     /\ UNCHANGED <<young, call>>

Leave(v) ==
  /\ page[v] # NoPage
  /\ page' = [page EXCEPT ![v] = NoPage]
  /\ UNCHANGED <<row, young, call, revived, faults>>

-----------------------------------------------------------------------------

Next ==
  \/ \E c \in Calls : Run(c)
  \/ \E c \in Commands : Command(c) \/ GoOn(c)
  \/ \E c \in Runners : Fail(c)
  \/ \E v \in Visitors : SaveProfile(v) \/ Leave(v) \/ \E r \in Roles : Enter(v, r)
  \/ Day

Spec == Init /\ [][Next]_dvars

\* The cron comes every few minutes, each job runs to its end unless it fails,
\* and the day passes; nobody has to visit, or to start the command.
Fairness ==
  /\ WF_dvars(Day)
  /\ \A c \in Calls : WF_dvars(Run(c))
  /\ \A c \in Commands : WF_dvars(GoOn(c))
FairSpec == Spec /\ Fairness

-----------------------------------------------------------------------------
(* Properties *)

\* The world is never there in part, however wipes and seedings overlap and
\* fail: every button leads to the account of its role, all from one seeding, or
\* no account is left.  The exception is an account that a form saved between
\* the wipe and the seeding has put back: it keeps the next world from being
\* seeded, until reset_daily finds it old.
NeverInPart == Whole \/ Present \subseteq revived

\* So the demonstration keeps the contract of WholeWorlds: no wipe that read the
\* rows before another call's wipe and seeding takes a part of the new world, and
\* no seeding adds to what is there (delete, seed and reset_daily).
Contract == INSTANCE WholeWorlds WITH account <- row, back <- revived
KeepsWorlds == Contract!Spec

\* Whatever fails and however the calls overlap, there is again and again a
\* world that is whole and less than a day old.
DailyWorld == []<>(Whole /\ Fresh)
=============================================================================
