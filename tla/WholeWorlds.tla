----------------------------- MODULE WholeWorlds -----------------------------
(***************************************************************************)
(* What the demonstration promises: a world comes with all its accounts at *)
(* once, where there is no account left, and goes with all of them at      *)
(* once.  Between two worlds a form may put an account back; such an        *)
(* account goes by itself.  Demo is shown to implement it.                 *)
(***************************************************************************)
CONSTANTS
  Roles,   \* the accounts of a world
  Worlds,
  None

VARIABLES
  account,  \* the world each account belongs to, None without it
  back      \* the accounts a form has put back

vars == <<account, back>>

Init == account = [r \in Roles |-> None] /\ back = {}

Seed(w) ==
  /\ \A r \in Roles : account[r] = None
  /\ account' = [r \in Roles |-> w]
  /\ UNCHANGED back

Wipe(w) ==
  /\ back = {}
  /\ \A r \in Roles : account[r] = w
  /\ account' = [r \in Roles |-> None]
  /\ UNCHANGED back

\* Accounts that were put back go, whatever became of the others.
Sweep(rs) ==
  /\ rs \subseteq back
  /\ account' = [r \in Roles |-> IF r \in rs THEN None ELSE account[r]]
  /\ back' = back \ rs

\* Only where no account is there as it was seeded.
PutBack(r, w) ==
  /\ account[r] = None
  /\ \A s \in Roles \ back : account[s] = None
  /\ account' = [account EXCEPT ![r] = w]
  /\ back' = back \cup {r}

Next ==
  \/ \E w \in Worlds : Seed(w) \/ Wipe(w) \/ \E r \in Roles : PutBack(r, w)
  \/ \E rs \in SUBSET Roles : Sweep(rs)

Spec == Init /\ [][Next]_vars
=============================================================================
