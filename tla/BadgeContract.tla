---------------------------- MODULE BadgeContract ----------------------------
(***************************************************************************)
(* What verification promises, whoever decides at the same time: a badge   *)
(* comes with a record that says why and goes with a revocation, a record  *)
(* that was ruled on is not ruled on again but by revoking an approval,    *)
(* and a partner's code gives no more badges than it was issued for.  The  *)
(* administrator is free to set a badge, a form may put back the badge it  *)
(* has seen, or its absence, and an account takes its records with it.     *)
(* Verification is shown to implement it.                                  *)
(***************************************************************************)
EXTENDS Naturals, FiniteSets

CONSTANTS
  Users,
  Numbers,  \* the records of a user are numbered
  Codes,
  MaxUses

VARIABLES
  badge,   \* the users who are verified
  ruling,  \* what became of each record
  spent,   \* the records each code has given
  pages    \* the pages open on a user, and what each may do to the badge

vars == <<badge, ruling, spent, pages>>

Records == Users \X Numbers
RecordsOf(u) == {u} \X Numbers
Waiting(u) == {r \in RecordsOf(u) : ruling[r] = "pending"}

Init ==
  /\ badge = {}
  /\ ruling = [r \in Records |-> "none"]
  /\ spent = [c \in Codes |-> {}]
  /\ pages = {}

Rule(rs, verdict) == ruling' = [r \in Records |-> IF r \in rs THEN verdict ELSE ruling[r]]
Badge(u, b) == badge' = IF b THEN badge \cup {u} ELSE badge \ {u}

-----------------------------------------------------------------------------
(* Pages are opened and left *)

Seen(u) == IF u \in badge THEN "with" ELSE "without"

Opens(u) ==
  /\ \E lets \in {Seen(u), "set"} : pages' \subseteq pages \cup {<<u, lets>>}
  /\ UNCHANGED <<badge, ruling, spent>>

\* Whoever has their own page open may ask to have the account deleted.
Leaves(u) ==
  /\ {<<u, "with">>, <<u, "without">>} \cap pages # {}
  /\ pages' \subseteq pages \cup {<<u, "leave">>}
  /\ UNCHANGED <<badge, ruling, spent>>

Left == pages' \subseteq pages /\ UNCHANGED <<badge, ruling, spent>>

-----------------------------------------------------------------------------
(* Rulings *)

Apply(u) ==
  /\ Waiting(u) = {}
  /\ \E r \in RecordsOf(u) : ruling[r] = "none" /\ Rule({r}, "pending")
  /\ UNCHANGED <<badge, spent>>

Approve(u) ==
  /\ \E r \in Waiting(u) : Rule({r}, "approved")
  /\ Badge(u, TRUE)
  /\ UNCHANGED spent

Reject(u) ==
  /\ \E r \in Waiting(u) : Rule({r}, "rejected")
  /\ UNCHANGED <<badge, spent>>

\* A code gives a record of its own, to somebody seen without the badge, and
\* settles an application that waits.
Redeem(u, c) ==
  /\ <<u, "without">> \in pages
  /\ Cardinality(spent[c]) < MaxUses
  /\ \E r \in RecordsOf(u) :
       /\ ruling[r] = "none"
       /\ Rule({r} \cup Waiting(u), "approved")
       /\ spent' = [spent EXCEPT ![c] = @ \cup {r}]
  /\ Badge(u, TRUE)

\* Of a user without an approval, or whose approval is being revoked already,
\* the revocation leaves a record, or none, of its own.
Revoke(u) ==
  /\ \E r \in RecordsOf(u) :
       ruling[r] \in {"approved", "none", "revoked"} /\ Rule({r}, "revoked")
  /\ Badge(u, FALSE)
  /\ UNCHANGED spent

\* The administrator's page sets the badge, the user's own puts back what it saw.
Put(u, b) ==
  /\ {<<u, "set">>, <<u, IF b THEN "with" ELSE "without">>} \cap pages # {}
  /\ Badge(u, b)
  /\ UNCHANGED <<ruling, spent>>

Erase(u) ==
  /\ <<u, "leave">> \in pages
  /\ \E rs \in SUBSET {r \in RecordsOf(u) : ruling[r] # "none"} : Rule(rs, "erased")
  /\ Badge(u, FALSE)
  /\ UNCHANGED spent

Next ==
  \/ Left
  \/ \E u \in Users :
       \/ Opens(u) \/ Leaves(u)
       \/ /\ pages' \subseteq pages
          /\ \/ Apply(u) \/ Approve(u) \/ Reject(u) \/ Revoke(u) \/ Erase(u)
             \/ \E c \in Codes : Redeem(u, c)
             \/ \E b \in BOOLEAN : Put(u, b)

Spec == Init /\ [][Next]_vars
=============================================================================
