---------------------------- MODULE Verification ----------------------------
(***************************************************************************)
(* How people become verified (L2) and cease to be: applications decided by *)
(* moderators, the organizations' invite codes and revocation               *)
(* (apps/moderation/services.py); the administrator, who sets the badge     *)
(* itself (accounts/admin.py); the account forms, which save the user as    *)
(* the page loaded it (accounts/views.py); and the deletion of an account,  *)
(* which erases its applications (accounts/deletion.py).                    *)
(*                                                                         *)
(* Each web request runs in a worker and works with the user it loaded at   *)
(* its start.  Deciding an application and redeeming a code lock their row, *)
(* so each is one action; applying, revoking, saving and deleting lock      *)
(* nothing that the others do not wait for, and are taken apart.            *)
(*                                                                         *)
(* Everybody here has confirmed their email.  What revoking does to the     *)
(* volunteer's open requests is in Departures.  Applications and codes      *)
(* rewritten by hand in the admin's generated forms are left out.           *)
(***************************************************************************)
EXTENDS Integers, Sequences, FiniteSets

CONSTANTS
  Users,
  Codes,         \* invite codes of the partner organizations
  Workers,       \* web workers
  MaxUses,       \* InviteCode.max_uses
  ReapplyAfter,  \* REAPPLY_AFTER (7 days)
  MaxRecords     \* bound of the model: VerificationRequest rows a user ever has

ASSUME VerificationAssumption ==
  /\ IsFiniteSet(Users) /\ IsFiniteSet(Codes) /\ IsFiniteSet(Workers)
  /\ Codes \cap {"form", "direct"} = {}
  /\ MaxUses \in Nat /\ ReapplyAfter \in Nat /\ MaxRecords \in Nat

VARIABLES
  verified,  \* User.is_verified
  records,   \* the users' VerificationRequest rows, oldest first
  uses,      \* InviteCode.uses_count
  valid,     \* the code is active and has not expired
  closed,    \* the deleted accounts (is_active is off)
  beside,    \* history: whose badge came by no decision, and whom none confirmed since
  since,     \* history: the uses of codes a user has spent since they last had no badge
  work       \* the request in each worker

vars == <<verified, records, uses, valid, closed, beside, since, work>>

VStatuses == {"pending", "approved", "rejected", "revoked"}

\* "via" is what created the row, "age" the time since reviewed_at; a row that
\* was deleted leaves its place
Record == [status : VStatuses \cup {"erased"}, via : {"form", "direct"} \cup Codes,
           age : 0 .. ReapplyAfter]
Histories == UNION {[1 .. n -> Record] : n \in 0 .. MaxRecords}

Idle == [step |-> "idle"]
Work ==
  {Idle}
    \cup [step : {"loaded"}, user : Users, verified : BOOLEAN]
    \cup [step : {"apply", "revoke", "admin"}, user : Users]
    \cup [step : {"revoking"}, user : Users, latest : 0 .. MaxRecords]
    \cup [step : {"deleting"}, user : Users, rows : 0 .. MaxRecords]

TypeOK ==
  /\ verified \in [Users -> BOOLEAN]
  /\ records \in [Users -> Histories]
  /\ uses \in [Codes -> Nat]
  /\ valid \in [Codes -> BOOLEAN]
  /\ closed \subseteq Users /\ beside \subseteq Users
  /\ since \in [Users -> Nat]
  /\ work \in [Workers -> Work]

-----------------------------------------------------------------------------
(* Helpers *)

At(w, s) == work[w].step = s
Set(w, r) == work' = [work EXCEPT ![w] = r]

Having(u, s) == {i \in DOMAIN records[u] : records[u][i].status = s}
Room(u) == Len(records[u]) < MaxRecords
New(status, via) == [status |-> status, via |-> via, age |-> 0]
Add(u, r) == records' = [records EXCEPT ![u] = Append(@, r)]
Decide(r, status) == [status |-> status, via |-> r.via, age |-> 0]

Rows(u) == DOMAIN records[u] \ Having(u, "erased")
Latest(is, i) == i \in is /\ \A j \in is : j <= i

\* the part of application_error that reads the user's records
MayApply(u) ==
  \A i \in Rows(u) : Latest(Rows(u), i) =>
    /\ records[u][i].status # "pending"
    /\ records[u][i].status \in {"rejected", "revoked"} => records[u][i].age >= ReapplyAfter

\* A badge given beside the decisions or by one, or taken; the histories follow.
SetBadge(u, b) == verified' = [verified EXCEPT ![u] = b]
Taken(u) ==
  /\ SetBadge(u, FALSE)
  /\ beside' = beside \ {u}
  /\ since' = [since EXCEPT ![u] = 0]
Decided(u) == SetBadge(u, TRUE) /\ beside' = beside \ {u}
PutBeside(u, b) ==
  \/ ~b /\ Taken(u)
  \/ /\ b
     /\ SetBadge(u, TRUE)
     /\ beside' = IF verified[u] THEN beside ELSE beside \cup {u}
     /\ UNCHANGED since

\* is_usable with <= for <
UsableOnceMore(c) == valid[c] /\ uses[c] <= MaxUses
Usable(c) == valid[c] /\ uses[c] < MaxUses

-----------------------------------------------------------------------------
(* The user's requests *)

\* the session loads request.user, if the account is active
Load(w) ==
  /\ At(w, "idle")
  /\ \E u \in Users \ closed :
       Set(w, [step |-> "loaded", user |-> u, verified |-> verified[u]])
  /\ UNCHANGED <<verified, records, uses, valid, closed, beside, since>>

\* application_error finds nothing
ApplyCheck(w) ==
  /\ At(w, "loaded")
  /\ ~work[w].verified
  /\ MayApply(work[w].user)
  /\ Set(w, [step |-> "apply", user |-> work[w].user])
  /\ UNCHANGED <<verified, records, uses, valid, closed, beside, since>>

\* create, or the IntegrityError of one_pending_verification_per_user
ApplyCreate(w) ==
  LET u == work[w].user
  IN /\ At(w, "apply")
     /\ \/ Having(u, "pending") = {} /\ Room(u) /\ Add(u, New("pending", "form"))
        \/ Having(u, "pending") # {} /\ UNCHANGED records
     /\ Set(w, Idle)
     /\ UNCHANGED <<verified, uses, valid, closed, beside, since>>

\* a pending application is approved with the code's own record
Grant(u, c) ==
  LET approved(r) == IF r.status = "pending" THEN Decide(r, "approved") ELSE r
  IN records' = [records EXCEPT ![u] =
       Append([i \in DOMAIN @ |-> approved(@[i])], New("approved", c))]

\* redeem_invite under the code's lock
Redeem(w, c) ==
  LET u == work[w].user
  IN /\ At(w, "loaded")
     /\ ~work[w].verified
     /\ Usable(c)
     /\ Room(u)
     /\ uses' = [uses EXCEPT ![c] = @ + 1]
     /\ Grant(u, c)
     /\ Decided(u)
     /\ since' = [since EXCEPT ![u] = @ + 1]
     /\ Set(w, Idle)
     /\ UNCHANGED <<valid, closed>>

\* the profile or the password form saves every field of the user it loaded:
\* the badge, and is_active
SaveProfile(w) ==
  LET u == work[w].user
  IN /\ At(w, "loaded")
     /\ PutBeside(u, work[w].verified)
     /\ closed' = closed \ {u}
     /\ Set(w, Idle)
     /\ UNCHANGED <<records, uses, valid>>

\* delete_account deletes the rows there are, in its transaction: whoever has
\* to wait for them comes before this step or after the next
DeleteErase(w) ==
  LET u == work[w].user
  IN /\ At(w, "loaded")
     /\ Set(w, [step |-> "deleting", user |-> u, rows |-> Len(records[u])])
     /\ UNCHANGED <<verified, records, uses, valid, closed, beside, since>>

\* and saves the user, without the badge
DeleteCommit(w) ==
  LET u == work[w].user
      erased(i, r) == IF i <= work[w].rows THEN Decide(r, "erased") ELSE r
  IN /\ At(w, "deleting")
     /\ records' = [records EXCEPT ![u] = [i \in DOMAIN @ |-> erased(i, @[i])]]
     /\ Taken(u)
     /\ closed' = closed \cup {u}
     /\ Set(w, Idle)
     /\ UNCHANGED <<uses, valid>>

\* the request ends without an effect: refused, failed or killed
GiveUp(w) ==
  /\ ~At(w, "idle")
  /\ Set(w, Idle)
  /\ UNCHANGED <<verified, records, uses, valid, closed, beside, since>>

-----------------------------------------------------------------------------
(* The moderators' and the administrator's requests *)

\* deciding from the application as the page listed it
ApproveStale(u) ==
  \E i \in Having(u, "pending") \cup Having(u, "rejected") :
    /\ records' = [records EXCEPT ![u][i] = Decide(@, "approved")]
    /\ Decided(u)
    /\ UNCHANGED <<uses, valid, closed, since, work>>

\* approve_verification locks the application and looks again
Approve(u) ==
  \E i \in Having(u, "pending") :
    /\ records' = [records EXCEPT ![u][i] = Decide(@, "approved")]
    /\ Decided(u)
    /\ UNCHANGED <<uses, valid, closed, since, work>>

\* reject_verification likewise
Reject(u) ==
  \E i \in Having(u, "pending") :
    /\ records' = [records EXCEPT ![u][i] = Decide(@, "rejected")]
    /\ UNCHANGED <<verified, uses, valid, closed, beside, since, work>>

\* revoke_verification: the user is loaded and is verified
RevokeCheck(w) ==
  /\ At(w, "idle")
  /\ \E u \in Users : verified[u] /\ Set(w, [step |-> "revoke", user |-> u])
  /\ UNCHANGED <<verified, records, uses, valid, closed, beside, since>>

\* the transaction reads the latest approved record, without a lock
RevokeRead(w) ==
  LET u == work[w].user
  IN /\ At(w, "revoke")
     /\ \E i \in 0 .. Len(records[u]) :
          /\ \/ i = 0 /\ Having(u, "approved") = {}
             \/ Latest(Having(u, "approved"), i)
          /\ Set(w, [step |-> "revoking", user |-> u, latest |-> i])
     /\ UNCHANGED <<verified, records, uses, valid, closed, beside, since>>

\* The record it has read is saved, or a new one, which is also what saving a
\* record deleted meanwhile makes.
Revoked(u, i) ==
  \/ i # 0 /\ i \in Rows(u) /\ records' = [records EXCEPT ![u][i] = Decide(@, "revoked")]
  \/ i \notin Rows(u) /\ Room(u) /\ Add(u, New("revoked", "direct"))

\* the badge is left to the administrator
RevokeRecord(w) ==
  /\ At(w, "revoking")
  /\ Revoked(work[w].user, work[w].latest)
  /\ Set(w, Idle)
  /\ UNCHANGED <<verified, uses, valid, closed, beside, since>>

\* and with it the user
RevokeCommit(w) ==
  /\ At(w, "revoking")
  /\ Revoked(work[w].user, work[w].latest)
  /\ Taken(work[w].user)
  /\ Set(w, Idle)
  /\ UNCHANGED <<uses, valid, closed>>

\* the administrator has the list of the users, or one of them, open
AdminOpen(w) ==
  /\ At(w, "idle")
  /\ \E u \in Users : Set(w, [step |-> "admin", user |-> u])
  /\ UNCHANGED <<verified, records, uses, valid, closed, beside, since>>

\* and marks the user with verify_users, or sets the field of the form
AdminSets(w, b) ==
  /\ At(w, "admin")
  /\ PutBeside(work[w].user, b)
  /\ Set(w, Idle)
  /\ UNCHANGED <<records, uses, valid, closed>>

\* deactivate_code, or its expires_at
Invalidate(c) ==
  /\ valid[c]
  /\ valid' = [valid EXCEPT ![c] = FALSE]
  /\ UNCHANGED <<verified, records, uses, closed, beside, since, work>>

\* nothing asks how long ago another decision was
Older(r) ==
  IF r.status \in {"rejected", "revoked"} /\ r.age < ReapplyAfter
  THEN [r EXCEPT !.age = @ + 1] ELSE r

Tick ==
  /\ records' = [u \in Users |-> [i \in DOMAIN records[u] |-> Older(records[u][i])]]
  /\ UNCHANGED <<verified, uses, valid, closed, beside, since, work>>

-----------------------------------------------------------------------------

Init ==
  /\ verified = [u \in Users |-> FALSE]
  /\ records = [u \in Users |-> <<>>]
  /\ uses = [c \in Codes |-> 0]
  /\ valid = [c \in Codes |-> TRUE]
  /\ closed = {} /\ beside = {}
  /\ since = [u \in Users |-> 0]
  /\ work = [w \in Workers |-> Idle]

UserStep(w) ==
  \/ Load(w) \/ ApplyCheck(w) \/ ApplyCreate(w) \/ \E c \in Codes : Redeem(w, c)
  \/ SaveProfile(w) \/ DeleteErase(w) \/ DeleteCommit(w)

RevokeStep(w) == RevokeCheck(w) \/ RevokeRead(w) \/ RevokeCommit(w)

AdminStep(w) == AdminOpen(w) \/ \E b \in BOOLEAN : AdminSets(w, b)

Decision(u) == Approve(u) \/ Reject(u)

Next ==
  \/ \E w \in Workers : UserStep(w) \/ RevokeStep(w) \/ AdminStep(w) \/ GiveUp(w)
  \/ \E u \in Users : Decision(u)
  \/ \E c \in Codes : Invalidate(c)
  \/ Tick

Spec == Init /\ [][Next]_vars

-----------------------------------------------------------------------------
(* Safety *)

\* A code verifies at most max_uses times however its uses coincide; each use
\* it has counted gave a record of its own, which only the deletion of the
\* account takes away; and redeem_invite, which looks at the user it has
\* loaded and not again under the lock, lets one user spend no more uses
\* between two times without the badge than there are requests at once.
RedeemedWith(u, c) == {i \in DOMAIN records[u] : records[u][i].via = c}
Redemptions(c) == {r \in Users \X (1 .. MaxRecords) : r[2] \in RedeemedWith(r[1], c)}

CodesAccounted ==
  /\ \A c \in Codes : uses[c] <= MaxUses /\ uses[c] = Cardinality(Redemptions(c))
  /\ \A u \in Users : since[u] <= Cardinality(Workers)

\* Whoever is verified has an approved record to revoke, whichever moderators
\* revoke, codes verify and accounts go at the same time; but for those whose
\* badge the administrator set, or an account form put back after it was gone,
\* as long as no decision or code gave it to them again.
VerifiedHasApproved ==
  \A u \in Users : verified[u] => Having(u, "approved") # {} \/ u \in beside

-----------------------------------------------------------------------------
(* Refinement of BadgeContract *)

Ruling(u, i) == IF i \in DOMAIN records[u] THEN records[u][i].status ELSE "none"

\* what a page may do to the badge of its user
PageOf(r) ==
  <<r.user, CASE r.step = "loaded" -> IF r.verified THEN "with" ELSE "without"
              [] r.step = "admin" -> "set"
              [] r.step = "deleting" -> "leave">>

Open == {w \in Workers : work[w].step \in {"loaded", "admin", "deleting"}}
Pages == {PageOf(work[w]) : w \in Open}

Contract == INSTANCE BadgeContract
              WITH Numbers <- 1 .. MaxRecords,
                   badge <- {u \in Users : verified[u]},
                   ruling <- [r \in Users \X (1 .. MaxRecords) |-> Ruling(r[1], r[2])],
                   spent <- [c \in Codes |-> Redemptions(c)],
                   pages <- Pages

\* However moderators, applicants, codes, account forms and deletions
\* interleave, and wherever a request dies, every step is a whole ruling or
\* none.  Records go only with their account, and one that was ruled on
\* changes otherwise only from approved to revoked.  A badge is given with a
\* record approved in the same step, by a code with uses left and to somebody
\* seen without; by the administrator; or by a form that saw it.  It is taken
\* with a record that says so, with its account, by the administrator, or by a
\* form that did not see it.
KeepsBadges == Contract!Spec
=============================================================================
