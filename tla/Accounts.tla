------------------------------ MODULE Accounts ------------------------------
(***************************************************************************)
(* An account's address and its confirmation (apps/accounts), and the mail *)
(* of notify() that relies on it (apps/notifications/services.py).         *)
(*                                                                         *)
(* Nothing here locks the user's row.  A page works on the user loaded at  *)
(* its start: the profile form, Django's password form and the user form   *)
(* of the admin site write the whole row back, confirm() only              *)
(* email_verified_at.  So a page is a worker with a copy of the row, and   *)
(* each access to the database is an action.  A worker is a process with a *)
(* cache of its own (no CACHES in the settings, gunicorn --workers 2).     *)
(* What the same saves do to is_verified is in Verification, what they do  *)
(* to is_active in Departures.                                             *)
(***************************************************************************)
EXTENDS FiniteSets

CONSTANTS
  Users,
  Addresses,   \* email addresses as they are written
  Lower,       \* those without capitals: all that registration stores
  Box(_),      \* the mailbox of an address, whatever its capitals
  Workers,     \* web workers, each with one page at a time
  Gone         \* the address that deletion leaves, of each user its own

ASSUME AccountsAssumption == Lower \subseteq Addresses /\ Gone \notin Addresses \cup {""}

VARIABLES
  row,       \* email and email_verified_at of each user; NoRow before registration
  page,      \* what each worker is doing
  link,      \* confirmation links by user and address: none, sent or opened
  throttle,  \* email-confirm-sent of a user in a worker's cache: open, the address
             \* the link has gone to, or failed
  unseen     \* the addresses that came to count as confirmed unseen

avars == <<row, page, link, throttle, unseen>>

Held == Addresses \cup {Gone}
NoRow == [email |-> "", confirmed |-> FALSE]
Erased == [email |-> Gone, confirmed |-> FALSE]
Rows == [email : Held, confirmed : BOOLEAN]
Idle == [step |-> "idle"]
Linked == Users \X Held
Page ==
  {Idle}
    \cup [step : {"register", "mail", "said", "confirm", "notify"}, user : Users,
          email : Addresses]
    \cup [step : {"profile", "admin"}, user : Users, copy : Rows, email : Addresses]
    \cup [step : {"password"}, user : Users, copy : Rows]

AccountsTypeOK ==
  /\ row \in [Users -> Rows \cup {NoRow}]
  /\ link \in [Linked -> {"none", "sent", "opened"}]
  /\ throttle \in [Workers -> [Users -> {"open", "failed"} \cup Addresses]]
  /\ unseen \subseteq Linked
  /\ page \in [Workers -> Page]

\* who may still log in
Registered(u) == row[u].email \in Addresses
Goto(w, p) == page' = [page EXCEPT ![w] = p]
At(w, step) == page[w].step = step

\* unique=True of User.email, for the database and for the forms' own check
TakenBy(others, e) == \E u \in others : row[u].email = e
Free(u, e) == ~TakenBy(Users \ {u}, e)

Init ==
  /\ row = [u \in Users |-> NoRow]
  /\ page = [w \in Workers |-> Idle]
  /\ link = [l \in Linked |-> "none"]
  /\ throttle = [w \in Workers |-> [u \in Users |-> "open"]]
  /\ unseen = {}

-----------------------------------------------------------------------------
(* Registration *)

\* RegisterForm: the address is written small and looked up whatever its capitals
RegisterCheck(w, u, e) ==
  /\ At(w, "idle")
  /\ row[u] = NoRow
  /\ e \in Lower
  /\ \A v \in Users : row[v].email \in Addresses => Box(row[v].email) # Box(e)
  /\ Goto(w, [step |-> "register", user |-> u, email |-> e])
  /\ UNCHANGED <<row, link, throttle, unseen>>

\* the insert; an address taken meanwhile is an IntegrityError
RegisterSave(w) ==
  LET u == page[w].user
      e == page[w].email
  IN /\ At(w, "register")
     /\ \/ /\ row[u] = NoRow /\ Free(u, e)
           /\ row' = [row EXCEPT ![u] = [email |-> e, confirmed |-> FALSE]]
           /\ Goto(w, [step |-> "mail", user |-> u, email |-> e])
        \/ (row[u] # NoRow \/ ~Free(u, e)) /\ Goto(w, Idle) /\ UNCHANGED row
     /\ UNCHANGED <<link, throttle, unseen>>

-----------------------------------------------------------------------------
(* Confirmation links *)

\* What the three pages answer: that a link has gone to the address, whether
\* send_confirmation has mailed it or found itself throttled.  When the mail
\* fails it raises, and the page with it.
Answer(p) == [step |-> "said", user |-> p.user, email |-> p.email]
FailedSilently(p) == Answer(p)
Failed(p) == Idle

\* send_confirmation: cache.add, then the mail
SendConfirmation(w) ==
  LET u == page[w].user
      e == page[w].email
  IN /\ At(w, "mail")
     /\ \/ /\ throttle[w][u] # "open"
           /\ Goto(w, Answer(page[w]))
           /\ UNCHANGED <<link, throttle>>
        \/ /\ throttle[w][u] = "open"
           /\ throttle' = [throttle EXCEPT ![w][u] = e]
           /\ link' = [link EXCEPT ![<<u, e>>] = IF @ = "none" THEN "sent" ELSE @]
           /\ Goto(w, Answer(page[w]))
        \/ /\ throttle[w][u] = "open"
           /\ throttle' = [throttle EXCEPT ![w][u] = "failed"]
           /\ Goto(w, Failed(page[w]))
           /\ UNCHANGED link
     /\ UNCHANGED <<row, unseen>>

\* two minutes have passed, or the process has been started anew
Cooldown(w, u) ==
  /\ throttle[w][u] # "open"
  /\ throttle' = [throttle EXCEPT ![w][u] = "open"]
  /\ UNCHANGED <<row, page, link, unseen>>

Resend(w, u) ==
  /\ At(w, "idle")
  /\ Registered(u)
  /\ ~row[u].confirmed
  /\ Goto(w, [step |-> "mail", user |-> u, email |-> row[u].email])
  /\ UNCHANGED <<row, link, throttle, unseen>>

\* confirm: the signed token names the user and the address it was sent to
LookUpAnyAddress(u, e) == Registered(u)
LookUp(u, e) == row[u].email = e

OpenLink(w, u, e) ==
  /\ At(w, "idle")
  /\ link[<<u, e>>] # "none"
  /\ link' = [link EXCEPT ![<<u, e>>] = "opened"]
  /\ IF LookUp(u, e) /\ ~row[u].confirmed
     THEN Goto(w, [step |-> "confirm", user |-> u, email |-> row[u].email])
     ELSE UNCHANGED page
  /\ UNCHANGED <<row, throttle, unseen>>

\* save(update_fields=["email_verified_at"])
ConfirmSave(w) ==
  LET u == page[w].user
  IN /\ At(w, "confirm")
     /\ row' = [row EXCEPT ![u].confirmed = TRUE]
     /\ unseen' = IF row[u].email = page[w].email THEN unseen
                  ELSE unseen \cup {<<u, row[u].email>>}
     /\ Goto(w, Idle)
     /\ UNCHANGED <<link, throttle>>

-----------------------------------------------------------------------------
(* The pages that write the whole row *)

\* a form with the address e in it, which checks it against the other accounts
\* as it is written
FormLoad(w, u, e, step) ==
  /\ At(w, "idle")
  /\ Free(u, e)
  /\ Goto(w, [step |-> step, user |-> u, copy |-> row[u], email |-> e])
  /\ UNCHANGED <<row, link, throttle, unseen>>

ProfileLoad(w, u, e) == Registered(u) /\ FormLoad(w, u, e, "profile")
AdminLoad(w, u, e) == row[u] # NoRow /\ FormLoad(w, u, e, "admin")

ConfirmAnew(copy, e) == FALSE
StillConfirmed(copy, e) == copy.confirmed /\ e = copy.email

\* an address taken meanwhile is an IntegrityError
ProfileSave(w) ==
  LET u == page[w].user
      e == page[w].email
      copy == page[w].copy
  IN /\ At(w, "profile")
     /\ \/ /\ Free(u, e)
           /\ row' = [row EXCEPT ![u] = [email |-> e, confirmed |-> StillConfirmed(copy, e)]]
           /\ Goto(w, IF e = copy.email THEN Idle ELSE [step |-> "mail", user |-> u, email |-> e])
        \/ ~Free(u, e) /\ Goto(w, Idle) /\ UNCHANGED row
     /\ UNCHANGED <<link, throttle, unseen>>

\* UserAdmin, whose form has the address and not email_verified_at
AdminSave(w) ==
  LET u == page[w].user
      e == page[w].email
      copy == page[w].copy
  IN /\ At(w, "admin")
     /\ Goto(w, Idle)
     /\ \/ /\ Free(u, e)
           /\ row' = [row EXCEPT ![u] = [email |-> e, confirmed |-> copy.confirmed]]
           /\ unseen' = IF copy.confirmed /\ e # copy.email THEN unseen \cup {<<u, e>>}
                        ELSE unseen
        \/ ~Free(u, e) /\ UNCHANGED <<row, unseen>>
     /\ UNCHANGED <<link, throttle>>

\* Django's password forms: set_password and save of the user of the page
PasswordLoad(w, u) ==
  /\ At(w, "idle")
  /\ Registered(u)
  /\ Goto(w, [step |-> "password", user |-> u, copy |-> row[u]])
  /\ UNCHANGED <<row, link, throttle, unseen>>

PasswordSave(w) ==
  LET u == page[w].user
      copy == page[w].copy
  IN /\ At(w, "password")
     /\ Goto(w, Idle)
     /\ \/ Free(u, copy.email) /\ row' = [row EXCEPT ![u] = copy]
        \/ ~Free(u, copy.email) /\ UNCHANGED row
     /\ UNCHANGED <<link, throttle, unseen>>

\* delete_account writes the whole row as well, both of these fields anew
DeleteAccount(u) ==
  /\ Registered(u)
  /\ row' = [row EXCEPT ![u] = Erased]
  /\ UNCHANGED <<page, link, throttle, unseen>>

-----------------------------------------------------------------------------
(* notify *)

\* a step of the program tells the user of something; _wants_email asks the
\* object the step has loaded
WantsEmail(copy) == copy.confirmed

NotifyLoad(w, u) ==
  /\ At(w, "idle")
  /\ Registered(u)
  /\ WantsEmail(row[u])
  /\ Goto(w, [step |-> "notify", user |-> u, email |-> row[u].email])
  /\ UNCHANGED <<row, link, throttle, unseen>>

-----------------------------------------------------------------------------

\* The page is shown; the step commits and _send_email follows; or the worker is
\* stopped, the step rolled back, the provider down.  What is saved stays.
Finish(w) ==
  /\ ~At(w, "idle")
  /\ Goto(w, Idle)
  /\ UNCHANGED <<row, link, throttle, unseen>>

Next ==
  \/ \E w \in Workers :
       \/ RegisterSave(w) \/ SendConfirmation(w) \/ ConfirmSave(w)
       \/ ProfileSave(w) \/ AdminSave(w) \/ PasswordSave(w) \/ Finish(w)
       \/ \E u \in Users : Resend(w, u) \/ PasswordLoad(w, u) \/ NotifyLoad(w, u) \/ Cooldown(w, u)
       \/ \E u \in Users, e \in Addresses :
            RegisterCheck(w, u, e) \/ OpenLink(w, u, e) \/ ProfileLoad(w, u, e) \/ AdminLoad(w, u, e)
  \/ \E u \in Users : DeleteAccount(u)

Spec == Init /\ [][Next]_avars

-----------------------------------------------------------------------------
(* Properties *)

\* An address counts as confirmed, and a notice is about to be mailed to it, only
\* when somebody has opened the link that was sent there for this account: tokens
\* name user and address, and the profile form takes the confirmation of an
\* address that changes.  Two ways lead round it: confirm() reads by address and
\* saves by user, so a change of the address in between is confirmed unseen; and
\* the user form of the admin site changes the address and leaves
\* email_verified_at as it was.
Proven(u, e) == link[<<u, e>>] = "opened" \/ <<u, e>> \in unseen
ConfirmedWasProven ==
  /\ \A u \in Users : row[u].confirmed => Proven(u, row[u].email)
  /\ \A w \in Workers : At(w, "notify") => Proven(page[w].user, page[w].email)

\* A page says that a link has gone to an address only when one has.  Throttled,
\* the pages say so unseen: registration and the profile form, which do not look
\* at what send_confirmation returns, and resend_confirmation, whose warning is
\* that the letter has been sent already.  They are wrong for two minutes after
\* the mail of an attempt has failed, for the key is set before it, and while
\* the key stands for a letter to another address of the account.
SaidSentIsSent ==
  [][\A w \in Workers : page'[w].step = "said" /\ ~At(w, "said") =>
       LET u == page'[w].user
           e == page'[w].email
       IN \/ link'[<<u, e>>] # "none"
          \/ throttle[w][u] \in {"failed"} \cup (Addresses \ {e})]_avars

\* An address that is confirmed stays confirmed and in place until a form that is
\* to change it says otherwise or the account is deleted.  The one other thing
\* that takes either away is a page of that very account which saves, in that
\* very step, a copy of the row read before the confirmation or the change.
Saves(w, u) ==
  page[w].step \in {"profile", "admin", "password"} /\ page[w].user = u /\ page'[w] # page[w]
IsToChange(p, r) ==
  /\ p.step \in {"profile", "admin"}
  /\ p.email # p.copy.email
  /\ r.email = p.email
  /\ r.confirmed => p.step = "admin" /\ p.copy.confirmed
OnlyAStalePageUndoes ==
  [][\A u \in Users : row[u].confirmed /\ row'[u] # row[u] =>
       \/ row'[u] = Erased
       \/ \E w \in Workers :
            Saves(w, u) /\ (page[w].copy # row[u] \/ IsToChange(page[w], row'[u]))]_avars
=============================================================================
