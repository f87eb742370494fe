--------------------------- MODULE AccountsProofs ---------------------------
(***************************************************************************)
(* Whose mailbox an account is confirmed for, with any number of users,    *)
(* addresses and workers.  What a page saves or mails was read when it     *)
(* began, so the invariant says of every copy a page holds what is to be   *)
(* shown of the row: its confirmation was proven when it was read, and a    *)
(* link that has been opened stays opened.                                 *)
(***************************************************************************)
EXTENDS Accounts, TLAPS

\* With links l and unseen confirmations x as they are or as they become.
Opened(u, e, l) == l[<<u, e>>] = "opened"
Vouched(u, e, l, x) == Opened(u, e, l) \/ <<u, e>> \in x
Copying == {"profile", "admin", "password"}

\* What is to be shown of what a page p holds.
CopyHolds(p, l, x, r) ==
  /\ p.step = "confirm" => Opened(p.user, p.email, l) /\ r[p.user] \in Rows
  /\ p.step \in Copying /\ p.copy.confirmed => Vouched(p.user, p.copy.email, l, x)
  /\ p.step = "notify" => Vouched(p.user, p.email, l, x)

CopiesHold == \A w \in Workers : CopyHolds(page[w], link, unseen, row)

\* What is to be shown of a user's row.
RowHolds(u, r, l, x) == r[u].confirmed => Vouched(u, r[u].email, l, x)

RowsHold == \A u \in Users : RowHolds(u, row, link, unseen)

AccountsInv == AccountsTypeOK /\ RowsHold /\ CopiesHold

LEMMA InitAccounts == Init => AccountsInv
<1> SUFFICES ASSUME Init PROVE AccountsInv
  OBVIOUS
<1>1. AccountsTypeOK
  BY DEF Init, AccountsTypeOK, Page
<1>2. RowsHold
  BY DEF Init, RowsHold, RowHolds, NoRow
<1>3. CopiesHold
  BY DEF Init, CopiesHold, CopyHolds, Copying, Idle
<1> QED
  BY <1>1, <1>2, <1>3 DEF AccountsInv

\* Only a user who has a row has an address and a confirmation.
LEMMA RowShape ==
  ASSUME AccountsTypeOK, NEW u \in Users
  PROVE  /\ row[u].confirmed => row[u] \in Rows /\ row[u].email \in Held
         /\ row[u].email \in Addresses => row[u] \in Rows
         /\ row[u] # NoRow => row[u] \in Rows
<1>1. CASE row[u] \in Rows
  BY <1>1 DEF Rows
<1>2. CASE row[u] = NoRow
  <2>1. ~NoRow.confirmed
    BY DEF NoRow
  <2>2. NoRow.email \in Addresses => NoRow \in Rows
    BY DEF NoRow, Rows, Held
  <2> QED
    BY <1>2, <2>1, <2>2
<1> QED
  BY <1>1, <1>2 DEF AccountsTypeOK

\* A page has the fields of its step.
LEMMA PageFields ==
  ASSUME AccountsTypeOK, NEW w \in Workers
  PROVE  /\ page[w] \in Page
         /\ page[w].step # "idle" => page[w].user \in Users
         /\ page[w].step \in {"register", "confirm", "notify", "mail", "said", "profile", "admin"}
              => page[w].email \in Addresses
         /\ page[w].step \in Copying => page[w].copy \in Rows
BY DEF AccountsTypeOK, Page, Idle, Copying

LinksGrow == \A l \in Linked : link[l] = "opened" => link'[l] = "opened"
RowsGrow == \A u \in Users : row[u] \in Rows => row'[u] \in Rows
UnseenGrow == unseen \subseteq unseen'

\* What a link or a confirmation unseen once vouches for, it vouches for ever.
LEMMA VouchedStays ==
  ASSUME NEW u \in Users, NEW e \in Held, LinksGrow, UnseenGrow
  PROVE  /\ Opened(u, e, link) => Opened(u, e, link')
         /\ Vouched(u, e, link, unseen) => Vouched(u, e, link', unseen')
BY DEF Opened, Vouched, Linked, LinksGrow, UnseenGrow

\* A step that sends one page elsewhere keeps the others' copies.
LEMMA OnePageMoves ==
  ASSUME AccountsInv, AccountsTypeOK', LinksGrow, UnseenGrow, RowsGrow,
         NEW w \in Workers, NEW p, Goto(w, p), CopyHolds(p, link', unseen', row')
  PROVE  CopiesHold'
<1> SUFFICES ASSUME NEW x \in Workers PROVE CopyHolds(page'[x], link', unseen', row')
  BY DEF CopiesHold
<1>1. CASE x = w
  BY <1>1 DEF Goto, AccountsInv, AccountsTypeOK
<1>2. CASE x # w
  <2>1. page'[x] = page[x]
    BY <1>2 DEF Goto, AccountsInv, AccountsTypeOK
  <2>2. CopyHolds(page[x], link, unseen, row)
    BY DEF AccountsInv, CopiesHold
  <2>3. CASE page[x].step = "confirm" \/ page[x].step = "notify"
    <3>1. page[x].user \in Users /\ page[x].email \in Held
      BY <2>3, PageFields DEF AccountsInv, Held
    <3> QED
      BY <2>1, <2>2, <2>3, <3>1, VouchedStays DEF CopyHolds, Copying, RowsGrow
  <2>4. CASE page[x].step \in Copying
    <3>1. page[x].user \in Users /\ page[x].copy.email \in Held
      BY <2>4, PageFields DEF AccountsInv, Copying, Rows
    <3> QED
      BY <2>1, <2>2, <2>4, <3>1, VouchedStays DEF CopyHolds, Copying
  <2> QED
    BY <2>1, <2>3, <2>4 DEF CopyHolds
<1> QED
  BY <1>1, <1>2

\* A step that leaves the addresses and the confirmations alone.
LEMMA RowsStay ==
  ASSUME AccountsInv, AccountsTypeOK', LinksGrow, UnseenGrow, UNCHANGED row
  PROVE  RowsHold'
<1> SUFFICES ASSUME NEW u \in Users PROVE RowHolds(u, row', link', unseen')
  BY DEF RowsHold
<1>1. row[u].confirmed => row[u].email \in Held
  BY RowShape DEF AccountsInv
<1> QED
  BY <1>1, VouchedStays DEF AccountsInv, RowsHold, RowHolds

-----------------------------------------------------------------------------

\* Where a page may go without anything to show.
Plain(p) == p.step \in {"idle", "register", "mail", "said"}

LEMMA PlainHolds == ASSUME NEW p, Plain(p) PROVE CopyHolds(p, link', unseen', row')
BY DEF Plain, CopyHolds, Copying

\* Whatever leaves rows and unseen confirmations alone and sends a page to a place
\* with nothing to show keeps the invariant.
LEMMA PlainStep ==
  ASSUME AccountsInv, AccountsTypeOK', NEW w \in Workers, NEW p, Goto(w, p), Plain(p),
         LinksGrow, UNCHANGED <<row, unseen>>
  PROVE  AccountsInv'
<1>1. UnseenGrow /\ RowsGrow
  BY DEF UnseenGrow, RowsGrow
<1>2. CopiesHold'
  BY <1>1, PlainHolds, OnePageMoves
<1>3. RowsHold'
  BY <1>1, RowsStay
<1> QED
  BY <1>2, <1>3 DEF AccountsInv

LEMMA RegisterInv ==
  ASSUME AccountsInv, NEW w \in Workers,
         \/ RegisterSave(w)
         \/ \E u \in Users, e \in Addresses : RegisterCheck(w, u, e)
  PROVE  AccountsInv'
<1>t. AccountsTypeOK
  BY DEF AccountsInv
<1>l. link' = link => LinksGrow
  BY DEF LinksGrow
<1>1. ASSUME NEW u \in Users, NEW e \in Addresses, RegisterCheck(w, u, e)
      PROVE  AccountsInv'
  <2> DEFINE p == [step |-> "register", user |-> u, email |-> e]
  <2>1. p \in Page /\ Plain(p)
    BY DEF Page, Plain
  <2>2. AccountsTypeOK'
    BY <1>1, <1>t, <2>1 DEF RegisterCheck, Goto, AccountsTypeOK
  <2> QED
    BY <1>1, <1>l, <2>1, <2>2, PlainStep DEF RegisterCheck
<1>2. ASSUME RegisterSave(w) PROVE AccountsInv'
  <2> DEFINE u == page[w].user
             e == page[w].email
             p == [step |-> "mail", user |-> u, email |-> e]
             r == [email |-> e, confirmed |-> FALSE]
  <2>1. u \in Users /\ e \in Addresses
    BY <1>2, <1>t, PageFields DEF RegisterSave, At
  <2>2. p \in Page /\ Idle \in Page /\ Plain(p) /\ Plain(Idle) /\ r \in Rows
    BY <2>1 DEF Page, Plain, Idle, Rows, Held
  <2>3. CASE row[u] = NoRow /\ Free(u, e)
    <3>1. row' = [row EXCEPT ![u] = r] /\ Goto(w, p)
      BY <1>2, <2>3 DEF RegisterSave
    <3>2. AccountsTypeOK'
      BY <1>2, <1>t, <2>1, <2>2, <3>1 DEF RegisterSave, Goto, AccountsTypeOK
    <3>3. LinksGrow /\ UnseenGrow /\ RowsGrow
      BY <1>2, <1>t, <2>1, <2>2, <3>1
      DEF RegisterSave, LinksGrow, UnseenGrow, RowsGrow, AccountsTypeOK
    <3>4. CopiesHold'
      BY <2>2, <3>1, <3>2, <3>3, PlainHolds, OnePageMoves
    <3>5. ~row'[u].confirmed /\ \A v \in Users \ {u} : row'[v] = row[v]
      BY <1>t, <2>1, <3>1 DEF AccountsTypeOK
    <3>6. RowsHold'
      BY <1>2, <3>5 DEF RegisterSave, AccountsInv, RowsHold, RowHolds
    <3> QED
      BY <3>2, <3>4, <3>6 DEF AccountsInv
  <2>4. CASE row[u] # NoRow \/ ~Free(u, e)
    <3>1. Goto(w, Idle) /\ UNCHANGED <<row, link, throttle, unseen>>
      BY <1>2, <2>4 DEF RegisterSave
    <3>2. AccountsTypeOK'
      BY <1>t, <2>2, <3>1 DEF Goto, AccountsTypeOK
    <3> QED
      BY <1>l, <2>2, <3>1, <3>2, PlainStep
  <2> QED
    BY <2>3, <2>4
<1> QED
  BY <1>1, <1>2

LEMMA LinkInv ==
  ASSUME AccountsInv, NEW w \in Workers,
         \/ SendConfirmation(w)
         \/ \E u \in Users : Resend(w, u)
         \/ \E u \in Users, e \in Addresses : OpenLink(w, u, e)
  PROVE  AccountsInv'
<1>t. AccountsTypeOK
  BY DEF AccountsInv
<1>i. Idle \in Page /\ Plain(Idle)
  BY DEF Idle, Page, Plain
<1>1. ASSUME SendConfirmation(w) PROVE AccountsInv'
  <2> DEFINE u == page[w].user
             e == page[w].email
             a == Answer(page[w])
  <2>1. u \in Users /\ e \in Addresses /\ <<u, e>> \in Linked
    BY <1>1, <1>t, PageFields DEF SendConfirmation, At, Linked, Held
  <2>2. a \in Page /\ Plain(a)
    BY <2>1 DEF Answer, Page, Plain
  <2>3. UNCHANGED <<row, unseen>> /\ \E p \in Page : Goto(w, p) /\ Plain(p)
    BY <1>1, <1>i, <2>2 DEF SendConfirmation, Failed
  <2>4. throttle' \in [Workers -> [Users -> {"open", "failed"} \cup Addresses]]
    <3>1. \A v \in {"failed"} \cup Addresses :
            throttle' = [throttle EXCEPT ![w][u] = v]
              => throttle' \in [Workers -> [Users -> {"open", "failed"} \cup Addresses]]
      BY <1>t, <2>1 DEF AccountsTypeOK
    <3>2. throttle' = throttle \/ \E v \in {"failed"} \cup Addresses :
            throttle' = [throttle EXCEPT ![w][u] = v]
      BY <1>1, <2>1 DEF SendConfirmation
    <3> QED
      BY <1>t, <3>1, <3>2 DEF AccountsTypeOK
  <2>5. link' \in [Linked -> {"none", "sent", "opened"}] /\ LinksGrow
    <3>1. CASE UNCHANGED link
      BY <1>t, <3>1 DEF AccountsTypeOK, LinksGrow
    <3>2. CASE link' = [link EXCEPT ![<<u, e>>] = IF @ = "none" THEN "sent" ELSE @]
      BY <1>t, <2>1, <3>2 DEF AccountsTypeOK, LinksGrow
    <3> QED
      BY <1>1, <3>1, <3>2 DEF SendConfirmation
  <2>6. AccountsTypeOK'
    BY <1>t, <2>3, <2>4, <2>5 DEF Goto, AccountsTypeOK
  <2> QED
    BY <2>3, <2>5, <2>6, PlainStep
<1>2. ASSUME NEW u \in Users, Resend(w, u) PROVE AccountsInv'
  <2> DEFINE p == [step |-> "mail", user |-> u, email |-> row[u].email]
  <2>1. p \in Page /\ Plain(p)
    BY <1>2 DEF Resend, Registered, Page, Plain
  <2>2. AccountsTypeOK' /\ LinksGrow
    BY <1>2, <1>t, <2>1 DEF Resend, Goto, AccountsTypeOK, LinksGrow
  <2> QED
    BY <1>2, <2>1, <2>2, PlainStep DEF Resend
<1>3. ASSUME NEW u \in Users, NEW e \in Addresses, OpenLink(w, u, e) PROVE AccountsInv'
  <2> DEFINE p == [step |-> "confirm", user |-> u, email |-> row[u].email]
  <2>1. /\ link' = [link EXCEPT ![<<u, e>>] = "opened"]
        /\ UNCHANGED <<row, throttle, unseen>>
        /\ At(w, "idle")
    BY <1>3 DEF OpenLink
  <2>2. LinksGrow /\ UnseenGrow /\ RowsGrow /\ link'[<<u, e>>] = "opened"
    BY <1>t, <2>1 DEF AccountsTypeOK, Linked, Held, LinksGrow, UnseenGrow, RowsGrow
  <2>3. CASE LookUp(u, e) /\ ~row[u].confirmed
    <3>1. Goto(w, p) /\ row[u].email = e
      BY <1>3, <2>3 DEF OpenLink, LookUp
    <3>2. row[u] \in Rows
      BY <1>t, <3>1, RowShape
    <3>3. p \in Page /\ CopyHolds(p, link', unseen', row')
      BY <2>1, <2>2, <3>1, <3>2 DEF Page, CopyHolds, Opened, Copying
    <3>4. AccountsTypeOK'
      BY <1>t, <2>1, <3>1, <3>3 DEF Goto, AccountsTypeOK
    <3> QED
      BY <2>1, <2>2, <3>1, <3>3, <3>4, OnePageMoves, RowsStay DEF AccountsInv
  <2>4. CASE ~(LookUp(u, e) /\ ~row[u].confirmed)
    <3>1. UNCHANGED page
      BY <1>3, <2>4 DEF OpenLink
    <3>2. Goto(w, page[w])
      BY <1>t, <3>1 DEF Goto, AccountsTypeOK
    <3>3. AccountsTypeOK'
      BY <1>t, <2>1, <3>1 DEF AccountsTypeOK
    <3>4. page[w].step = "idle"
      BY <2>1 DEF At
    <3> QED
      BY <2>1, <2>2, <3>2, <3>3, <3>4, PlainStep DEF Plain
  <2> QED
    BY <2>3, <2>4
<1> QED
  BY <1>1, <1>2, <1>3

\* confirm() saves what was true when it looked the user up.
LEMMA ConfirmInv ==
  ASSUME AccountsInv, NEW w \in Workers, ConfirmSave(w)
  PROVE  AccountsInv'
<1> DEFINE u == page[w].user
<1>t. AccountsTypeOK
  BY DEF AccountsInv
<1>1. /\ u \in Users /\ page[w].email \in Addresses
      /\ Opened(u, page[w].email, link) /\ row[u] \in Rows
  BY <1>t, PageFields DEF ConfirmSave, At, AccountsInv, CopiesHold, CopyHolds
<1>2. /\ row' = [row EXCEPT ![u].confirmed = TRUE]
      /\ unseen' = IF row[u].email = page[w].email THEN unseen
                   ELSE unseen \cup {<<u, row[u].email>>}
      /\ Goto(w, Idle)
      /\ UNCHANGED <<link, throttle>>
  BY DEF ConfirmSave
<1>3. /\ row'[u] = [row[u] EXCEPT !.confirmed = TRUE]
      /\ row'[u] \in Rows /\ row'[u].email = row[u].email
      /\ \A v \in Users \ {u} : row'[v] = row[v]
  BY <1>1, <1>2, <1>t DEF AccountsTypeOK, Rows
<1>4. AccountsTypeOK'
  <2>1. Idle \in Page
    BY DEF Page
  <2>2. <<u, row[u].email>> \in Linked
    BY <1>1 DEF Linked, Rows
  <2>3. unseen' \subseteq Linked /\ row' \in [Users -> Rows \cup {NoRow}]
    BY <1>2, <1>3, <1>t, <2>2 DEF AccountsTypeOK
  <2> QED
    BY <1>2, <1>t, <2>1, <2>3 DEF AccountsTypeOK, Goto
<1>5. LinksGrow /\ UnseenGrow /\ RowsGrow
  BY <1>2, <1>3 DEF LinksGrow, UnseenGrow, RowsGrow
<1>6. CopiesHold'
  <2>1. Goto(w, Idle) /\ Plain(Idle)
    BY <1>2 DEF Plain, Idle
  <2> QED
    BY <1>4, <1>5, <2>1, PlainHolds, OnePageMoves
<1>7. RowsHold'
  <2> SUFFICES ASSUME NEW v \in Users PROVE RowHolds(v, row', link', unseen')
    BY DEF RowsHold
  <2>1. CASE v = u
    BY <1>1, <1>2, <1>3, <2>1 DEF RowHolds, Vouched, Opened
  <2>2. CASE v # u
    BY <1>2, <1>3, <1>5, <2>2 DEF AccountsInv, RowsHold, RowHolds, Vouched, UnseenGrow
  <2> QED
    BY <2>1, <2>2
<1> QED
  BY <1>4, <1>6, <1>7 DEF AccountsInv

\* A page that takes a copy of a row takes over what was shown of it.
LEMMA LoadInv ==
  ASSUME AccountsInv, NEW w \in Workers, NEW u \in Users,
         \/ \E e \in Addresses : ProfileLoad(w, u, e) \/ AdminLoad(w, u, e)
         \/ PasswordLoad(w, u)
         \/ NotifyLoad(w, u)
  PROVE  AccountsInv'
<1>t. AccountsTypeOK
  BY DEF AccountsInv
<1>1. (Registered(u) \/ row[u] # NoRow) /\ UNCHANGED <<row, link, throttle, unseen>>
  BY DEF ProfileLoad, AdminLoad, FormLoad, PasswordLoad, NotifyLoad
<1>2. row[u] \in Rows
  BY <1>1, <1>t, RowShape DEF Registered
<1>3. row[u].confirmed => Vouched(u, row[u].email, link, unseen)
  BY DEF AccountsInv, RowsHold, RowHolds
<1>4. LinksGrow /\ UnseenGrow /\ RowsGrow
  BY <1>1 DEF LinksGrow, UnseenGrow, RowsGrow
<1>5. \E p \in Page : Goto(w, p) /\ CopyHolds(p, link', unseen', row')
  <2>1. ASSUME NEW e \in Addresses, ProfileLoad(w, u, e) \/ AdminLoad(w, u, e)
        PROVE  \E p \in Page : Goto(w, p) /\ CopyHolds(p, link', unseen', row')
    <3>1. PICK step \in {"profile", "admin"} : FormLoad(w, u, e, step)
      BY <2>1 DEF ProfileLoad, AdminLoad
    <3> DEFINE p == [step |-> step, user |-> u, copy |-> row[u], email |-> e]
    <3>2. p \in Page /\ Goto(w, p)
      BY <1>2, <3>1 DEF Page, FormLoad
    <3>3. CopyHolds(p, link', unseen', row')
      BY <1>1, <1>3, <3>1 DEF CopyHolds
    <3> QED
      BY <3>2, <3>3
  <2>2. ASSUME PasswordLoad(w, u)
        PROVE  \E p \in Page : Goto(w, p) /\ CopyHolds(p, link', unseen', row')
    <3> DEFINE p == [step |-> "password", user |-> u, copy |-> row[u]]
    <3>1. p \in Page /\ Goto(w, p)
      BY <1>2, <2>2 DEF Page, PasswordLoad
    <3>2. CopyHolds(p, link', unseen', row')
      BY <1>1, <1>3 DEF CopyHolds
    <3> QED
      BY <3>1, <3>2
  <2>3. ASSUME NotifyLoad(w, u)
        PROVE  \E p \in Page : Goto(w, p) /\ CopyHolds(p, link', unseen', row')
    <3> DEFINE p == [step |-> "notify", user |-> u, email |-> row[u].email]
    <3>1. p \in Page /\ Goto(w, p)
      BY <2>3 DEF Page, NotifyLoad, Registered
    <3>2. CopyHolds(p, link', unseen', row')
      BY <1>1, <1>3, <2>3 DEF CopyHolds, NotifyLoad, WantsEmail, Copying
    <3> QED
      BY <3>1, <3>2
  <2> QED
    BY <2>1, <2>2, <2>3
<1>6. AccountsTypeOK'
  BY <1>1, <1>5, <1>t DEF AccountsTypeOK, Goto
<1> QED
  BY <1>1, <1>4, <1>5, <1>6, OnePageMoves, RowsStay DEF AccountsInv

\* A page that writes its copy back, with an address of its own or the copy's.
LEMMA WriteInv ==
  ASSUME AccountsInv, NEW w \in Workers, ProfileSave(w) \/ AdminSave(w) \/ PasswordSave(w)
  PROVE  AccountsInv'
<1> DEFINE u == page[w].user
           copy == page[w].copy
           e == page[w].email
<1>t. AccountsTypeOK
  BY DEF AccountsInv
<1>0. page[w].step \in Copying
  BY DEF ProfileSave, AdminSave, PasswordSave, At, Copying
<1>1. u \in Users /\ copy \in Rows /\ (copy.confirmed => Vouched(u, copy.email, link, unseen))
  BY <1>0, <1>t, PageFields DEF AccountsInv, CopiesHold, CopyHolds, Copying
<1>2. UNCHANGED <<link, throttle>>
  BY DEF ProfileSave, AdminSave, PasswordSave
<1>3. \E p \in Page : Goto(w, p) /\ Plain(p)
  <2>1. Idle \in Page /\ Plain(Idle)
    BY DEF Idle, Page, Plain
  <2>2. CASE ProfileSave(w)
    <3> DEFINE m == [step |-> "mail", user |-> u, email |-> e]
    <3>1. m \in Page /\ Plain(m)
      BY <1>1, <1>t, <2>2, PageFields DEF ProfileSave, At, Page, Plain
    <3> QED
      BY <2>1, <2>2, <3>1 DEF ProfileSave
  <2> QED
    BY <2>1, <2>2 DEF AdminSave, PasswordSave
<1>4. PICK r \in Rows :
        \/ UNCHANGED <<row, unseen>>
        \/ /\ row' = [row EXCEPT ![u] = r]
           /\ UnseenGrow /\ unseen' \subseteq Linked
           /\ r.confirmed => Vouched(u, r.email, link, unseen')
  <2>u. unseen \subseteq Linked /\ (UNCHANGED unseen => UnseenGrow)
    BY <1>t DEF AccountsTypeOK, UnseenGrow
  <2>1. CASE ProfileSave(w)
    <3> DEFINE new == [email |-> e, confirmed |-> StillConfirmed(copy, e)]
    <3>1. new \in Rows
      BY <1>1, <1>t, <2>1, PageFields DEF ProfileSave, At, Rows, StillConfirmed, Held
    <3>2. UNCHANGED unseen
      BY <2>1 DEF ProfileSave
    <3>3. new.confirmed => Vouched(u, new.email, link, unseen')
      BY <1>1, <3>2 DEF StillConfirmed
    <3>4. UNCHANGED row \/ row' = [row EXCEPT ![u] = new]
      BY <2>1 DEF ProfileSave
    <3> QED
      BY <2>u, <3>1, <3>2, <3>3, <3>4
  <2>2. CASE AdminSave(w)
    <3> DEFINE new == [email |-> e, confirmed |-> copy.confirmed]
    <3>1. new \in Rows /\ <<u, e>> \in Linked
      BY <1>1, <1>t, <2>2, PageFields DEF AdminSave, At, Rows, Held, Linked
    <3>2. CASE UNCHANGED <<row, unseen>>
      BY <3>1, <3>2
    <3>3. CASE /\ row' = [row EXCEPT ![u] = new]
               /\ unseen' = IF copy.confirmed /\ e # copy.email THEN unseen \cup {<<u, e>>}
                            ELSE unseen
      <4>1. UnseenGrow /\ unseen' \subseteq Linked
        BY <2>u, <3>1, <3>3 DEF UnseenGrow
      <4>2. new.confirmed => Vouched(u, new.email, link, unseen')
        BY <1>1, <3>3 DEF Vouched
      <4> QED
        BY <3>1, <3>3, <4>1, <4>2
    <3> QED
      BY <2>2, <3>2, <3>3 DEF AdminSave
  <2>3. CASE PasswordSave(w)
    <3>1. UNCHANGED unseen /\ (UNCHANGED row \/ row' = [row EXCEPT ![u] = copy])
      BY <2>3 DEF PasswordSave
    <3> QED
      BY <1>1, <2>u, <3>1
  <2> QED
    BY <2>1, <2>2, <2>3
<1>5. row' \in [Users -> Rows \cup {NoRow}] /\ RowsGrow
  <2>1. CASE UNCHANGED row
    BY <1>t, <2>1 DEF AccountsTypeOK, RowsGrow
  <2>2. CASE row' = [row EXCEPT ![u] = r]
    BY <1>1, <1>t, <2>2 DEF AccountsTypeOK, RowsGrow
  <2> QED
    BY <1>4, <2>1, <2>2
<1>6. AccountsTypeOK' /\ LinksGrow /\ UnseenGrow
  <2>1. UnseenGrow /\ unseen' \subseteq Linked
    BY <1>4, <1>t DEF UnseenGrow, AccountsTypeOK
  <2> QED
    BY <1>2, <1>3, <1>5, <1>t, <2>1 DEF AccountsTypeOK, Goto, LinksGrow
<1>7. CopiesHold'
  BY <1>3, <1>5, <1>6, PlainHolds, OnePageMoves
<1>8. RowsHold'
  <2>1. CASE UNCHANGED <<row, unseen>>
    BY <1>2, <1>6, <2>1, RowsStay
  <2>2. CASE /\ row' = [row EXCEPT ![u] = r]
             /\ r.confirmed => Vouched(u, r.email, link, unseen')
    <3>1. row'[u] = r /\ \A v \in Users \ {u} : row'[v] = row[v]
      BY <1>1, <1>t, <2>2 DEF AccountsTypeOK
    <3> QED
      BY <1>2, <1>6, <2>2, <3>1 DEF AccountsInv, RowsHold, RowHolds, Vouched, UnseenGrow
  <2> QED
    BY <1>4, <2>1, <2>2
<1> QED
  BY <1>6, <1>7, <1>8 DEF AccountsInv

LEMMA FinishInv ==
  ASSUME AccountsInv, NEW w \in Workers, Finish(w)
  PROVE  AccountsInv'
<1>1. Goto(w, Idle) /\ UNCHANGED <<row, link, throttle, unseen>>
  BY DEF Finish
<1>2. Idle \in Page /\ Plain(Idle) /\ LinksGrow
  BY <1>1 DEF Idle, Page, Plain, LinksGrow
<1>3. AccountsTypeOK'
  BY <1>1, <1>2 DEF AccountsInv, AccountsTypeOK, Goto
<1> QED
  BY <1>1, <1>2, <1>3, PlainStep

LEMMA CooldownInv ==
  ASSUME AccountsInv, NEW w \in Workers, NEW u \in Users, Cooldown(w, u)
  PROVE  AccountsInv'
<1>1. AccountsTypeOK'
  BY DEF Cooldown, AccountsInv, AccountsTypeOK
<1> QED
  BY <1>1 DEF Cooldown, AccountsInv, RowsHold, CopiesHold

\* An erased row is not confirmed, and what pages hold is still vouched for.
LEMMA DeleteInv ==
  ASSUME AccountsInv, NEW u \in Users, DeleteAccount(u)
  PROVE  AccountsInv'
<1>t. AccountsTypeOK
  BY DEF AccountsInv
<1>1. row' = [row EXCEPT ![u] = Erased] /\ UNCHANGED <<page, link, throttle, unseen>>
  BY DEF DeleteAccount
<1>2. Erased \in Rows /\ ~Erased.confirmed
  BY DEF Erased, Rows, Held
<1>3. row'[u] = Erased /\ \A v \in Users \ {u} : row'[v] = row[v]
  BY <1>t, <1>1 DEF AccountsTypeOK
<1>4. AccountsTypeOK'
  BY <1>t, <1>1, <1>2 DEF AccountsTypeOK
<1>5. RowsHold'
  <2> SUFFICES ASSUME NEW v \in Users PROVE RowHolds(v, row', link', unseen')
    BY DEF RowsHold
  <2>1. CASE v = u
    BY <1>2, <1>3, <2>1 DEF RowHolds
  <2>2. CASE v # u
    BY <1>1, <1>3, <2>2 DEF AccountsInv, RowsHold, RowHolds
  <2> QED
    BY <2>1, <2>2
<1>6. CopiesHold'
  <2> SUFFICES ASSUME NEW w \in Workers PROVE CopyHolds(page[w], link, unseen, row')
    BY <1>1 DEF CopiesHold
  <2>1. CopyHolds(page[w], link, unseen, row)
    BY DEF AccountsInv, CopiesHold
  <2>2. page[w].step = "confirm" => row'[page[w].user] \in Rows
    BY <1>2, <1>3, <1>t, <2>1, PageFields DEF CopyHolds
  <2> QED
    BY <2>1, <2>2 DEF CopyHolds
<1> QED
  BY <1>4, <1>5, <1>6 DEF AccountsInv

LEMMA NextAccounts == AccountsInv /\ [Next]_avars => AccountsInv'
<1> SUFFICES ASSUME AccountsInv, [Next]_avars PROVE AccountsInv'
  OBVIOUS
<1>1. CASE UNCHANGED avars
  BY <1>1
  DEF avars, AccountsInv, AccountsTypeOK, RowsHold, CopiesHold
<1> QED
  BY <1>1, RegisterInv, LinkInv, ConfirmInv, LoadInv, WriteInv, FinishInv, CooldownInv, DeleteInv
  DEF Next

-----------------------------------------------------------------------------

\* The invariant of the confirmations holds for any number of users, addresses
\* and workers (apps/accounts/emails.py, the pages of apps/accounts/views.py).
THEOREM AccountsHold == Spec => []AccountsInv
<1> QED
  BY InitAccounts, NextAccounts, PTL DEF Spec

\* Every variable of the accounts keeps its type.
THEOREM AccountsTyped == Spec => []AccountsTypeOK
BY AccountsHold, PTL DEF AccountsInv

\* An address counts as confirmed, and a notice is about to be mailed to it, only
\* if its link has been opened, or it came to count so by one of the two ways
\* round (confirm() of emails.py, the form of UserAdmin).
THEOREM ConfirmationsAreProven == Spec => []ConfirmedWasProven
<1>1. AccountsInv => ConfirmedWasProven
  BY DEF AccountsInv, RowsHold, RowHolds, CopiesHold, CopyHolds, At, Vouched, Opened,
         ConfirmedWasProven, Proven
<1> QED
  BY <1>1, AccountsHold, PTL

\* A key with an address in it stands for a letter.
KeysHold ==
  \A w \in Workers, u \in Users :
    throttle[w][u] \notin {"open", "failed"} => link[<<u, throttle[w][u]>>] # "none"

LEMMA NextKeys == AccountsTypeOK /\ KeysHold /\ [Next]_avars => KeysHold'
<1> SUFFICES ASSUME AccountsTypeOK, KeysHold, [Next]_avars PROVE KeysHold'
  OBVIOUS
<1>1. CASE UNCHANGED <<link, throttle>>
  BY <1>1 DEF KeysHold
<1>2. CASE \E w \in Workers, u \in Users : Cooldown(w, u)
  BY <1>2 DEF Cooldown, KeysHold, AccountsTypeOK
<1>k. \A w \in Workers, u \in Users :
        throttle[w][u] \notin {"open", "failed"} => <<u, throttle[w][u]>> \in Linked
  BY DEF AccountsTypeOK, Linked, Held
<1>3. CASE UNCHANGED throttle /\ \E l \in Linked : link' = [link EXCEPT ![l] = "opened"]
  BY <1>k, <1>3 DEF KeysHold, AccountsTypeOK
<1>4. ASSUME NEW w \in Workers, SendConfirmation(w) PROVE KeysHold'
  <2> DEFINE u == page[w].user
             e == page[w].email
  <2>1. u \in Users /\ e \in Addresses /\ <<u, e>> \in Linked
    BY <1>4, PageFields DEF SendConfirmation, At, Linked, Held
  <2>2. CASE UNCHANGED link /\ throttle' = [throttle EXCEPT ![w][u] = "failed"]
    BY <2>1, <2>2 DEF KeysHold, AccountsTypeOK
  <2>3. CASE /\ throttle' = [throttle EXCEPT ![w][u] = e]
             /\ link' = [link EXCEPT ![<<u, e>>] = IF @ = "none" THEN "sent" ELSE @]
    <3> SUFFICES ASSUME NEW x \in Workers, NEW v \in Users,
                        throttle'[x][v] \notin {"open", "failed"}
                 PROVE  link'[<<v, throttle'[x][v]>>] # "none"
      BY DEF KeysHold
    <3>1. \A l \in Linked : link[l] # "none" => link'[l] # "none"
      BY <2>3 DEF AccountsTypeOK
    <3>2. CASE x = w /\ v = u
      <4>1. throttle'[x][v] = e /\ link'[<<u, e>>] # "none"
        BY <2>1, <2>3, <3>2 DEF AccountsTypeOK
      <4> QED
        BY <3>2, <4>1
    <3>3. CASE x # w \/ v # u
      <4>1. throttle'[x][v] = throttle[x][v]
        BY <2>1, <2>3, <3>3 DEF AccountsTypeOK
      <4>2. link[<<v, throttle[x][v]>>] # "none" /\ <<v, throttle[x][v]>> \in Linked
        BY <1>k, <4>1 DEF KeysHold
      <4> QED
        BY <3>1, <4>1, <4>2
    <3> QED
      BY <3>2, <3>3
  <2> QED
    BY <1>1, <1>4, <2>2, <2>3 DEF SendConfirmation
<1>5. ASSUME NEW w \in Workers, NEW u \in Users, NEW e \in Addresses, OpenLink(w, u, e)
      PROVE  KeysHold'
  <2>1. <<u, e>> \in Linked
    BY DEF Linked, Held
  <2> QED
    BY <1>3, <1>5, <2>1 DEF OpenLink
<1> QED
  BY <1>1, <1>2, <1>4, <1>5
  DEF Next, avars, RegisterSave, ConfirmSave, ProfileSave, AdminSave, PasswordSave, Finish, Resend,
      PasswordLoad, NotifyLoad, RegisterCheck, ProfileLoad, AdminLoad, FormLoad, DeleteAccount

LEMMA KeysMeanLetters == Spec => []KeysHold
<1>1. Init => KeysHold
  BY DEF Init, KeysHold
<1> QED
  BY <1>1, NextKeys, AccountsTyped, PTL DEF Spec

\* A page that says that a link has gone to an address is wrong only while the
\* key of send_confirmation stands for a mail that failed or that went to another
\* address (registration, the profile form and resend_confirmation).
THEOREM SaidIsSent == Spec => SaidSentIsSent
<1> DEFINE Right(w) ==
             page'[w].step = "said" /\ ~At(w, "said") =>
               LET u == page'[w].user
                   e == page'[w].email
               IN \/ link'[<<u, e>>] # "none"
                  \/ throttle[w][u] \in {"failed"} \cup (Addresses \ {e})
<1>1. [Next]_avars /\ AccountsTypeOK /\ KeysHold => [\A w \in Workers : Right(w)]_avars
  <2> SUFFICES ASSUME Next, AccountsTypeOK, KeysHold, NEW w \in Workers,
                      page'[w].step = "said", ~At(w, "said")
               PROVE  Right(w)
    OBVIOUS
  <2>0. page'[w] # page[w]
    BY DEF At
  <2>1. SendConfirmation(w)
    <3> DEFINE Elsewhere(x) == \E p : Goto(x, p) /\ p.step # "said"
    <3>1. PICK x \in Workers : SendConfirmation(x) \/ Elsewhere(x)
      <4>1. ASSUME NEW x \in Workers,
                   \/ RegisterSave(x) \/ ConfirmSave(x) \/ ProfileSave(x) \/ AdminSave(x)
                   \/ PasswordSave(x) \/ Finish(x)
            PROVE  Elsewhere(x)
        BY <4>1 DEF RegisterSave, ConfirmSave, ProfileSave, AdminSave, PasswordSave, Finish, Idle
      <4>2. ASSUME NEW x \in Workers, NEW v \in Users,
                   Resend(x, v) \/ PasswordLoad(x, v) \/ NotifyLoad(x, v)
            PROVE  Elsewhere(x)
        BY <4>2 DEF Resend, PasswordLoad, NotifyLoad
      <4>3. ASSUME NEW x \in Workers, NEW v \in Users, NEW d \in Addresses,
                   \/ RegisterCheck(x, v, d) \/ OpenLink(x, v, d)
                   \/ ProfileLoad(x, v, d) \/ AdminLoad(x, v, d)
            PROVE  Elsewhere(x) \/ UNCHANGED page
        BY <4>3 DEF RegisterCheck, OpenLink, ProfileLoad, AdminLoad, FormLoad
      <4>4. page' # page
        BY <2>0
      <4> QED
        BY <4>1, <4>2, <4>3, <4>4 DEF Next, Cooldown, DeleteAccount
    <3>2. x = w
      BY <2>0, <3>1 DEF SendConfirmation, Goto, AccountsTypeOK
    <3>3. ~Elsewhere(x)
      BY <3>2 DEF Goto, AccountsTypeOK
    <3> QED
      BY <3>1, <3>2, <3>3
  <2> DEFINE u == page[w].user
             e == page[w].email
  <2>2. u \in Users /\ e \in Addresses /\ <<u, e>> \in Linked
    BY <2>1, PageFields DEF SendConfirmation, At, Linked, Held
  <2>3. page'[w].step # "said" \/ (page'[w].user = u /\ page'[w].email = e)
    BY <2>1 DEF SendConfirmation, Goto, Answer, Failed, Idle, AccountsTypeOK
  <2>4. throttle[w][u] \in {"open", "failed"} \cup Addresses
    BY <2>2 DEF AccountsTypeOK
  <2>5. CASE throttle[w][u] # "open"
    <3>1. throttle[w][u] = e /\ e # "failed" => link[<<u, e>>] # "none"
      BY <2>2, <2>5 DEF KeysHold
    <3>2. UNCHANGED link
      BY <2>1, <2>5 DEF SendConfirmation
    <3> QED
      BY <2>3, <2>4, <2>5, <3>1, <3>2
  <2>6. CASE throttle[w][u] = "open"
    <3>1. CASE link' = [link EXCEPT ![<<u, e>>] = IF @ = "none" THEN "sent" ELSE @]
      BY <2>2, <2>3, <3>1 DEF AccountsTypeOK
    <3>2. CASE Goto(w, Failed(page[w]))
      BY <3>2 DEF Goto, Failed, Idle, AccountsTypeOK
    <3> QED
      BY <2>1, <2>6, <3>1, <3>2 DEF SendConfirmation
  <2> QED
    BY <2>5, <2>6
<1> QED
  BY <1>1, AccountsTyped, KeysMeanLetters, PTL DEF Spec, SaidSentIsSent

\* A confirmed address loses its confirmation or its place only to a form that is
\* to change it, to the deletion of the account, or to a page of that account
\* that saves an older copy (views.py ProfileEditView.post, the password form,
\* UserAdmin, deletion.py).
THEOREM StalePagesUndo == Spec => OnlyAStalePageUndoes
<1> DEFINE Undone(u) ==
             row[u].confirmed /\ row'[u] # row[u] =>
               \/ row'[u] = Erased
               \/ \E w \in Workers :
                    Saves(w, u) /\ (page[w].copy # row[u] \/ IsToChange(page[w], row'[u]))
<1>1. [Next]_avars /\ AccountsTypeOK => [\A u \in Users : Undone(u)]_avars
  <2> SUFFICES ASSUME Next, AccountsTypeOK, NEW u \in Users,
                      row[u].confirmed, row'[u] # row[u], row'[u] # Erased
               PROVE  \E w \in Workers :
                        Saves(w, u) /\ (page[w].copy # row[u] \/ IsToChange(page[w], row'[u]))
    OBVIOUS
  <2>1. row # row' /\ row[u] # NoRow /\ row[u] \in Rows
    <3>1. ~NoRow.confirmed
      BY DEF NoRow
    <3> QED
      BY <3>1, RowShape
  <2>2. \/ \E w \in Workers :
             RegisterSave(w) \/ ConfirmSave(w) \/ ProfileSave(w) \/ AdminSave(w) \/ PasswordSave(w)
        \/ \E v \in Users : DeleteAccount(v)
    BY <2>1
    DEF Next, SendConfirmation, Finish, Resend, PasswordLoad, NotifyLoad, RegisterCheck, OpenLink,
        ProfileLoad, AdminLoad, FormLoad, Cooldown
  <2>3. \A v \in Users : ~DeleteAccount(v)
    BY DEF DeleteAccount, AccountsTypeOK
  <2>4. PICK w \in Workers :
          RegisterSave(w) \/ ConfirmSave(w) \/ ProfileSave(w) \/ AdminSave(w) \/ PasswordSave(w)
    BY <2>2, <2>3
  <2>5. page[w].user \in Users /\ page[w].step # "idle"
    BY <2>4, PageFields
    DEF RegisterSave, ConfirmSave, ProfileSave, AdminSave, PasswordSave, At
  <2>6. page[w].user = u
    BY <2>4, <2>5
    DEF RegisterSave, ConfirmSave, ProfileSave, AdminSave, PasswordSave, AccountsTypeOK
  <2>7. ~RegisterSave(w)
    <3>1. ~RegisterSave(w) \/ UNCHANGED row
      BY <2>1, <2>6 DEF RegisterSave
    <3> QED
      BY <2>1, <3>1
  <2>r. row[u] = [email |-> row[u].email, confirmed |-> TRUE]
    <3>1. row[u].confirmed = TRUE
      BY <2>1 DEF Rows
    <3> QED
      BY <2>1, <3>1 DEF Rows
  <2>8. ~ConfirmSave(w)
    <3> SUFFICES ASSUME ConfirmSave(w) PROVE FALSE
      OBVIOUS
    <3>1. row'[u] = [row[u] EXCEPT !.confirmed = TRUE]
      BY <2>1, <2>6 DEF ConfirmSave, AccountsTypeOK
    <3>2. row'[u] = [email |-> row[u].email, confirmed |-> TRUE]
      BY <2>r, <3>1
    <3> QED
      BY <2>r, <3>2
  <2>9. page'[w] # page[w]
    BY <2>4, <2>7, <2>8
    DEF ProfileSave, AdminSave, PasswordSave, Goto, At, Idle, AccountsTypeOK
  <2>10. page[w].step \in {"profile", "admin", "password"}
    BY <2>4, <2>7, <2>8 DEF ProfileSave, AdminSave, PasswordSave, At
  <2>11. Saves(w, u)
    BY <2>6, <2>9, <2>10 DEF Saves
  <2>12. page[w].copy # row[u] \/ IsToChange(page[w], row'[u])
    <3> SUFFICES ASSUME page[w].copy = row[u] PROVE IsToChange(page[w], row'[u])
      OBVIOUS
    <3>1. CASE ProfileSave(w)
      <4>1. row'[u] = [email |-> page[w].email,
                       confirmed |-> StillConfirmed(page[w].copy, page[w].email)]
        BY <2>1, <2>6, <3>1 DEF ProfileSave, AccountsTypeOK
      <4>2. page[w].email # row[u].email
        BY <2>r, <4>1 DEF StillConfirmed
      <4>s. StillConfirmed(page[w].copy, page[w].email) = FALSE
        BY <4>2 DEF StillConfirmed
      <4>3. row'[u].email = page[w].email /\ ~row'[u].confirmed
        BY <4>1, <4>s
      <4> QED
        BY <3>1, <4>2, <4>3 DEF ProfileSave, At, IsToChange
    <3>2. CASE AdminSave(w)
      <4>1. row'[u] = [email |-> page[w].email, confirmed |-> page[w].copy.confirmed]
        BY <2>1, <2>6, <3>2 DEF AdminSave, AccountsTypeOK
      <4>2. page[w].email # row[u].email
        BY <2>r, <4>1
      <4>3. row'[u].email = page[w].email /\ page[w].copy.confirmed /\ page[w].step = "admin"
        BY <3>2, <4>1 DEF AdminSave, At
      <4> QED
        BY <4>2, <4>3 DEF IsToChange
    <3>3. CASE PasswordSave(w)
      <4>1. row'[u] = page[w].copy
        BY <2>1, <2>6, <3>3 DEF PasswordSave, AccountsTypeOK
      <4> QED
        BY <4>1
    <3> QED
      BY <2>4, <2>7, <2>8, <3>1, <3>2, <3>3
  <2> QED
    BY <2>11, <2>12
<1> QED
  BY <1>1, AccountsTyped, PTL DEF Spec, OnlyAStalePageUndoes

=============================================================================
