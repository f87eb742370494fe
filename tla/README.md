# MicroVolunteer in TLA+

MicroVolunteer (`src/`) is a Django site on which recipients file requests for
small help and volunteers respond. This directory models its core logic in
TLA+: what may happen to a request, to the people on it, to their accounts and
to what they write to and about each other, when several of them, the
moderators and the periodic jobs act at once. TLC checks small instances; TLAPS
proves the same safety properties, all that do not speak of `ENABLED`, and five refinements, for any number of people,
requests and workers, and any limits and deadlines.

## The system

There is no background worker and no message queue. Every step is an HTTP
request served by one of two gunicorn workers (`render.yaml:15`) against
PostgreSQL at READ COMMITTED. What makes the behaviour hard is therefore:

* **which reads are locked.** The service functions lock the request row
  (`select_for_update`) and re-read the response under it; views, the jobs'
  queries, accounts, reviews, conversations and reports mostly do not.
* **what is one transaction.** `ATOMIC_REQUESTS` is off. A service function is
  atomic; a view, a job or a moderator's handler that calls several is not.
* **what a save writes.** `save()` without `update_fields` writes the whole row
  the object was loaded from, and inserts it again when it is gone.
* **time.** Deadlines are decided by jobs that an external cron triggers about
  every ten minutes (`docs/adr/0004`), possibly while the previous call runs,
  and that can be killed in the middle (`--timeout 60`).

### Components

| Component | State | Operations | Interacts with | What makes it correct |
|---|---|---|---|---|
| Request lifecycle (`apps/requests/services.py`, `models.py`) | request status, dates, `volunteers_needed`, format, `published_at`; responses with status and `done_at` | publish, moderate, edit, respond, accept, reject, withdraw, remove, mark done, confirm, dispute, cancel, expire, auto-confirm | everything | nobody is left without an answer, work always has a team, a closed request stays closed, nothing waits for ever |
| Request pages and home page (`apps/requests/views.py`, `request_detail.html`, `action_items`) | none of their own | the buttons of a page, the tabs of the lists, what the home page asks for, of moderators too | lifecycle | what is offered is accepted and the other way round; whoever a request waits for is told |
| Edit and create views (`apps/requests/views.py`, `forms.py`) | the form and the row it read | read, validate, save, `after_edit` | lifecycle, without its lock | a save must not undo what happened since the read; nothing unread goes public |
| Departures (`revoke_verification`, `act_on_report`, `close_open_work_of`, `delete_account`, the admin's bulk actions) | `is_verified`, `is_active`, the volunteer's responses | revoke, block, delete, sweep over open responses | lifecycle, accounts | no unverified volunteer on a home visit, nobody waits for somebody who is gone |
| Verification and invite codes (`apps/moderation`, and the writers of the badge in `apps/accounts`) | `is_verified`, applications, codes with counted uses | apply, approve, reject, redeem, revoke; set by the administrator, saved by a profile form, erased with the account | accounts | a code is used at most `max_uses` times, decisions stand, whoever is verified has a record to revoke |
| Reports (`apps/moderation`) | reports | file, act, dismiss | departures, lifecycle, reviews, messages | the measure and the resolution agree |
| Reviews (`apps/reviews`) | reviews per pair, reminders | submit, publish due, remind | completed requests, jobs | the exchange is blind, and ends |
| Conversations (`apps/conversations`, `chat.js`) | messages, read and notice times | send, share phone, open, poll | responses, requests | notices are throttled and never missing; what was not shown is unread |
| Accounts (`apps/accounts`) | email, `email_verified_at`, the throttle of links in each worker's cache | register, confirm, resend, profile, password, the admin's user form, delete | notices, departures | an address counts as confirmed only if its mailbox said so |
| Notifications (`apps/notifications`) | rows, preferences | notify, mail | everything | sent once, and mailed to confirmed addresses |
| Periodic jobs (`apps/core/tasks.py`) | none of their own | six functions in a row | lifecycle, reviews, demo | idempotent, one failure does not stop the others |
| Demo data (`apps/core/demo.py`, `demo_login`) | the demo accounts and all that hangs on them | wipe, seed, daily reset, log in as | jobs, accounts | a whole world or none, a new one every day |
| Statistics, map and search, Django admin's forms, templates, settings | | | | see *Not modelled* |

`PROJECT.json` lists every component with its status, the source lines behind
every definition, and the hazards of the code at the lines where they bite.

## Modules

| Module | Models |
|---|---|
| `Lifecycle` | one request and the volunteers' responses, all service functions, the serial edit, the two closing jobs |
| `HelpContract` | abstract: what a request promises its people |
| `LifecycleContract` | the refinement mapping, `KeepsContract` |
| `LifecycleProofs` | the theorems about `Lifecycle` and the modules that extend it: the contract, `Pages`, `Jobs`, `EditRace`, `Departures` |
| `Pages` | extends `Lifecycle`: what the request's page, the lists and the home page say in each of its states |
| `Jobs` | extends `Lifecycle`: overlapping, failing calls of the cron endpoint |
| `EditRace` | extends `Lifecycle`: the edit view taken apart, beside everything else |
| `Departures` | extends `Lifecycle`: a volunteer is revoked, blocked or leaves, step by step |
| `Publishing`, `PublishingProofs` | several requests of one recipient: the limit, premoderation, edits under review |
| `Reviews`, `ReviewsProofs` | the reviews of one completed request |
| `BlindExchange` | abstract: what the two sides of a pair may see of each other, and when |
| `Verification`, `VerificationProofs` | applications, invite codes and revocations of several users |
| `BadgeContract` | abstract: who is verified, by which record, and what becomes of a record |
| `Reports`, `ReportsProofs` | the reports about one object and the measures taken |
| `ReportDesk` | abstract: who may rule on a report, and when it may be called resolved |
| `Conversations`, `ConversationsProofs` | the conversation of a recipient and a volunteer |
| `Accounts`, `AccountsProofs` | addresses, their confirmation, and the mail that relies on it |
| `Demo`, `DemoProofs` | the demo world, replaced while visitors use it |
| `WholeWorlds` | abstract: how worlds come and go |
| `MC*` | what TLC needs: symmetry and steadier initial states |

In the modules of concurrent handlers, `work[w]` (`page[w]` in `Accounts`,
`call[c]` in `Jobs` and `Demo`) is what worker `w` is serving: its next step and
what it holds from earlier reads. Whatever runs under a row lock, or in one
statement, is one action; a worker can be killed or fail between any two.

### Lifecycle

Variables are the columns of `HelpRequest` and `Response` that decide anything;
`response[v] = "none"` is a volunteer without a `Response` row. An action is named after its
service function and is enabled exactly when the function does not raise
`TransitionError`; because each function holds the request's row lock, it is one
step. `cancel`, `cancel_by_moderator` and `_cancel_as_owner_left` change the same
state and are one action. Wording, notifications, addresses and photos are left out.

Three points differ from a transliteration:

* *Time* is two ages, `late` (since `needed_date`) and `age` (since
  `status_changed_at`), which stop growing when every comparison is decided
  (`LateMax`, `AgeMax`). The state space is finite without bounding the clock.
  An edit moves the date, so `late` can jump back.
* *Trust* (`User.trust_level`) changes at any moment: email confirmed or changed,
  verification given or taken.
* `expire_overdue` decides again under its lock and is one action;
  `auto_confirm` re-reads only the status, so its query is an action of its own
  and `due` remembers what it found. At most one `auto_confirm` call is between the two.

`others` counts the recipient's other published requests, for premoderation.
It does not go down: `published_at` is never cleared.

`HelpContract` has five stages and three sets of people: those who wait for an
answer, the team, and those who were sent away or left. It says that offers come
only while recruiting, that leaving it answers everyone, that a team never
shrinks to nobody while work goes on, and that the end is the end.
`LifecycleContract` maps the nine statuses onto the stages.

### Pages

Pages change nothing: every definition is a function of the state of `Lifecycle`
and the properties are invariants of its runs. The conditions of the template,
the queryset and the view stand beside the services they lead to
(`OfferedIsAccepted`, `AcceptedIsOffered`, with `ENABLED` of the service's action as
"the service does not refuse"), and the tabs beside the items of the home page,
which shows at most four (`WaitingIsShown`, for everything else that could compete
for a place, and whether or not the person is a moderator besides, whose three queues
come before everything, `_moderator_items`). Of a list of items only the kinds and their order
matter, so it is a set of kinds, of which those with fewer than four others `Ahead` of them are seen.

### Jobs

A call of `run_periodic_tasks` is an actor whose place in the list of jobs is
`call[c]`. `expire_overdue` and the locked half of `auto_confirm` are the actions of
`Lifecycle`; `send_reminders`, which neither locks nor opens a transaction, is
three steps: the query, the notice to the recipient, the notices to the team with
the mark. `Fail` kills the call or makes one job fail, after which
`run_periodic_tasks` goes on with the next. `fresh[c]` is a ghost: nobody else has
acted since the call began.

### EditRace

`HelpRequestUpdateView` reads the row (`FormRead`, the reads of `dispatch` and `get_object` in
one; `Publishing` takes them apart), checks the form against it
with the responses read anew (`FormCheck`), saves every column it holds
(`FormSave`) and calls `after_edit`, which locks and reads again
(`FormAfterEdit`). Every service function and the jobs run between these. One
edit at a time is in progress. `Edit` of `Lifecycle` is the case in which nothing
runs in between.

### Departures

`revoke_verification` commits, then queries for open responses, then takes the
volunteer off in another transaction. Blocking does that, deactivates, queries
again and withdraws, with `remove_by_moderator` where `withdraw` refuses. `handler`
holds the next step; `Crash` ends a handler anywhere. The bulk actions of the
Django admin (`AdminStep`) change the account in one update and touch no response.
`page` is `request.user` as the volunteer's own request loaded it, with which
`respond` checks trust and which the profile form saves whole. `RequestStep` takes the recipient's edits as one
step; the unlocked save of the edit view (`views.py:465`), with a volunteer of level 1 accepted between its
read and its save, is one more and very narrow way round `VisitNeedsVerified` that is not modelled here
(`EditRace` has the save, and no accounts). The ghost `around`
is the last way in which account and responses came to differ, an evasion of the sweeps
outweighing the others; no action reads it.

### Publishing

`Lifecycle` has one request in all its statuses; here several of one recipient
have the statuses that decide who reads a text before the public does
(`in_progress` stands for every status after recruiting that is still open). A text is the number of
the form that wrote it. `create_request` commits the draft and then
publishes it. The edit view lets the form through by one read (`EditOpen`), fills it from another
(`EditRead`), saves the whole row as that read had it (`EditSave`: text, but also `status` and
`published_at`) and calls `after_edit`, which locks and re-reads; `GiveUp`, a second form, an accepted
volunteer (`Fill`), a departure (`Reopen`) or a moderator can come between any two. `publish` locks its
own request and counts the others (`PublishCheck`, `PublishCommit`). `page` is the request a moderator is
reading, with the text it shows. Of the ghosts, `live` holds the requests that were ever public, `cleared`
the texts that a moderator has read or a verified recipient put up, `slipped` those that escaped review in one of
four named ways, and `returned` the requests handed in again after a rejection or put back by a stale form.

### Reviews

Each ordered pair of recipient and accepted volunteer has a review and at most
one submission in progress: a second submission of the same review ends on the
unique constraint without an effect. A submission is three steps, since it
sees only committed rows: check, look for the counterpart, commit. The two jobs
read their lists without a lock and work through them, each cron call in a
worker. `raced` (submissions that overlapped) and `ill` (a killed worker, cron
calls that overlapped) are ghosts. `BlindExchange` knows neither days nor workers: it has
the reviews being written, those written and hidden, those shown, and whether the window is over.

### Verification

A user's `VerificationRequest` rows are a sequence, oldest first, each with the
time since it was decided; a row that `delete_account` erases leaves its place.
Approving, rejecting and redeeming lock their row and
are one action each, but `redeem_invite` checks the `is_verified` the session
loaded (`Load`). Applying checks and creates apart, held together by the
constraint `one_pending_verification_per_user`. Revoking reads the latest
approved record, unlocked, and writes it (`RevokeRead`, `RevokeCommit`); saving a record that was
deleted meanwhile inserts it again. Three more writers touch the badge: the
administrator sets it without a record (`AdminSets`, `verify_users` and the user form); the profile and password forms
save the user as the page had loaded it, badge and `is_active` included (`SaveProfile`); and
`delete_account` erases the records it finds and the badge (`DeleteErase`, `DeleteCommit`).
The history `beside` holds those whose badge came by no decision, `since` counts the uses of codes a user has
spent since they last had no badge. `BadgeContract` sees the badges, what became of each
record (`Ruling`), which records each code gave, and which pages are open on a user and may put a
badge back; a record's place in its user's list is its number.

### Reports

`Act`, `TakeMeasure`, `CloseSave`, `CloseDuplicates` and `TellReporter` are the
queries of `act_on_report` and `_close_report`, each committing by itself.
`taken` holds the steps of the measure against the object, of which a user has
three. Two moderators may have one report open, and a worker may die between
closing a report and its duplicates (ghost `cut`).
`ReportDesk` sees the rows, who is deciding which (`Deciding`), with which verdict a worker is about to close the
duplicates (`Closing`), and of the measure only that it is complete or has no object left.

### Conversations

A message takes its `created_at` in the process (`SendStamp`), its id in the
database (`SendInsert`), and is seen from the commit on; these three orders can
differ, and `page`, which is `chat.js` polling, depends on all of them. The
update of the conversation's row keeps it locked until the commit, so that update,
the notice, the sender's read mark and the commit are one action. `quiet` is the
time since each side was notified. Opening the page marks the conversation as read *now* and lists its messages
afterwards (`PageOpen`, `PageList`); a poll that brings messages marks it after its query (`PollMark`):
the ghost `missed` holds the stamps that were marked without being shown. `phase` says whether one may write,
and whether the conversation has gone to the archive, where it no longer counts as unread.

### Accounts

A page is a worker with a copy of the user's row. Registration and the profile form
check that an address is free and insert or save later; the confirmation link names
user and address, `confirm` looks the row up by both and saves one column by key.
The profile form, Django's password form and the admin's user form write the whole row back, and
deleting the account leaves `Erased`. `throttle[w][u]` is the key of `send_confirmation` in the cache of worker `w`:
the settings have no `CACHES`, so each of the two gunicorn processes has its own. The key is set before the mail is
sent; a page that answers that a link has gone out is at `"said"`, whether `send_confirmation` mailed it or found
the key. A notice is mailed after the commit, to the address of the object the step had loaded.
`Box` is the mailbox of an address: registration compares without capitals, the
profile form does not. The ghost `unseen` holds the addresses that came to count as confirmed unseen.

### Demo

A *world* is one seeding; its three one-click accounts stand for all that `seed()`
inserts in one transaction. `row[r]` is the world the account of role `r` belongs to.
`delete()` reads what it will delete before its transaction (`WipeCollect`, `WipeDelete`).
A visitor's profile form loaded before the wipe and saved after it puts the account's
row back (`SaveProfile`), without the moderator's group.
`WholeWorlds` has the rows and the put-back accounts, and none of the calls.

## Runs

| Run | Instance | Result |
|---|---|---|
| `lifecycle` | 2 volunteers, up to 2 needed, trust free | `NoPendingLeftBehind`, `WorkHasTeam`, `AwaitingMeansAllDone`, `PagesMatchServices`, `PagesTellTheTruth`, and in every step `ClosedIsFinal`, `CompletedWithTeam`, `OnlyARestartSkipsConfirmation`; it implements `HelpContract` (`KeepsContract`) |
| `jobs` | 2 volunteers, 2 overlapping calls, one failure, fairness, accounts fixed | one reminder, about work under way (`NudgedOnceInTime`); a call leaves the next nothing to do (`CallLeavesNothingToDo`); `EveryRequestSettles` |
| `edit_race` | the edit view in pieces, 2 volunteers | a stale save never leaves work without a team or people without an answer (`RaceInv`); nothing else reopens what is closed (`OnlyAStaleFormReopens`) |
| `departures` | 1 volunteer, up to 2 needed | no unverified volunteer on a home visit (`VisitNeedsVerified`), nobody waiting for who is gone (`NobodyWaitsForTheGone`) |
| `publishing` | 2 requests, 2 forms, 2 workers, 1 moderator's page | nothing unread is public (`PublicWasReviewed`); the limit of open requests (`FewOverLimit`) |
| `reviews` | 1 volunteer, 2 overlapping cron calls, fairness | the exchange is blind (`ExchangeInv`, `OnlyARaceHides`) and implements `BlindExchange` (`KeepsExchange`), everything is announced and reminded of once (`EachAnnounced`, `NudgedOnce`), every review shows (`EveryReviewShows`) |
| `verification` | 1 user, 2 workers, 2 codes for two uses each | `CodesAccounted`, `VerifiedHasApproved`; it implements `BadgeContract` (`KeepsBadges`) |
| `reports` | 3 reports by 2 people, 2 workers, an object of each kind | `ResolvedMeansMeasured`, `NoneLeftBehind`; it implements `ReportDesk` (`KeepsDesk`) |
| `conversations` | 2 workers, 3 messages, 1 reader | unlocked limits are overrun by overlaps only (`OverrunsAreOverlaps`), notices are throttled and never missing (`NoticesThrottled`, `EveryMessageNoticed`), a page skips nothing (`NothingSkipped`), what was not shown is unread while the conversation is listed (`UnshownIsUnread`) |
| `accounts` | 2 users, one mailbox in two spellings, 2 workers | `ConfirmedWasProven`, `SaidSentIsSent`, `OnlyAStalePageUndoes` |
| `demo` | 2 cron calls, 1 command, 1 visitor, 1 fault, fairness | worlds come and go as wholes: it implements `WholeWorlds` (`KeepsWorlds`), and there is a new one again and again (`DailyWorld`) |

Many properties name exceptions. These are not caution: each is a way in which the
unlocked code does miss its aim, and TLC finds the case when the exception is dropped.

* *A button and its service* (`PagesMatchServices`): after the date, editing is offered and refused,
  and so is publishing an old draft; accepting is offered for a volunteer who lost the trust level
  meanwhile. A verified recipient with an unconfirmed email may publish but has no button for it, and
  rejecting a response is possible but not offered while the request is back with the moderators.
* *A crowded home page* (`PagesTellTheTruth`): of the four items shown, a moderator's queues are first. A recipient's drafts
  and reviews can always be cut off; of a moderator more can, but help to be marked or confirmed only when
  all three queues wait and the email is not confirmed.
* *All done, nobody asked* (`OnlyARestartSkipsConfirmation`): a reopened request keeps `done_at` of those
  who stayed; started again, or left by one of too many, all are done and nothing asks for the confirmation.
* *Reminders* (`NudgedOnceInTime`): a call killed between the notice and the mark, or two at once, remind twice;
  a candidate that changes after the query is reminded of work that is over.
* *Twice in a row* (`CallLeavesNothingToDo`): a team that `expire_overdue` puts to work more than a week after the
  date is expired by the very next call.
* *A stale form* (`OnlyAStaleFormReopens`): a request cancelled while its edit
  form is open is active again after the save.
* *Around the sweep* (`VisitNeedsVerified`, `NobodyWaitsForTheGone`): the sweeps look only at open
  requests, so on one back in moderation a revoked volunteer stays accepted; the
  profile form writes back `is_verified` and `is_active`; a killed handler is not resumed; an answer may
  come after the sweep; and the admin's bulk block sweeps nothing.
* *Simultaneous reviews* (`OnlyARaceHides`): they miss each other and stay hidden
  until the window closes. *Overlapping cron calls* (`NudgedOnce`) remind twice.
* *Resubmitted requests* (`FewOverLimit`): a rejected request is not counted as
  unfinished, and editing it hands it in again; a form read before a request was rejected or closed puts it back.
* *Unread text* (`PublicWasReviewed`): a new text of a public request is reviewed by nobody if the worker dies between the
  save and `after_edit`; if a volunteer is accepted in between, since `after_edit` reviews again only what is
  `ACTIVE` (`services.py:255`) and a withdrawal reopens it later; or if a second form that read it before
  `after_edit` writes it back with the old status. And a request can be edited while it waits
  for moderation, so `approve` publishes the new text from a page that showed the old one.
* *Codes* (`CodesAccounted`): two redemptions at once, each with the user loaded before, spend two uses on one user.
* *A badge without a record* (`VerifiedHasApproved`): set by the administrator, or put back by a profile or password form
  that was loaded before a revocation, until a decision or a code gives it again.
* *Overtaken ids* (`NothingSkipped`): an id drawn before a higher one and
  committed after it is below the id the page asks for, until the page is reloaded.
* *Marked unseen* (`UnshownIsUnread`): the mark is the time of the page, so it covers what was on its way between the
  query and the mark; a page that is opened marks before it lists, so what it would have listed stays marked if it
  dies; an answer that is lost, and a message `chat.js` passes over, stay marked; and a message
  with an earlier stamp that commits later takes `last_message_at` back. An archived conversation counts nothing, by
  intention (`conversations/services.py:146`).
* *Confirmed unseen* (`ConfirmedWasProven`): `confirm` reads by address and saves by key, so an address changed
  in between is confirmed; and the admin's user form changes the address and leaves `email_verified_at` (`unseen` has both).
* *"We have sent a link"* (`SaidSentIsSent`): registration and the profile form do not look at what
  `send_confirmation` returned, and the resend page answers a throttled attempt with "the letter has been sent
  already". Both are wrong for two minutes after an attempt whose mail failed, or that went to another address.
* *Stale copies* (`OnlyAStalePageUndoes`): a page of that very account loaded before the
  confirmation takes it back when it saves, one loaded before a change of address takes that back.
* *Put back* (`KeepsWorlds`): a demo account that a visitor's form has inserted again keeps the next world from
  being seeded until it is old enough to be wiped.

One run shows where the code departs from what the repository says of it:

| Run | Finding |
|---|---|
| `lifecycle_overfill` | an edit that changes the text *and* lowers `volunteers_needed` is sent to review; `approve` puts it back to recruiting although the team is complete, and one volunteer too many is accepted |

### Bounds

* *Two volunteers* show every rivalry over the last place, a team that loses one
  member, is refilled with one of them done, and one that loses all. `MaxNeeded` equals their number (10 in the code), so that a team can
  be incomplete as well as full. In `departures` one volunteer with up to two
  needed is accepted on a request that still recruits.
* *`Premoderated = 1`* (3 in the code): with `others` from 0 to 2 a request is below, at
  and above both thresholds, `<` on publication and `<=` on an edit. `jobs` has none, for premoderation
  is nothing to the jobs.
* *`Lead = 1`, `Duration = 0`, `AutoConfirmAfter = 0`, `ExpireAfterEnd = 1`, `RemindAfter = 0`*: before, at and after each
  deadline are different values of the two ages; the reminder comes before the expiry of work, and that
  strictly later than that of recruiting.
* *`RemindAfter = 1`, `Window = 2`* of `reviews`: the reminder period and the end of the window are apart.
* Counters of notices stop at 2, which stands for "more than once".
* Accounts are fixed where the property does not depend on them (`SteadyInit` of `jobs`, `edit_race` and, for
  the recipient, `departures`): trust only guards clicks. `jobs` has no home visits, which only add a guard to `accept`.
* *Two workers* are what `render.yaml:15` runs, and the least that overlap; two cron calls likewise.
  One failure (`MaxFailures`, `MaxFaults`) falls on any step of either.
* *Publishing*: with `MaxActive = 1` (10 in the code) and two workers, two requests and a creation under way are one
  more than the overrun `FewOverLimit` allows. With `Premoderated = 1` one of the two requests can be the published one
  that lets the other pass. Two forms (`MaxForms`) are an edit and one read before it ended. The email is confirmed.
* *Verification*: two codes for two uses each (`MaxUses`) are more than the two workers could spend on the
  one user at once; three records (`MaxRecords`) hold an application, a redeemed one and a revocation, or three redemptions,
  with `ReapplyAfter = 1`. Users share nothing but the codes' counts; any number of them is left to the proofs.
* *Reports*: three reports (`MaxReports`) of two reporters are a report, its duplicate, and one filed again after a decision.
* *Conversations*: `RateLimit = 1`, a rate window of 0, `NotifyEvery = 1` and three messages (`MaxMessages`) let both workers
  pass the limit together and a third message follow in the next window. Only the recipient has a phone number; the
  volunteer has the page open.
* *Accounts*: two spellings of one mailbox, one with a capital, are the only addresses over which two users can collide and
  which registration and the profile form tell apart differently. The second user is there to take an address: no page
  mails it a letter (`Quiet`, `MCAccounts!NoLetters`), which for one user is explored in full.
* *Demo*: fourteen names of worlds (`MaxWorlds`) are more than the rows and what the calls and the visitor hold of
  earlier worlds can name, so one is unused whenever a call seeds and the bound cuts nothing off; TLC evaluates
  that (`MCDemo!WorldsSuffice`).

### Fairness

* `JobsFairness` is weak fairness of the clock and of every call of the endpoint: the cron service calls the
  jobs again and again, and `run_periodic_tasks` lets no failing job stop the others. The failures are bounded.
  Nobody is assumed to click. `EveryRequestSettles` therefore exempts a recipient who disputes or moves the
  date for ever.
* `Reviews!Fairness` adds strong fairness of `PublishSave`: a worker may
  be killed any number of times but not at that very point for ever.
* `Demo!Fairness`: the day passes, every cron call runs, and a `seed_demo` that was started goes on; nobody has
  to visit or to start the command.

## Proofs

All theorems assume only the constants' named assumptions, which TLC evaluates
in the runs: finitely many people, requests, codes and workers, with names that
do not collide, and natural-number limits and deadlines. Three say more, as the code has it: at
least one volunteer is needed (`MaxNeeded > 0`) and one message allowed (`RateLimit > 0`), and work is
reminded of (`REMIND_AFTER_END`, 24 hours) no later than it expires (`EXPIRE_IN_PROGRESS_AFTER_END`, 7 days).
Every safety property of the runs but `PagesMatchServices` is the conclusion of a theorem.

`LifecycleProofs` proves the inductive invariant `Inv`, the conjunction of
`TypeOK`, `NoPendingLeftBehind`, `WorkHasTeam`, `AwaitingMeansAllDone` and
`OpenWasPublished`. The parts need each other: that a departing volunteer leaves
a sound request behind follows from the team being full or reopened
(`ReopenEffect`), which needs `needed >= 1` from the types and the reports of
work from `AwaitingMeansAllDone`; that confirming completes with a team needs
`WorkHasTeam`. `NoPendingLeftBehind` is what makes `ClosedIsFinal` true at all:
`reject` and `withdraw` do not look at the request's status, so a pending
response left on a closed request could still change. From `Inv` follow the action
properties `ClosedIsFinal`, `ResponseMoves`, `CompletedWithTeam`, and, action by
action, `LifecycleKeepsContract`: `Spec => Contract!Spec`.
`OnlyARestartSkipsConfirmation` is an argument about who left: `ReopenIfShort` asks
whether those who stay are done, unless the team has all it needs without them.
`PagesAreTrue` counts the items ahead of each (`FewAreAskedFirst`) and needs, beyond `Inv`, that a
completed request goes on having the team it was completed with (`HelpHadTeam`); what is ahead of the
help to be marked or confirmed is the three queues and the email, and nothing else.
`WhatIsServedWasOffered` is the half of `PagesMatchServices` that can be said of a step instead of with `ENABLED`: whatever a service did for
its caller, the page had the button for, and the lists led a volunteer to it.

`Inv` is not what holds beside the edit view: a stale save can put a published text back to a draft with
people waiting. The actions are therefore first shown to keep `Sound`, the types and `RaceWorkIsSound`, and only
then the rest. `RaceStaysSound` adds the save: it brings back a status in which editing is allowed, and
in none of those is there work to go wrong. `OnlyAStaleFormReopens` follows action by action.

`JobsImplementLifecycle` (`JobsSpec => Spec`) shows that calls do only what `Lifecycle` lets somebody do, so that `Inv` and the
contract hold there too (`JobsKeepContract`). `JobsInv` is what the two properties of the calls need: while no call was
killed and no two overlapped, only one of them is reminding and whoever was told is about to be marked (`OnePass`), and a
call that nobody has disturbed knows of the request, by the job it has come to, that the jobs before
find nothing more to do (`Undisturbed`).

`ReviewsProofs` proves that `ExchangeInv` is inductive. `BlindUntilExchanged`
alone is not: what a commit or a job publishes was decided when it looked, so the
invariant adds that a submission going to publish has found a written review
and that a publishing job has seen the window close. `ReviewsInv` adds four parts. `Handled`: what a submission or a job has in
hand is as it was when it looked. `Told`: what is announced is visible, which `EachAnnounced` needs to count to one. `Missed`: two submissions that do not
find each other have both looked before either committed, hence are `raced` (`OnlyARaceHides`). `OneRound`: calls
that do not overlap go through their lists one at a time and mark whom they reminded (`NudgedOnce`).
`ReviewsKeepExchange` then maps every step: a commit that publishes is `Exchange`, since `Handled` says the other review is still
written (and shown only if the window closed meanwhile), a job's step is `Show`, since it saw the window close. `VisibleTogether` uses
the contract alone: its steps keep the two sides of a pair equally visible until the window is over.

`VerificationProofs` proves `VInv`. A revocation reads the latest approved record
and writes it without a lock, so `RevokeHolds` says that in between the record is
still there and still approved, revoked by somebody else, or erased with the account. From that every step is
one of `BadgeContract` or leaves badges, rulings and codes as they are (`Moves`), which `VerificationKeepsBadges` concludes; the
records of other users and the earlier ones of the same user must be shown to keep their ruling when one is added or
decided (`RuledOnNew`, `RuledOnOne`). `UsesAccounted` is shown by counting:
redeeming adds one record of the code and one use (`Grant`), every other step, an erasure too,
leaves what records were granted by. That a user spends no more uses than there are workers needs `BadgeCounts`: the
uses since the badge was last missing, and the requests that loaded the user without it, are together no more than the workers.

`PublishingProofs` proves two invariants. `PubInv`: `publish` counts the published
requests and commits later, and a form writes back a status and a text it has read. `WorkHolds` says of both that what was
read is still good: what `publish` decided, because requests that went live stay among those that did
(`live`, which no stale save takes back as it does `published_at`); and what a form holds that was open when it was read,
because its text had been reviewed, had slipped, or was `waiting` for an `after_edit`, which is what `EditSave` then notes.
`DraftsUncounted` adds that the count
did not include the draft itself. `LimitInv`: a creation that passed the check occupies a worker until
it is saved, so the unfinished requests that were not `returned` and the creations under way together stay below
`MaxActive + Cardinality(Workers)`. `LockHolds` (one `publish` per draft) adds that
publishing only moves a request already counted as unfinished.

`AccountsProofs` proves `AccountsInv`. Copies of rows travel through pages, so the invariant says of every
copy, and of every address a page is about to confirm or to mail, what `ConfirmedWasProven` says of the row: it is
vouched for by an opened link or is in `unseen`. Both only grow, which is what lets an old copy be written back.
`SaidSentIsSent` needs that a key in a worker's cache stands for a letter that went out or for a failed one
(`KeysHold`, `KeysMeanLetters`); `OnlyAStalePageUndoes` is shown page by page, from the types alone.

`DemoProofs` proves `DemoInv`: what is there besides put-back accounts is one world, complete. Wiping
takes rows by the keys it collected, which either are those of the whole world or of none of it; seeding inserts
nothing unless every name is free. The same two cases give `DemoKeepsWorlds`: a wipe is `Wipe` or, between two worlds, `Sweep`
(`DeleteKeeps`), and a form can insert a row only when no account is there as it was seeded (`BetweenOrWithin`).

`ReportsProofs` proves `ReportsInv`. What `ResolvedMeansMeasured` says of a closed report has to hold before
it is closed, so `WorkHolds` says of every worker that it has taken all steps of the measure before the one it
is at (`StepsBehind`), and the whole measure, or found the object gone, when it closes as resolved (`ClosesMeasured`).
Steps are only ever added. `NoneLeftBehind` is inductive beside it, since a
report is filed as the latest one. `ReportsKeepDesk` maps the steps: `CloseSave` and `CloseDuplicates` rule as resolved only behind `ClosesMeasured`, which is the
contract's guard, and of the steps of the measure only the one that completes it is seen (`MeasureKeeps`).

The theorems about `Departures` rest on those about `Lifecycle`: the request keeps `Inv` and its contract while accounts
change beside it (`RequestStaysSound`, `DeparturesKeepContract`). `VisitNeedsVerified` and `NobodyWaitsForTheGone` speak of open requests; what makes them inductive is what
becomes of a response while the request is not open: nobody has answered a draft, and whoever is on a request that is being
moderated or was rejected has been kept there by an edit, which `around` noted (`KeptIsNoted`). One lemma (`StaysSafe`) then covers every step:
whoever is on the request afterwards was on it before with the same format (`Follows`), and the handler that is
responsible is still on its way or has found nothing open (`Watched`).

`ConversationsProofs` proves `ConversationInv`, a part for each of the things a message takes out of its transaction.
`Tidy`: ids and stamps are drawn once each, so that each tells messages apart. `Counted`: whoever is sending
has passed the checks and is a worker, so the recent messages of a side and its sends under way together stay below
`RateLimit + Cardinality(Workers)`, and likewise for numbers and for messages after the end; `OverrunsAreOverlaps` follows.
`LoadedHolds`: the `notified_at` a view has loaded is wrong in one way only, by a notice sent since, which is what
`EveryMessageNoticed` allows it to rely on. `Shows`: an id still to be committed has been overtaken by every higher one
that is (`OvertakenNoted`), and what an answer on its way leaves out below its last id was overtaken (`PageHolds`); together they
are what makes `NothingSkipped` inductive. `MarkHolds`: whatever was stamped up to a reader's mark, committed or not, was shown, is in an
answer on its way, or is in `missed`; `UnshownIsUnread` follows.

Only model-checked: liveness (`EveryRequestSettles`, `EveryReviewShows`, `DailyWorld`), since fairness is out of the prover's
reach, and for the same reason the other half of `PagesMatchServices`, that no button is refused (`OfferedIsAccepted`), which
speaks of `ENABLED`.

## Not modelled

* Notifications: the list and its read flags, the preferences, and the rows other than the counted ones, which
  commit with the step they report.
* Accounts: login, logout and the password reset (Django's own views), and the recipient's and volunteer's
  profile rows, which decide nothing.
* Conversations: the pages of the archive and of the moderator, and hiding a message: `visible_messages` leaves hidden rows out
  of what is listed (`conversations/services.py:120`); hiding moves no id, mark or notice, and `last_message_at` still counts the message.
* The Django admin's forms, which edit any column of a row and bypass the service layer by design, but for
  what the user form does to an address, its confirmation and the badge, and the bulk actions on users.
* Who is *near* a request (floating-point geography), text search and filters, the map and the statistics: read-only queries.
* Templates, styles, scripts and settings, but for the conditions of `request_detail.html` and the polling of `chat.js`.

## Plan

Every component with state of its own is modelled, every safety property that can be is proved, and five
abstract specifications are implemented: `HelpContract`, `BlindExchange`, `BadgeContract`, `ReportDesk` and `WholeWorlds`. What
would come next is a contract for `Conversations` (a message is shown once, in the order it was sent, or noted as overtaken), and
the notification preferences, once more than the mail of `Accounts` depends on them.
