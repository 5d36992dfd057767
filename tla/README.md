# A verification development for Chamneul

Chamneul is a Django REST service over PostgreSQL: users write concerns,
administrators assign advisors to them, advisors write advices, administrators
review these, and the authors give feedback. The specifications here model its
service layer at the level where it can go wrong: several gunicorn workers run
requests at once, each a handful of database accesses in autocommit or in a
short transaction with row locks (READ COMMITTED, no `ATOMIC_REQUESTS`).

## 1. Inventory

| Component | State | Operations that change it | Interacts with | What is hard |
|---|---|---|---|---|
| concerns (`concerns/`) | `Concern` (status, `deleted_at`, text), `Assignment` | #16 create, #47 edit, #19 withdraw, #24 assign, #25 unassign; bulk close / withdraw / restore in the administration site | notifications (#24), advice (#33 writes `concern.status`), roles (#24 checks ADVISOR) | status and assignments are read-modify-writes of different requests; #19 and the site take no lock beforehand |
| advice (`advice/`) | `Advice`, `AdviceHistory` | #28 write, #29 edit, #30 withdraw, #33 review | concerns, notifications | two row locks; decision on a version read earlier; unlocked check in #28 |
| feedback (`advice/`) | `Feedback` | #34 create, #38 transition | advice, concerns | #38 takes no lock |
| applications (`advisors/`) | `AdvisorApplication` | #11 apply, #15 review | roles, notifications | check-then-insert; grant and review lock different rows |
| roles (`accounts/`) | `UserRole`, `RoleGrant`, `User.active_role` | #10 switch, #42 grant, #43 revoke | every permission check | last-administrator guard, lock order, audit trail |
| user rows (`accounts/`) | `User` | #2, #8, administration site; `User.save` | sessions, roles | stale full saves |
| sessions and credentials (`accounts/`) | session rows, password hash, `GoogleIdentity` | #3, #4, #6, #45, #46 | Google, mail | single use of a reset link, purge against login |
| notifications (`notifications/`) | `Notification` | created by #15, #24, #33; #41 read | all | exactly one per event; first `read_at` kept |
| administration site | all of the above | change forms, bulk actions | all | a change form saves a stale row whole |
| serializers, pagination, settings | none | none | | one request at a time |

The properties each part should have, and the lines where they are at risk,
are the `hazards` of `PROJECT.json`.

## 2. Modules

| Module | What it is |
|---|---|
| `ConcernLifecycle` | Abstract specification: what the API promises about concerns, every operation one indivisible step |
| `Concerns` | The concerns application at the level of requests, transactions and row locks; implements `ConcernLifecycle` |
| `ConcernsProofs` | Theorems about `Concerns`, for every value of its constants |
| `Advice` | The advice application on top of `Concerns` (it extends it), and the composition of the two |
| `Feedback` | Feedback on an approved advice, on top of `Advice` |
| `Visibility` | What advisors and administrators look up by state, as queries over the tables of `Advice`; adds no steps |
| `AdminForms` | The change forms of the site for a concern and an advice, on top of `Advice` |
| `AdvisorRole` | #24's check of the ADVISOR role next to its revocation, on top of `Concerns` |
| `Roles` | Abstract specification of roles: who holds and wears what, audited, one indivisible step per operation |
| `RoleTransactions` | #10, #42, #43 with their row locks and deadlocks; implements `Roles` |
| `Applications` | #11 and #15, on top of `RoleTransactions`: three operations change one role under different locks |
| `Accounts` | Passwords, sessions, reset links, Google identities, and the site's forms of a user |
| `Notifications` | #40 and #41 |
| `AdviceProofs`, `FeedbackProofs`, `VisibilityProofs` | Theorems about `Advice`, `Feedback` and `Visibility`, each on the proofs of the module it extends |
| `RoleProofs`, `ApplicationProofs` | Theorems about `RoleTransactions`, and about `Applications` on top of them |
| `AccountsProofs`, `NotificationProofs` | Theorems about `Accounts` and `Notifications` |
| `MC...` | Symmetry sets for TLC; each `.cfg` is one instance. `MCFeedback` puts `Feedback` and `Visibility` together |

Everywhere `holder` variables say which worker has `FOR UPDATE` on a row, and
`req` (`areq`, `freq`, `form`) which request a worker serves, with the copy of
the row (`seen`) the service keeps in memory. A gunicorn worker serves one
request at a time.

### State and actions of Concerns

`concern` and `assignment` are the tables; `announced` counts the
ASSIGNMENT_CREATED notifications per assignment.

| Request | Steps | Code |
|---|---|---|
| #16 | `CreateConcern` | `concerns/services.py:21` |
| #47 | `BeginEdit`, `LockForEdit`, `CommitEdit` | `:59` |
| #19 | `BeginDelete`, `WriteDeleted` | `:51`, `:88` |
| #24 | `BeginAssign`, `LockForAssign`, `CommitAssign` or `InsertConflict` | `:320` |
| #25 | `BeginUnassign`, `LockForUnassign`, `CommitUnassign` | `:395` |
| #33 (the concern's share) | `BeginReview`, `LockForReview`, `CommitReview` | `advice/services.py:281` |
| site | `CloseSelected`, `SoftDeleteSelected`, `RestoreSelected` | `concerns/admin.py:25` |
| any | `Abort` | worker killed, database error |

A transaction is two steps. Until it commits nobody sees its writes, and it
reads nothing another session may change without the lock, so cutting it
further adds no behaviour. A refusal is part of the step that takes the lock
(`LockIf`): it rolls back and the worker is free. The text of a concern is one
value (`Texts`): #47 writes only the fields it was sent, under the lock, so a
partial edit is an edit to another text. A bulk action is one step per row.

### State and actions of Advice

`advice` and `history` are the tables, `told` the review notifications,
`adviceHolder` and `areq` locks and requests. `shown` is an auxiliary variable:
every version and body that a GET can have returned; #33's `expected_version`
and the body the administrator read come from it.

| Request | Steps | Code (`advice/services.py`) |
|---|---|---|
| #28 | `BeginCreate` (checks, no lock), `InsertAdvice` | `:55` |
| #29 | `BeginUpdate`, `LockForUpdate`, `CommitUpdate` | `:170` |
| #30 | `BeginWithdraw`, `LockForWithdraw`, `CommitWithdraw` | `:207` |
| #33 | `BeginDecide`, `LockForDecide`, `LockConcernForDecide`, `CommitDecide` | `:240` |
| any | `AbortAdvice` | |

`LockForDecide` starts the `review` request of `Concerns`, and `CommitDecide`
commits both. The four body fields are one value (`Bodies`). The foreign keys
are deferred constraints that lock the parent row when the INSERT commits:
that is why `InsertAdvice` waits for a concern row somebody holds.

### State and actions of Feedback, Visibility, AdminForms, AdvisorRole

`feedback` is the table (OneToOne with the advice). None of its operations
locks or opens a transaction, so each is a read with its checks, and a write.

| Request | Steps | Code (`advice/`) |
|---|---|---|
| #34 | `BeginGive`, `InsertFeedback` | `services.py:351` |
| #38 | `BeginMove`, `WriteMove` | `services.py:418` |
| memo form of the site (`FeedbackSiteSpec`) | `OpenMemo`, `SaveMemo` | `admin.py:68` |
| any | `AbortFeedback` | |

`Visibility` has one operator per list or detail of the advisors and the
administrators (#20, #21, #22, #32), each with the filter that its own code
writes out, and `Acceptable`, the advices #33 would take. `AdminForms` has a read
(`OpenConcernForm`, `OpenAdviceForm`) and a save of the whole row
(`SaveConcernForm`, `SaveAdviceForm`): a ModelAdmin leaves read-only fields out
of the form, not out of the UPDATE. `AdvisorRole` constrains the start of #24 by
the roles held at that moment, and has `Grant` and `Revoke` as single steps.

### State and actions of Roles and RoleTransactions

`holds`, `worn`, `active` and `audit` are the UserRole rows, `active_role`,
`is_active` and the RoleGrant rows; `order` is the key order of the ADMIN rows,
in which the counting query of #43 locks them.

| Request | Steps | Code (`accounts/services.py`) |
|---|---|---|
| #10 | `BeginSwitch`, `LockForSwitch`, `CommitSwitch` | `:69` |
| #42 | `BeginChange`, `LockForGrant`, `InsertRole`, `CommitGrant` | `:205` |
| #43 | `BeginChange`, `LockForRevoke`, then for ADMIN `StartCounting` and per administrator `CountedRole`, `CountedUser`; `RefuseRevoke` or `CommitRevoke` | `:244` |
| site | `SiteSetActive`, `SiteSetWorn` | `accounts/admin.py:20` |
| PostgreSQL | `DeadlockAbort`: a session on a cycle of waits is rolled back | |
| any | `Abort` | |

A bare `select_for_update()` over a join locks the rows of both tables, and a
deferred foreign key locks its parent row `FOR KEY SHARE` when the transaction
commits. Both are in the model, and both matter: they are why the counting query
deadlocks, and why #42 and #43 wait for the actor's row at the end. The shared
locks themselves are taken and given back within the committing step.

### State and actions of Applications

`application` is the table, `told` counts the notifications per application and
decision that sent them (`NoticeOf` is their type: approved, or else rejected),
`appHolder` and `areq` locks and requests.

| Request | Steps | Code (`advisors/services.py`) |
|---|---|---|
| #11 | `BeginApply`, `CheckBlocking`, `InsertApplication` (three statements, no transaction) | `:36` |
| #15 | `BeginDecide`, `LockForDecide`; for an approval `FindRole`, `CreateRole` (`get_or_create`); `CommitApproval` or `CommitOther` | `:64` |
| PostgreSQL | `AppDeadlockAbort`, over the waits of both modules | |
| any | `AbortApplication` | |

### State and actions of Accounts

An account is known by its canonical email. A password is the n-th of its
account, with where it came from; `login` stands for `last_login` to the second,
so a second login may leave it as it is. A session carries the hash it was opened
with (`Usable` is what django.contrib.auth accepts), and a reset link what its
token was derived from.

| Request | Steps | Code |
|---|---|---|
| #2 | `BeginSignup`, `InsertUser`, then a login | `accounts/services.py`, `views.py` |
| #3 | `BeginLogin`, `StampLogin`, `SaveSession` | `views.py` |
| #4 | `Logout` | `views.py` |
| #6 | `BeginGoogle`, `LockForLink`, `CommitLink` or `CreateWithNickname`, then a login | `services.py:155` |
| #45 | `RequestPasswordReset` | `services.py:337` |
| #46 | `BeginConfirm`, `LockForConfirm`, `CommitConfirm` | `services.py:390` |
| #8 | `BeginProfile`, `LockForProfile`, `CommitProfile` | `services.py:98` |
| site | `BeginForm`, `SaveForm` (through the guard of `User.save`), `SiteSetPassword`, `Unlink` | `models.py:101`, `admin.py` |
| any | `Abort` | |

### State and actions of Notifications

`notice` is the table, `clock` the time, `told` what #40 and #41 have answered.
`Insert` stands for the transactions of the other modules, `Get` is #40,
`BeginRead`, `LockForRead`, `CommitRead` are #41; `Tick` and `Abort`.

## 3. Runs

| Run | Instance | Checks |
|---|---|---|
| `concerns` | 2 concerns, 2 assignment keys, 2 advisors, 2 texts, 2 workers (167k states) | `TypeOK`, the inductive `IInv`, `StatusMatchesAssignments`, `AnnouncedOnce`; `TextFrozenOnceAssigned`, `StatusFollowsEdges`, `DeletedIsFrozen`; refinement `LifecycleSpec` |
| `advice` | 1 concern, 1 advice, 2 bodies, versions 1 to 3, 2 assignment keys, 2 texts, 2 administrators, 2 workers (126k) | `FeedbackTypeOK` (with all of `Advice` and `Concerns`), `HistoryComplete`, `FeedbackUnderApproval`, `ReviewRecorded`; `DecidedAsRead`, `DecisionFinal`, `TextUnderAdviceStays`; refinement `ConcernsSpec` |
| `advice_two` | 2 advices of 2 advisors on 1 concern, 2 assignment keys, 2 versions, 2 workers (592k) | `AnsweredHasApproval`, `NoticePerDecision`, `AdviceUnderAssignment`, `QueueIsTheWork`, `LookupsFindOne`; `ApprovalAnswersAssigned` |
| `advice_live` | 1 advice, 2 versions, 2 workers, fairness, no symmetry (9k) | `AdviceRequestsFinish`: a worker that serves any request of the two applications becomes free |
| `roles` | 2 users who grant and revoke ADMIN, one of them frozen and dressed by the site, 2 workers, fairness, no symmetry (52k) | `AuditTellsHolding`; `RevocationLeavesAnAdmin`; refinement `RolesPromise`; `RequestsFinish` |
| `applications` | 2 users, 1 application, ADVISOR granted and revoked, the site as above, 2 workers (767k) | `AppTypeOK` (with `RoleTransactions`), `NoticesFollowDecisions`, `HeldRoleIsAudited`; `DecisionStands`, `OnlyTheSiteMisdresses`; refinement `RolesPromiseWithApprovals` |
| `applications_live` | 1 user, 1 application, 2 workers, fairness (5k) | `AppRequestsFinish` |
| `accounts` | 1 email, 2 Google accounts, 1 session, 2 workers, up to 4 passwords, `last_login` up to 2 (847k) | `LinkShutsSignupOut`; `PasswordNeverReturns`, `LinkIsForOneUse`, `FrozenIsLeftAlone` |
| `notifications` | 2 notifications, 2 users, 3 workers, 3 times (3k) | `OneFirstReading` |
| `rejection_notice`, `one_in_progress`, `concern_form` | smaller instances | statements of the documents and comments that are not so (section 6) |

What the passing runs show. `concerns`, `advice` and `advice_two`: however
requests, withdrawals, bulk actions and killed workers interleave, a concern's
status follows from its assignments and reviews, a decision falls on exactly
what the administrator read and is never taken back, every version of an advice
is kept, notices are neither lost nor doubled, an approval answers an open concern
exactly if somebody is assigned at that moment, advices are only by advisors the
concern was given to, feedback stands on approvals only, the review queue lists
what can be reviewed, and what is looked up as one row is one. `roles` and
`applications`: the last active administrator cannot be revoked, nobody but the
site can make a user wear a role not held, the audit trail tells who holds
ADMIN, and two reviewers never overwrite each other. `accounts`: linking a
Google identity shuts out whoever signed the address up, including the logins,
profile edits and forms under way; a link works once; an old password never
returns. `notifications`: the first reading is the only one, for everybody who
asked.

Bounds. Key sets bound how many rows are made (`ConcernIds`, `AssignmentIds`,
`AdviceIds`, `AppIds`, `Names`, `Ids`, `Sessions`); `MaxVersion`: no edit starts
that could take an advice past it; `MaxEvents`: a role with so many audit rows is
not changed again (requests under way may add theirs); `ChangedRoles` and
`SiteUsers`: the roles #42 and #43 are asked for, the accounts the site edits;
`MaxPasswords`, `MaxLogins`: no request starts that could take the number of an
account's passwords, or its `last_login`, past them; `MaxTime`: the clock stops.
Two workers are enough for every pair of requests to interleave; two assignment
keys for a second advisor or a repeated assignment; two versions for a stale
decision and three for a history of several entries; two advices for two reviews
that meet on one concern, or for one written after another was withdrawn; two
administrators for the last-administrator guard and its deadlocks; notices are
counted, so one application shows a doubled one. In `accounts` one email is
enough, because requests of different accounts meet only in an identity
(`google_sub`), and there are two of these; four passwords allow sign-up, link,
reset and a fourth. Keys, advisors, workers, texts, bodies, names and
administrators are interchangeable, users as far as `SiteUsers` and `Superusers`
do not tell them apart, so symmetry is sound for the safety runs; runs with a
liveness property do without it. Deadlock is checked in every run.

Fairness. A step that needs nobody's lock is weakly fair: between its lock and
its commit a service waits for nothing. A step that needs a row lock is strongly
fair: the row is taken and released again and again, and PostgreSQL queues the
sessions waiting for it. `DeadlockAbort` is weakly fair: `deadlock_timeout` is
finite. Nothing is assumed of users, administrators, the site or `Abort`.

Seeded defects. Next to a definition stands, where it helps, a variant with a
plausible mistake (a lock left out, a check dropped); every property is
violated by at least one of them under its own run. They are used nowhere in
the specifications.

The inductive invariants behind the proofs (section 4) have configurations of
their own, in which TLC checks them with the type invariant and finds no error:
`MCAdviceInductive`, `MCFeedbackInductive`, `MCRolesInductive` (352k states),
`MCApplicationsInductive` (1.2M), `MCAccountsInductive` (847k),
`MCNotificationsInductive`; `IInv` is part of run `concerns`.

Further configurations, each refuted by TLC in seconds, belong to section 6:
`MCAdviceLate`, `MCApplicationsRole`, `MCRolesGrantLocks`, `MCRolesRevokeLocks`,
`MCFeedbackForward`, `MCFeedbackMemo`, `MCAdminFormsAdvice`,
`MCVisibilityWithdrawn`, `MCAdvisorRole`.

## 4. Proofs

Every invariant, action property and refinement of the passing runs is proved,
for every value of the constants. `PROJECT.json` names the theorem of each.

| Module | Theorems |
|---|---|
| `ConcernsProofs` | `TypeCorrect`, `Invariance`; `StatusAgrees`, `AnnouncementsExact`, `TextFrozen`, `EdgesOnly`, `DeletedFrozen`; `Refinement`: `Spec => LifecycleSpec` |
| `AdviceProofs` | `AdviceTypeCorrect`, `AdviceInvariance`; `AnsweredIsApproved`, `HistoryIsComplete`, `NoticesExact`, `DecisionAsRead`, `DecisionStays`, `TextUnderAdviceFrozen`, `WritersWereAssigned`, `ApprovalsAnswerAssigned`; `AdviceRefinesConcerns`: `AdviceSpec => Spec` |
| `FeedbackProofs` | `FeedbackTypeCorrect`, `FeedbackInvariance`; `FeedbackIsUnderApproval`, `ReviewIsRecorded`; `FeedbackRefinesAdvice`: `FeedbackSpec => AdviceSpec`, and what that carries over: `FeedbackKeepsAdvice`, `FeedbackKeepsLifecycle` |
| `VisibilityProofs` | `QueueIsExact`, `LookupsAreUnique` |
| `RoleProofs` | `RoleTypeCorrect`, `RoleInvariance`; `GrantsAreNew`, `AuditIsTrue`, `AnAdminRemains`, `SwitchesDressRight`; `TransactionsKeepPromise`: `Spec => RolesPromise` |
| `ApplicationProofs` | `AppTypeCorrect`, `AppInvariance`; `NoticesAreDecisions`, `DecisionsStand`, `HeldIsAudited`, `ApprovalsDressRight`, `ApprovalsAreNew`, `GrantsStayNew`; `ApprovalsKeepPromise`: `AppSpec => RolesPromiseWithApprovals` |
| `AccountsProofs` | `AccountsInvariance`; `SignupIsShutOut`, `PasswordsGoForward`, `ResetsAreCurrent`, `FrozenStaysOut` |
| `NotificationProofs` | `ReadingInvariance`; `FirstReadingStands` |

### Assumptions

All of them are the named `ASSUME`s of the modules that declare the constants,
and TLC evaluates them in the runs. The marker `None` is no row, request, worker
or status (`NoneAssumption`, `AdviceAssumption`, `FeedbackAssumption`,
`ApplicationsAssumption`, `AccountsAssumption`): `NULL` is not a value. The bounds
are numbers (`MaxVersionAssumption`, `MaxTimeAssumption`, `MaxEvents`,
`MaxPasswords`, `MaxLogins`), so a theorem holds however late they stop the
model. `RolesAssumption` adds that there are finitely many accounts, because
`order` lists the administrators among them, and that
`ChangedRoles`, `SiteUsers` and `Superusers` are what they are called. Nothing is
assumed of the number of workers, rows or texts; fairness is not used.

### The argument

None of the properties is inductive: each is about tables that a transaction
writes from a copy, or after a check, made earlier. Each module therefore has
an inductive invariant that says why copies and checks are still good, and
three facts are proved of it: it holds at the start, every step keeps it (one
lemma per action), and it implies the property or lets the action be matched
with the abstract one. Every invariant is about one worker at a time, so most
of the work is one lemma per module, that a step of one worker leaves alone what
the others hold (`OthersStay`, `StepOfOne`, `AppStepOfOne`): a lock is granted
only if it is free, and a row is written only by its holder or while it is free.

- `IInv` (Concerns). `LockTableOK`: the holder of a row is exactly the one
  transaction working on it. `ChecksStillHold`: its copy of the status and every
  check made when the lock was granted are still true. `KeysReserved`: a key
  drawn for an assignment is in use nowhere else. `AssignmentsOfRows`: no
  assignment without its concern. `ActiveUnique`: the partial unique index,
  which the refinement needs so that taking an assignment back takes the
  advisor off the concern. #19 is the reason `WriteDeleted` must wait for the
  row: without that, `ChecksStillHold` fails.
- `AdviceIInv`. `AdviceLocksOK`, `CopiesCurrent`: the same for the row of an
  advice. `ReviewsAreDecisions`: a review request of `Concerns` runs exactly when
  a decision holds its advice, with the same outcome; this is what makes the two
  row locks of #33 one transaction. `AdviceKeysReserved`, `AdviceUnderAssignment`
  (whoever has an advice on a concern, or one on its way, has an assignment row
  there, so its text is frozen; rows are ended, never deleted, which is why #28's
  unlocked check is enough for this), `OneLiveAdvice` (the partial unique index).
  `ReviewedRows`: what is decided has a reviewer and what may be decided has
  none. `HistoryOfRows`: histories are finite, start empty, and versions start at
  1.
- `FeedbackIInv`. `GivesUnderApproval`, `MovesOfGiven`: what #34 and #38 checked,
  without a lock, is still so at the write. That is true only because approvals
  and feedback rows are for good (`DecisionStays`).
- `NeverReviewing` (Visibility). The queue lists PENDING, #33 also takes
  REVIEWING; the two agree because no step sets it.
- `RoleIInv`. `StagesOK` and `RoleLocksHeld`: which locks a request has at which
  stage. `SwitchReadsTrue`: the role that #10 found is still held. `CountedStay`:
  every user that #43 has counted is an active administrator, and the session
  holds both rows of that user, so nobody else's commit can take one of them
  away; when #43 commits, a counted user other than its own remains, which is
  `RevocationLeavesAnAdmin` for any number of concurrent revocations.
  `GrantMeetsNoDuplicate`: between its check and its insert a grant holds the User
  row, so the role is still missing.
- `AppIInv` is `RoleIInv` with `ServesOne` (a worker is in one application's request
  at a time), `KeysOfTheirOwn`, `DecisionsLocked` (a decision past its lock holds the
  application, which may still be decided that way) and `NoticesFollowDecisions`.
  `RoleIInv` has to be shown again, because an approval inserts a role without
  the User row that #42 and #43 lock. Two things keep it. `ApprovalsAreNew`: an
  approval that inserts holds its place in the unique index until it commits, so
  no grant and no other approval gets there first. `GrantsStayNew`: a grant holds
  the User row of the applicant, and the deferred foreign key of the approval has
  to wait for that row; so the role does not appear between the grant's check and
  its insert.
- `AccountsIInv`. `RowsOfAccounts`: sessions, identities, links and requests refer to
  accounts that exist. `PasswordsKnown`: the password a session or a login carries
  is the current one or outdated for good, as the numbers only grow.
  `LockedReadsTrue`: what #6 and #46 read under the lock is still so.
  `LinkedLeftSignup`: an account with an identity does not have the password of
  its sign-up; with `PasswordsKnown`, no session and no login under way has it
  as the current one either, which is `LinkShutsSignupOut`.
- `ReadingIInv`. `ReadRowsTimed`, `CopiesCurrent`, `AnswersOfRows`: what has been
  answered about a notification is what its row says.

### Refinements

`FeedbackSpec => AdviceSpec => Spec => LifecycleSpec`: each application takes
only steps of the one below or leaves its variables alone. In `Refinement` a
commit is the abstract step, with its guard supplied by `ChecksStillHold`; all
other steps stutter. `FeedbackKeepsLifecycle` is the whole chain.
`TransactionsKeepPromise` does the same for roles: the commit of #10, #42 and #43 is
`Switch`, `Grant` and `Revoke` of `Roles`, and begins, locks, aborts and deadlocks
stutter. The guard of `Revoke` (another active administrator remains) comes from
`CountedStay`. With approvals there is one more step: an approval that found the
role adds a GRANT row to the trail and changes no role (section 6, second list);
`ApprovalsKeepPromise` says that such a row comes only from an approval that did
not insert the role, once, in the step that makes the application APPROVED.

### Only model-checked, and why

Liveness (`RequestsFinish`, `AdviceRequestsFinish`, `AppRequestsFinish`): it needs
fairness and ENABLED, which the prover does not handle. `AdminForms` and
`AdvisorRole` are there to refute statements of the comments and state no property
that holds. What recursive definitions compute cannot be proved, as induction
theorems take an operator; the models are written without recursion where a
theorem reaches them. So what the counting query of #43 finds is the sequence of
administrators that is in key order (`Found`), and a deleted row is taken out of
`order` position by position (`RowsWithout`), neither of them by a recursive filter.

## 5. Plan

Done: every module of section 2, and the theorems of section 4. Left:

1. What still holds where a statement of section 6 does not: how far the forms of
   the site can take a concern or an advice back, and what is true of an assignee
   who lost the role (`AdminForms`, `AdvisorRole`).
2. The form of an application (`advisors/admin.py:16`), as a further part of
   `AdminForms`.

## 6. Where documents and code part

Listed findings, each with its run:

- `RejectionNoticeIsTrue` (`rejection_notice`): `advisors/services.py:67` and
  `docs/api.md:479` send a notice for APPROVED and REJECTED. The `else` branch at
  line 129, commented `# REJECTED`, also runs when an application is taken up for
  review, and its applicant is told of a rejection. `NoticesFollowDecisions`, in
  run `applications`, is what holds: one notice of the approval or the rejection
  that stands.
- `OneInProgress` (`one_in_progress`): `advisors/services.py:4` says "one active
  application per user". #11 asks and inserts in separate statements with nothing
  between them: two requests under two names both insert.
- `FormKeepsToEdges` (`concern_form`): `concerns/admin.py:13` makes status read-only
  so that no edge outside the state machine can be taken. The form saves every
  column of the row its POST read: saved after an assignment and an approval, it
  takes the concern from ANSWERED to SUBMITTED.

Further disagreements, each with a property that states the document and a
configuration that TLC refutes:

- `WrittenWhileAssigned` (`MCAdviceLate`): `docs/api.md:998` says that no advice can
  be written without an active assignment (#28). The check holds no lock, so the
  assignment can end before the insert. `AdviceUnderAssignment` is what holds.
- `ApprovalGrantsRole` (`MCApplicationsRole`): `advisors/services.py:5` rules out an
  approved advisor without the role. `get_or_create` does not lock the row it
  finds, and #43 can delete it before the approval commits; the trail then ends
  in a GRANT for a role not held. `HeldRoleIsAudited` is the direction that holds.
- `GrantNeverDeadlocksRevoke` (`MCRolesGrantLocks`), `RevokesNeverDeadlock`
  (`MCRolesRevokeLocks`): `accounts/services.py:216` and `:261` say that a grant and
  a revocation, and two revocations, never deadlock. They do, on the actor's row
  (a deferred foreign key) and on the User rows the counting query locks. One
  request ends in a 500; `RequestsFinish` and `RevocationLeavesAnAdmin` say that
  nothing worse happens.
- `FeedbackMovesForward` (`MCFeedbackForward`): `advice/services.py:421` says "never
  backwards". #38 reads, checks and writes without a lock: two administrators who
  both read SUBMITTED can take an archived feedback back to REVIEWED.
- `OnlyReviewMovesFeedback` (`MCFeedbackMemo`), `BodyChangesKeepHistory`
  (`MCAdminFormsAdvice`): `advice/admin.py:74` and `:14` say that only #38 and #29
  change a feedback's status and an advice's body. The forms save a stale row
  whole, as above. The form of an application (`advisors/admin.py:16`) is built the
  same way.
- `OnlyAdminsSeeWithdrawn` (`MCVisibilityWithdrawn`): `concerns/services.py:244` says
  that only administrators see withdrawn concerns. #20 lists them to their
  advisors, and #21 then answers 404.
- `NewAssigneeIsAdvisor` (`MCAdvisorRole`): `concerns/services.py:331` refuses a user
  who is not an advisor. The check precedes the transaction and holds no lock; a
  revocation in between leaves an assignee without the role.

## 7. Not modelled

Serializers, pagination, taxonomy and error formats (a refused request changes
nothing); settings and deployment, beyond what section 2 takes from them. Lists
and details that filter nothing by state (#23, #31, #35 to #37, #39); those of
the authors (#17, #18, #26, #27), which show one's own concerns that are not
withdrawn and the approved advices on them; ordering, paging and text filters.
Nicknames and their candidates, profile columns, changes of an email on the site;
expiry of sessions and links (a refusal like any other), hash upgrades, the
exchange with Google, mail. Hard deletion on the site, and its form of an
application. `is_superuser` does not change. The role checks of #28 to #30 are
taken as given. An advice in REVIEWING: the status is in the type, and in the
guards that name it, but no code sets it. Timestamps and user columns
(`assigned_by`, `reviewed_by`) are left out where no property is about them. An
INSERT of #42 does not look for a duplicate: `GrantsAreNew` and `GrantsStayNew`
show that it meets none. Database transactions are atomic and constraints hold:
that is PostgreSQL's part.
