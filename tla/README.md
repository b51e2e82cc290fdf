# GoldWallah in TLA+

GoldWallah is a marketplace for used gold: verified sellers list gold, verified jewellers place private bids, a seller
accepts one of them, the jeweller pays the platform a commission, an admin settles it, and the seller closes the deal.
The backend is an Express application over PostgreSQL (`src/backend`), the frontend a React application
(`src/frontend`). All state that matters is in PostgreSQL; several backend processes may run, and every request is a
short sequence of SQL statements, most of them in one READ COMMITTED transaction. What is hard about this system is
what two such sequences do to each other, and that is what these modules model.

## Files

| module | what it is |
| --- | --- |
| `Sale` | abstract specification: the life of one listing's sale as one value |
| `Marketplace` | listings, private bids, deals, commissions, their settlement, blocking of users |
| `MarketplaceProofs` | TLAPS proofs about `Marketplace`: inductive invariant, safety, refinement of `Sale` |
| `UserSessions` | refresh-token sessions of an account, password reset and change, suspension, the connection pool |
| `Verification` | KYC and business verification: submission, review, and the status columns that the guards read |
| `VerificationProofs` | TLAPS proofs about `Verification`: inductive invariant, safety, nobody waits in a circle |
| `SignIn` | how accounts are made and signed in to: passwords and lockout, codes, social identities, proofs of phone and e-mail |
| `SignInProofs` | proofs about `SignIn`: one owner of each phone and address, claims of accounts backed, guesses bounded |
| `AdminAccounts` | administrators: second factor, recovery codes, sessions, sub-admins and their suspension |
| `AdminAccountsProofs` | proofs about `AdminAccounts`: recovery codes, secrets, suspension |
| `Browser` | the session in a browser: tabs with `AuthProvider` and `httpClient`, shared cookies, the session endpoints |
| `SessionProofs` | proofs about sessions on both sides: `UserSessions` (rotation, revocation, grace, waiting) and `Browser` (cookie, timer, loading, sign-out) |
| `Notifications` | a notification from its row over queue, worker and Redis to the server-sent streams of a process |
| `NotificationsProofs` | proofs about `Notifications`: the delivery, and the subscription of the process |
| `Uploads` | images beside their rows: storing, replacing, deleting, private links |
| `UploadsProofs` | proofs about `Uploads`: nothing shown is missing, nothing stored is left over |
| `Keyset` | the cursors of the API's lists: position, order, condition of the next page |
| `Pages` | the pages of the React application over the lists and records of the API; extends `Keyset` |
| `PagesProofs` | proofs about the operators of `Keyset` and about `Pages`: what a page shows, and that it stops loading |
| `...MC` | small instances of these for TLC: model values, symmetry sets, groups of operations |

A component's model and its proofs are separate modules. `Marketplace`, `UserSessions`, `Verification`, `SignIn`,
`AdminAccounts` and `Uploads` share the tables of one database but write different columns of it; where one needs
another's column it keeps an abstract copy (`Marketplace` an account's status, `UserSessions` the same,
`Browser` the set of live refresh tokens, `Pages` the statuses of rows).

## Inventory of the system

For each component: its state, its operations, how it meets the others, what is hard, and what makes it correct.

**Listings** (`modules/listings`). State: `gold_listings.status` (ACTIVE, BID_ACCEPTED, SOLD, CANCELLED) and the
terms. A seller creates, edits and cancels; edit and cancel are `UPDATE ... WHERE status = 'ACTIVE'`, and cancelling
also rejects the pending bids. Hard: an edit or a cancellation that runs while a bid is placed or accepted. Correct
if terms freeze once the listing leaves ACTIVE, and a closed listing never reopens.

**Private bids** (`modules/bids`). State: `private_bids.status`, with a partial unique index for one PENDING bid per
jeweller and listing. `placeBid`, `acceptSellerBid` (writes five tables), `rejectSellerBid`. Hard: each reads a
status first and locks later; accept and cancel lock bids and the listing in opposite orders. Correct if a listing
goes to one bid, decisions are final, and no bid is left pending on a closed listing (it can be: see *Further
counterexamples*).

**Deals** (`modules/deals`). `deals.status` goes COMMISSION_PENDING, READY_TO_SETTLE, COMPLETED. Created by an
acceptance, advanced by a settlement, completed by the seller, which sells the listing. Correct if bid, deal,
commission and listing always tell the same story.

**Commissions** (`modules/commissions`, `modules/adminCommissions`). `platform_commissions.status` and
`payment_attempt_count` (at most 5), and `users.commission_lock_status`. The jeweller submits a payment reference,
an admin marks it paid or waives it; the last settlement unlocks the jeweller. Hard: the unlock counts and then
writes, without holding anything in between (finding 1, and *Further counterexamples*).

**User sessions** (`modules/auth`, block and unblock in `modules/admin`). `refresh_tokens.revoked_at`,
`password_reset_tokens.consumed_at`, `users.password_hash`, `users.account_status`. Sign-in issues a session,
`refreshUserSession` rotates it with reuse detection and a grace period of 30 s, logout, logout everywhere, reset and
change of the password and a suspension revoke. Hard: revoking all sessions while others are being issued or rotated;
statements on the pool inside a transaction. Correct if rotated tokens are dead, revocation is total, a
revoked token has one grace period, and nobody waits for ever. (A session that a sign-in or rotation inserts while all
are being revoked outlives it: see *Further counterexamples*.)

**KYC and business verification** (`modules/kyc`, `modules/jewellerVerification`). Submissions (PENDING, APPROVED,
REJECTED), `users.kyc_status`, `users.business_verification_status`. Hard: lookups before inserts, two admins, the same
document in two accounts, `created_at` being the time a transaction began. Correct if the columns that the guards
(`middleware/verificationGuards.js`, `jewellerTransactionGuard.js`, `assertApprovedSeller`) read are backed by an
approved submission, a verdict is final, and no document is approved twice.

**Transactions and pool** (`config/db.js`). `withTransaction` runs BEGIN, the callback, COMMIT or ROLLBACK on one
client of the pool, and after the commit the tasks registered on it. Every module here is built on it.

**Sign-in codes and lockout** (`modules/auth`). `otp_codes` (attempts, consumed_at, a cooldown of 60 s),
`auth_login_attempts` (failed_count, locked_until), `user_oauth_accounts`, `email_verification_tokens`, and the
identifying columns of `users`. Registration and sign-in by password, phone code and social identity; proof of a phone
and of an address. Hard: read, compare and increment are separate statements; inside `withTransaction` the increment
is rolled back with the failure it counts; lookups before inserts. Correct if an account is backed by what proved it, a
phone and an address have one owner, and guessing is bounded.

**Admin accounts** (`modules/admin`, `scripts/bootstrapAdminMfa.js`). `admin_users`, `admin_sessions`,
`admin_mfa_recovery_codes`. Sign-in with password and TOTP or recovery code, rotation and reuse of refresh tokens,
sign-out, MFA enrolment in two requests, change of the password, creation and suspension of sub-admins. Hard: failures
recorded inside a transaction that is then rolled back, one recovery code in two requests, a secret that changes
between its check and its use, sign-ins that overlap a suspension. Correct if codes work once, the secret in force is
one its owner has, and a suspension holds.

**Notifications** (`modules/notifications`, `queues`, `server.js`). A row per notification, a BullMQ job after the
commit, a worker that publishes to Redis, and per process a hub of server-sent streams with one Redis subscription per
user who listens. Hard: a crash between commit and enqueue, a stream that opens while another one's subscribe is under
way, closes twice after a new one has opened, or is written to before its head is sent. Correct if the process is
subscribed exactly while somebody listens, a job finds its row, each job comes to its end, an open stream hears what is
published, and a suspension is the last thing that a stream says.

**Media and storage** (`modules/media`, `storage`, the upload middlewares and controllers). Files on disk or at
Cloudinary, named by random ids, and the rows that show them; signed links to private files. A request stores its files
one by one, then writes the rows; errors delete what was stored, a replacement deletes the old files after the commit.
Hard: a failure at each of these steps, replacements that overlap, a COMMIT whose answer is lost. Correct if nothing
that is shown is missing and nothing that is stored is left over.

**Geo matching and lists** (`modules/geoMatching`, users and audit events in `modules/admin`, `modules/auditLogs`).
No state; lists by nearness or by time, page by page with a cursor. Hard: distances that are NULL or equal, a
timestamp that loses its microseconds in the cursor. Correct if pages join without a gap or a repetition.

**Frontend session** (`services/httpClient.js`, `features/auth/context/AuthProvider.jsx`, `auth.controller.js`). In the
memory of each tab: access token, CSRF token, the promise of a CSRF fetch and of a session restore, a version number,
the refresh timer. Shared by the tabs: the refresh cookie and the CSRF cookie. Hard: answers that come after a sign-in
or a sign-out, two tabs that use one cookie, a token rotated although the answer is lost. Correct if the cookie is
never a dead token the browser could know of, a signed-in tab has its next refresh armed, a signed-out one stays out,
and the loading screen goes away.

**Frontend pages** (`features/*/pages`, `app`). Component state: rows, filter, loading flags, cursor, the user. Loads by
effects whose cleanup voids them, reloads by buttons and after actions that nothing voids. Hard: what arrives after the
filter or the path has changed. Correct if what is shown belongs to the filter, loading ends, and an action is about
what is on show.

**Transactions and pool** is described above; **guards** (`middleware`) judge the row that the request reads first.
**Dashboards, audit logs, security reports** only read (their pages are in `Pages`). **Not modelled**: forms, routing and
layout, environment parsing, migrations as a program (their CHECKs and unique indexes are in the models),
`services/cloudinaryStorage.js`, which nothing imports, and marking notifications as read, one UPDATE on which nothing
else depends. `PROJECT.json` lists every component with its reason.

## How a transaction is modelled

`Marketplace`, `UserSessions`, `Verification`, `SignIn` and `AdminAccounts` have the same frame. The table variables hold *committed* rows. `tx[r]` is the transaction of request
`r`: its operation `op`, its argument, the statement `pc` it executes next, and the `rows` (and unique-index keys) it
has written and keeps locked. Because nothing is published before COMMIT and a locked row can change only through its
holder, what a transaction has written need not be stored: its commit action computes it from `op`, the argument and
`rows`. A statement that writes is enabled when the rows it matches are free and evaluates its WHERE on the committed
rows at that moment, which is the re-check PostgreSQL makes after a row-lock wait. A plain SELECT is a step of its own
and sees committed rows, so whatever a handler read can be stale when it is used. Any open transaction may be rolled
back at any step (`Abort`: a lost connection, a crash, a violated constraint).

Choices that hold for these modules:

* The read of the user row by `authenticate`, and the guards that judge that row, are the request's first action.
* Inserts of rows with fresh random ids that nobody else can see (deal, commission, audit rows, notifications) are
  part of the commit. Foreign keys take KEY SHARE locks, which conflict with none of the locks here.
* In `Marketplace` an UPDATE of several rows claims them in one step, once all are free. PostgreSQL locks them one
  after another and waits with some in hand; that adds waits to a cycle, never a row to its result, because a row that
  starts to match during the wait is one that `NoOrphanBid` is about in any case. In `UserSessions` the snapshot such
  a statement works on decides the outcome and is a step of its own.
* `deals` has unique indexes on bid and listing. They are not guards of the model: `OneWinner` and `DealLedger` show
  that they never fire.
* Amounts, images, addresses and texts are left out; a CHECK on an amount, or the unique payment reference, that
  fails is an `Abort`. Values that no code writes (WITHDRAWN bids, FAILED and DISPUTED commissions) do not occur.

### Marketplace

`bid`, `listing`, `deal`, `commission`, `payments`, `lock`, `account` are the columns of the same meaning; `edits`
counts published edits. A bid is named by its jeweller, its listing and a number, as jeweller and listing never
change. The actions of a handler carry its name: `AcceptBid` (authenticate), `AcceptFindBid`, `AcceptTakeBid`,
`AcceptRejectOthers`, `AcceptTakeListing`, `AcceptLockJeweller`, `CommitAccept` for `acceptSellerBid`, and so on for
create, edit, cancel, place, reject, submit, settle (paid and waived) and complete. `Need(r)` is the set of rows that
the next statement of `r` writes; `WaitsFor` and `DeadlockVictim` are PostgreSQL's deadlock detector. Users are
verified: whether the verification columns can be trusted is `Verification`'s question.

`ImplementsSale`: under the mapping `SaleOf`, which reads the stage of a sale off the four tables, every step moves
each sale by one step of `Sale`'s life cycle or not at all.

### UserSessions

One account. `session[t]` is a token's row against the clock: active, expired, revoked within the grace period, or
longer ago. `parent` and `signedBy` are history variables (which token a rotation exchanged, which password the
session's owner last showed), used by properties only. Sign-in stands for every issue of a session after the user row
was read (password, OTP, OAuth, registration). Statements that a handler runs on the pool although it is inside
`withTransaction` (`recordFailure`, the revocations before a throw) need a second connection and do not see their own
transaction's locks as their own. A single UPDATE outside a transaction holds its connection only while it waits for a
row, and its holder never waits for a connection, so that time is not modelled. `Needs(r)` are the rows that the next
statement of `r` writes; each action that writes rows waits until they are `Granted`, and `WaitsFor` adds the second
connection, for `NobodyStuck`.

### Verification

`submission[t]` is a row by `created_at`. That column is `now()`, the time the transaction *began*, so a row can become
visible after one with a later `created_at`; the order of `Time` is that of BEGIN. KYC and business verification are
one pair of handlers with a `kind`. `docs` are the identity numbers that can collide (Aadhaar and PAN, GST and
licence). A pending submission of a user and an approved document are keys of partial unique indexes: an insert waits
for another insert, and for the review of the row it collides with, before it is refused or goes in. `Needs(r)` names
the rows and keys of the next statement, which waits until they are `Granted`.

### SignIn

An account is the columns of `users` that identify it; `code[c]` is a row of `otp_codes` in the order of `created_at`,
whose age says whether the cooldown and the lifetime have passed. Handlers are named as in `auth.service.js`
(`SendLoginOtp`, `VerifyRegisterOtp`, `LoginWithIdentity`, `VerifyEmail`, `LoginWithEmail`, ...); the steps after them
are the helper that runs (`FindOwner`, `CheckCooldown`, `FindOtp`, `ConsumeOtp`, `EnsureUnique`, `CreateUser`,
`LinkIdentity`, `ReadAttempt`, `RecordFailure`, ...). What the code runs on the pool (a sign-in's count of attempts and
use of a code, `recordLoginFailure`) is committed at once; what it runs in its transaction becomes visible at `Commit`,
or never: a wrong answer to a registration code is counted and rolled back. Comparisons of hashes may go either way.
`guesses` counts failures since the last success or lapse of a lock, for `GuessesBounded`. `Offers` are the groups of
operations that one behaviour may combine: chosen in `Init`, they cut the product of unrelated operations, not the
interleavings of those that touch the same rows.

### AdminAccounts

`admin[a]` is a row of `admin_users`, `batch[b]` one set of recovery codes, looked at as one of its codes, `session[s]`
a refresh token. `tx[r].new` is the row that an UPDATE of `admin_users` has written: these handlers compute the row from
what they read (`EnableMfa` writes back the secret it has seen), so here the written value is kept. A failed sign-in
runs to `throw`, and `Throw` publishes nothing: `withTransaction` rolls the counter and the lock back. `wrong` counts
those failures as the handler meant to. `Groups` plays the part of `Offers` as above.

### Browser

`tab[t]` is the state of `AuthProvider` and of the module variables of `httpClient` in one tab; `call[t][o]` a call under
way: it waits for the CSRF token, is sent with the cookies of that moment, answered, delivered. The Set-Cookie of an
answer takes effect when it is delivered. The server handles a call in one step, because what its statements do to
each other is `UserSessions`. `boot` and `timed` say who awaits `bootSessionRefreshPromise`, "outrun" when
`sessionVersionRef` has moved since. Tokens are numbers that are used again once nobody refers to them, so that a
behaviour may go on for ever in a finite state space. A first refusal of a CSRF token is retried once, as in
`executeApiRequest`.

### Notifications

One user and one process (rows, channels and the entries of the hub are by user). `job[n]` is a job's way through
BullMQ, `entry` the Set in `clientsByUserId`, `commands` what was sent to Redis and is not yet executed, `wire` what is
on its way back. A stream keeps the Set it has captured (`stream[s].set`): `Close` empties that Set and deletes the
user's entry whatever it holds by then, as the code does. `Connected` and `Deliver` model that an event may be written
before the head, after which `writeHead` throws. `Crash` loses the memory; `Exit` is the orderly stop of `server.js`,
which waits for open connections (`server.close`) and for the jobs at work (`closeNotificationWorker`), and not for a
handler whose client has hung up: its transaction is rolled back, or its announcement is lost. `JobFollowsCommit` says
that only the announcement is: whatever became of a job, its row is stored.

### Uploads

`req[r].known` are the files a request knows to be stored, `old` those its transaction replaces; `row[d]` a listing or a
submission with the files it shows; `link` the signed links that have not expired. With local storage multer has
written the files before the controller runs, with Cloudinary `uploadFileToStorage` stores one after the other. The
transaction is one writing step and a commit, which may fail, or succeed and be taken for a failure (`LoseCommit`).
`spoilt` collects what faults are answerable for, so the properties can say that nothing else is.

### Keyset and Pages

`Keyset` has the operators of the lists: `Position` and `MatchRank`, the orders `Newer` and `Nearer`, the cursors and the
conditions `PastStamp` and `PastPlace` on the next page. `StampCursor` loses the microseconds, as a JavaScript Date does.

`Pages` opens one page. `kind` says what it does: load by an effect of the filter or the path, reload by a button, ask for
more rows, act on a row, sign out on a 401, ask for the account first. 18 lists and records of the
application are such records, translated from their components, and one more follows the cursors of the lists by
nearness; `NotificationCenterPage` and the pages that are forms are not among them. Two pages with equal flags behave
alike and are one page to the model. `Effect` runs the cleanup, which voids the call of the last effect; reloads and actions are voided
by nothing. The server answers from the rows of that moment, others change rows (`Elsewhere`, `Move`), tokens are
renewed, calls fail. `seen.sure` holds the rows that have not changed since what is shown was read, and is empty when
calls have met that nothing orders: the properties are about what is then certain.

## Runs

| run | asks | result |
| --- | --- | --- |
| `marketplace_safety` | `TypeOK`, `OneWinner`, `DealLedger`, `OnePendingBid`, `DecisionsFinal`, `TermsFrozen`, `ImplementsSale` | hold |
| `marketplace_live` | `RequestsEnd` under `FairSpec`: every request ends | holds |
| `user_sessions` | `RotatedIsDead`, `RevocationIsTotal`, `GraceOnce`, `NobodyStuck` | hold |
| `verification` | `ApprovedIdentityUnique`, `PendingAgrees`, `GateSound`, `ReviewsFinal`, `NobodyStuck` | hold |
| `notifications` | `SubscribedExactly`, `JobFollowsCommit`, `CutOff`, and under `FairSpec` `Heard` and `DeliveriesEnd` | hold |
| `sign_in` | `AccountsBacked`, `OneOwner`, `GuessesBounded` | hold |
| `admin_accounts` | `CodesOnce`, `MfaProven`, `SuspensionHolds` | hold |
| `browser` | `CookieLive`, `RefreshScheduled`, `LoadingAwaits`, `StaysOut` | hold |
| `pages` | `Coherent`, `Seamless`, `OwnActionShown`, `Spinning`, `ActsOnShown` | hold |
| `uploads` | `NothingMissing`, `NothingLeft` | hold |
| `commission_lock_stuck` | `LockReleased`: who owes nothing is not locked | violated (finding 1) |
| `jeweller_bids` | `BidsShown`: the page of a jeweller's bids stops loading | violated (finding 2) |

Each property of a passing run is broken by a mutant of the code it is about (the operators marked MUTANT): a dropped
`AND status = 'ACTIVE'`, a lookup in place of a unique index, SKIP LOCKED, an off-by-one, a statement moved out of, or
into, the transaction, a job queued before the commit, an effect without its cleanup.

Several properties name the exception under which the code does not keep them, so that they hold of everything else:
`SubscribedExactly` and `Heard` except the process has been `spoilt` (a subscribe was refused while another client had
joined; a stream was closed by a suspension and again by its browser, which deletes the entry of streams opened since);
`RefreshScheduled` except a page's `setAuthUser` came during a timed refresh, which is then thrown away and nothing
arms the timer again; `CookieLive` except the browser was not told of a token's end; `Seamless` except rows of the
millisecond of a cursor; `NothingMissing` except rows whose COMMIT was taken for a failure, `NothingLeft` except files
that a fault left behind; `OwnActionShown`, `Coherent` and `ActsOnShown` except two calls
that nothing orders have met, a reload after an action whose filter has changed among them. `NobodyStuck` of
`UserSessions` speaks of the pool only while there are fewer requests than connections. Under `hazards` in `PROJECT.json`
what is excepted is not counted as caught: the note of a hazard says what no property catches and which configuration
below shows it.

### Findings

1. Two concurrent settlements of the last two commissions of a jeweller each count the other's as unpaid; the lock
   stays, and no request that exists clears it.
2. The effect that loads a jeweller's bids depends on the user that it sets: each answer of `auth/me` makes the load
   void and runs the effect again. For an approved account the page shows its loading screen for ever and keeps calling
   the API. (For an account that is not approved it runs in the same circle over an empty page.)

### Further counterexamples

These configurations are kept beside the runs. Each checks one property that a comment, a document or a test suggests,
and TLC finds it violated by what the code does:

| configuration (module) | property | what TLC shows |
| --- | --- | --- |
| `CommissionLockRace` (`MarketplaceMC`) | `LockCoversDebt` | `unlockJewellerIfClear` counts, an acceptance commits, the lock is cleared: the jeweller owes a commission and can bid |
| `OrphanBid` (`MarketplaceMC`) | `NoOrphanBid` | a bid committed after the acceptance rejected "the other pending bids" stays pending on a sold listing |
| `ResetRace` (`UserSessionsMC`) | `ResetEndsSessions` | a sign-in or rotation in flight inserts its session after the reset's UPDATE took its snapshot and outlives the reset |
| `Resubmit` (`VerificationMC`) | `RejectedMayResubmit` | of two overlapping submissions the one begun later is approved first, the other inserted and rejected: the user is REJECTED and each new submission is refused |
| `AdminLockout` (`AdminAccountsMC`) | `FailuresLock` | failed factors are counted inside the transaction that the refusal rolls back: an admin account is never locked by them |
| `CsrfRetry` (`BrowserMC`) | `RetryKeepsCookie` | the refusal of a CSRF token clears the refresh cookie, so the second try that `httpClient` makes has no cookie |

### Bounds

Two requests at a time in the database modules: every race above needs two, and for most of them the
proofs show that safety does not depend on the number. Instances:

* `Marketplace`: one listing, two jewellers, two bids each, one payment attempt and one edit for safety (the code's
  limit of five is the constant `MaxPayments`; one suffices to have a last one); two listings and one jeweller for the
  commission lock, which needs two debts. `Blockable` says whose accounts an admin touches; in the safety run,
  nobody's, in the liveness run the seller's.
* `UserSessions`: two refresh tokens, one reset token, one change of password. `PoolSize` is three for two requests. With
  as many nested requests as connections each holds one connection and waits for a second (`pg.Pool` has ten by default
  and waits without a timeout), so the last part of `NobodyStuck` asks for more connections than requests. The rest of
  it does not: connections are the only thing that requests can starve each other of.
* `Verification`: two users, two documents, three submissions.
* `SignIn`: two users and phones, one address, one social identity with that address, two codes, a limit of one wrong
  answer and two failures, one lapse. That is enough for a code that another one overtakes, an address that a
  registration and an identity both claim, a lock set, lost to a stale write and set again.
* `AdminAccounts`: the seeded super admin and one sub-admin, two sessions, two sets of codes, two secrets; `MfaRequired`
  is FALSE, so that accounts with and without a second factor occur. `MaxAttempts` is one, the smallest limit.
* `Browser`: two tabs, two calls at a time, one incident of each behaviour; `MaxId` is one more than tabs and their calls
  can refer to, so it bounds nothing. With one incident a behaviour is still unbounded in sign-ins, refreshes and
  sign-outs.
* `Notifications`: two notifications, one of them the suspension, two streams, two attempts (the code has eight), one
  stall, one fault. Two streams are enough to join, to leave and to be first again; three Sets can be named.
* `Uploads`: three requests (a creation and two replacements of it, or refusals between them), two files each, one link,
  one fault.
* `Pages`: three rows of which two are of one millisecond (`Tick` is two), pages of one row, two calls, two incidents; three
  places for the lists by nearness, one of them with an unknown distance.

`Attempt`, `MaxEdits`, `Token`, `MaxPassword`, `MaxTime`, `MaxCode`, `MaxLapses`, `Session`, `Batch`, `MaxKey`, `MaxCalls`,
`MaxIncidents`, `MaxFaults`, `MaxLinks` are bounds of the model: a request that would pass one gives up, which is a failure
that the code can also have at any time, or what it counts does not happen any more. Symmetry is used in safety runs
only.

`CHECK_DEADLOCK FALSE` in all runs but `browser`: with all bids decided, tokens issued or requests answered nothing more
has to happen, and "no request is stuck" is checked as a property of its own. A browser always has something to do.

### Fairness

`Marketplace`'s `FairSpec` has strong fairness on `Proceed(r)`, each request's next statement, and weak fairness on the
deadlock detector. A statement that waits for a row becomes possible and impossible as others take the row; PostgreSQL
queues the waiters of a row lock in order, so one whose turn comes infinitely often gets it: that is strong fairness.
The detector runs in each waiting backend after `deadlock_timeout`, and a deadlock, once formed, stays. No fairness is
assumed of users, admins or failures.

`Notifications`' `FairSpec` has weak fairness on the worker's next step on a job (BullMQ hands out jobs that wait, and
the event loop goes on with one that was taken) and on Redis delivering its next message. `Heard` and `DeliveriesEnd`
need no more: none is assumed of users, transactions, after-commit tasks, handlers, commands to Redis, hang-ups,
refusals and crashes, nor of attempts to succeed: a job may fail until its attempts are used up.

`Pages`' `LiveSpec` has weak fairness on the answer and the delivery of each call: fetch settles, and the page's code then
runs. Under it `BidsShown` is violated although every call succeeds.

## Proofs

`MarketplaceProofs` proves, for any jewellers, sellers, listings, bounds and any number of concurrent requests:

* `Invariance`: `Spec => []IInv`.
* `TypeCorrect`, `OneWinnerHolds`, `DealLedgerHolds`, `OnePendingBidHolds`: the state properties of the
  safety run.
* `DecisionsFinalHolds`, `TermsFrozenHolds`: its action properties.
* `Refinement`: `Spec => Promise!Spec`, that is, `Marketplace` implements `Sale`.

From: `SellerOfType`, `PaymentsNat` and `EditsNat`, the assumptions of the module, and nothing else.

The safety properties are not inductive: `OneWinner`, for instance, says nothing of a transaction that has taken a bid
and not yet the listing. `IInv` adds what the transactions know. `RowsExclusive`: no row is written by two of them.
`Matches`: a row that a transaction holds still has the status for which its WHERE matched it (that is why nobody can
overtake the holder). `Progress`: which rows a transaction holds when it has reached a statement (that is why the
commit of an acceptance finds its bid PENDING and its listing ACTIVE). `KeysFree`: the unique-index key of an
uncommitted bid is neither taken nor claimed by another. With these, each commit is a step from known statuses to known
statuses, and the ledger follows by cases on which bid is the transaction's. The proof has one lemma per kind of step:
steps that touch only `tx` (begin, claim, fail) and one per commit. On the instance of `marketplace_safety` TLC finds
`IInv` to hold, as it must; the run does not repeat what the theorem says.

`VerificationProofs` proves, for any users, documents, submissions and any number of concurrent requests, `Invariance`
of its own `IInv`, and from it `TypeCorrect`, `ApprovedIdentityUniqueHolds`, `PendingAgreesHolds`, `GateSoundHolds` and
`ReviewsFinalHolds`. From: `MaxTimeNat`, `NoneIsNoTime` and `NoneIsNoSubmission`, which say that `None` is a NULL and
no value.

`GateSound` is not inductive: an approval about to commit must be of a submission that is still there, still pending
and still of that user. `IInv` adds `ReadsHold`, one conjunct per kind of knowledge. `SubmitState`: a submission in
flight has a `created_at` that nobody else has or will have, and from its insert on holds the pending key of its user.
`ReviewState`: what a review read of its submission still is so, and from its UPDATE on it holds the row, and when it
approves the keys of the documents. `RowsMean` says what holding one of them is worth: a held submission is pending, a
held pending key has no pending row, a held document key no approved one. Rows and keys are held once (`TypeOK`), so
one commit cannot undo what another request's rows mean. The lemma `OneRequest` settles every step that leaves the
tables alone; the two commits are proved conjunct by conjunct.

`UploadsProofs` proves, for any requests, files, links and faults, `Invariant` and from it `ImagesExist`
(`NothingMissing`) and `FilesAccounted` (`NothingLeft`). From: `UploadBounds`. The danger is a deletion: what a request
deletes must be shown by no row, now or later. `IInv` therefore says whose files are where. `Request`: what a request
knows is its own and, until it settles, exists; what it replaces is shown by the row it is about to write. `Replaced`:
what it took out belongs to requests that have settled and is shown by no row any more. `Row`: a row shows files of
settled requests only, never of one that is about to clean up, but for a COMMIT taken for a failure. `WritersApart` and
`RowsApart`: no two transactions write one row, no two rows show one file. Each action has a lemma for `IInv`; then
`RowsShown` and the links follow action by action, with the two deletions as the cases that matter, and `Accounted`
follows each stored file from owner to owner.

`NotificationsProofs` proves, for any notifications, streams, attempts and faults, `JobsFollowCommits`,
`SubscribedWhileHeard` and `SuspensionCutsOff`. From: `LimitsNat` and `StreamsFinite` (there is a name for each new Set
because fewer are in use than there are names: the pigeonhole principle, with `FiniteSetTheorems`). `SubscribedExactly`
speaks of the last command only; `Joined` adds that all members are in the Set of the user's entry, that the entry is
there exactly while it has members, and that the last command agrees with it; `Told` that a stream which has carried a
suspension is in no Set. `DeliveryInv` is the invariant of rows and jobs.

`PagesProofs` begins with the operators of `Keyset`. For any timestamps, places and ids: `NearnessOrders` (the order by
nearness is irreflexive, transitive and total on rows with different ids), `PlaceCursorExact` (the condition on the next
page holds for exactly the rows after the cursor's, NULL distances included), `StampCursorRepeatsNothing` and
`StampCursorSkipsTicks` (a page by time repeats nothing, and leaves out only rows of the millisecond of the cursor, and
only when the cursor has lost something). From these follow what one answer of the server is (`Told`: in order, of the
key asked for, nothing left out up to its end, and its cursor where it ends) and what two answers joined are.

Of `Pages` it proves, for any rows, timestamps, places, page size, number of calls and kinds of page, `NoPageSpins`
(`Spinning`), `PagesAreCoherent` (`Coherent`), `PagesJoin` (`Seamless`), `ActionsAreShown` (`OwnActionShown`) and
`ActionsAreOnShown` (`ActsOnShown`). From: `TickAssumption`, `RadiusAssumption`, `RowAssumption` (finitely many rows,
numbered, as ids of a table are), `StampAssumption` (a later row has no earlier timestamp), `SpotAssumption`,
`SizeAssumption`, `BoundAssumption` and `PageAssumption` (each page is one of the kinds that the module translates).
The properties speak of a page at rest and say nothing of one with calls under way. `IInv` says what is on its way:
`Shown`, that what a page shows of another key, or an open row after an action on it, has a load or a reload under way;
`CallsOk`, that an answer which was sure of what it read is `Told` of the key the page still has, and what an action is
about; `Alone`, that such an answer met no other call, which is why it may be shown; `ActedDone`, that the rows of
succeeded actions are not open again. Three facts about the table of kinds (a page with actions reloads after them, and
so on) are proved of each of its records.

`SessionProofs` proves, for any tokens, reset tokens, connections and requests of `UserSessions`, `RotatedTokensDie`
(`RotatedIsDead`), `RevocationsAreTotal` (`RevocationIsTotal`), `GraceGivenOnce` (`GraceOnce`) and
`NobodyGetsStuck` (`NobodyStuck`). From: `PoolSizeNat`, `MaxPasswordNat`, `NoneIsNoToken` and, for the connections,
`RequestFinite`. That a revocation is total cannot be seen from its last step: it locked what its
UPDATE found, and rotations went on meanwhile. `Finds` carries the argument: of the sessions that were live when the
request began, each is dead, or found by its statement, or locked by it; and by `Forward` no step brings a session back
to life. `Rotates` says that a rotation holds its token when it commits. `GraceOnce` follows step by step (`SessionSteps`):
whatever a request read of a token, what it writes is `Revoked` of the row as it is then.

`NobodyStuck` of both modules says: of any requests in flight, one waits for none of the others. That excludes a circle
among some while others go on, and it says of which requests a victim would have to be. The proofs find the one that has
come furthest: `Ordered` (`Stage` in `VerificationProofs`) says how far a request is that holds a row of each kind, and
from it each kind is waited for only by requests that have come less far than its holders. What a request on the pool
waits for is its own transaction too, which must not hold a session's row by then.

Of `Browser` it proves, for any finite set of tabs, any calls and incidents, `CookieStaysLive` (`CookieLive`),
`RefreshIsScheduled` (`RefreshScheduled`), `LoadingIsAwaited` (`LoadingAwaits`) and `SignedOutStaysOut` (`StaysOut`).
From: `TabsFinite` and `IdsEnough` (each call refers to at most two tokens, so a token that nobody refers to is left: the
pigeonhole principle again). `BrowserInv` adds to `CookieLive` what answers carry: `NewsInv`, that the token which an
answer will set is live, or was ended without the browser's knowledge, and is known to no other call and not yet to the
jar, so no rotation can have revoked it; `CallShape`, which answers set a cookie at all; `Remembers`, how the user, the
token, the timer and the two refreshes of one tab depend on each other, from which the two properties of the tab follow;
and `ClosedInv`, that a closed tab has no calls. `StaysOut` is an action property: whoever ends up signed in by a step
was so before, or has just answered a sign-in submitted in it.

`AdminAccountsProofs` proves, for any administrators, sets of codes, sessions and requests, `RecoveryCodesOnce` (`CodesOnce`),
`SecretsProven` (`MfaProven`) and `SuspensionStands` (`SuspensionHolds`). From: `OneSeeded`, `LimitsNat`, `MfaPolicy` and
`NoneIsNothing`. The code updates an administrator's row from what it read some statements ago; `Writes` is what makes this
harmless: the row that a request has written, while it holds it, keeps a suspension that is in the table and has a proven
secret, unless the request is the change of status itself or will be rolled back. `Enters` says that a sign-in about to
succeed by a code holds it unused, and `Counted` that a code entered is used.

`SignInProofs` proves, for any accounts, contact data, identities, codes and requests, `OwnersAreUnique` (`OneOwner`),
`ProofsBackAccounts` (`AccountsBacked`) and `GuessesAreBounded` (`GuessesBounded`). From: `LimitsNat`,
`IdentitiesHaveMail` and `NoneIsNothing`, and for the last `RequestsFinite` and `ScopesApart`. `Claims`:
a request that inserts an account holds its keys in the unique indexes, and keys that a request holds belong to nobody
else's account; `OneOwner` follows commit by commit. `Uses`: the code that an answer is compared with is of its phone and purpose, and is held
by who goes on with it. A code can be consumed twice (`ConsumeOtp` asks nothing), which would take the proof away from
the account that used it first; it does not, because that account would own the phone, and the second request holds the
phone's key. `Links`: an identity about to be linked was nobody's. Each action has a lemma; `MoveInv` settles those that
leave the tables alone, `CodesInv` those that are committed at once, and the commit is proved table by table.

`GuessesBounded` needs a potential. `recordLoginFailure` decides on the lock by a counter that its request read some
statements ago, so one that read it early takes away the lock that others have set. `Tallies`, the inductive invariant,
sorts the requests near the limit: those that are `Behind` (their reading will take the lock away), those `Owing` (let
in, and may yet record a failure that sets it), and those `Out`. With `e` requests that are not behind and `d` that are
out, `2 * guesses + 4 <= 2 * MaxFailures + e * (e + 1) + (IF locked THEN 2 * d ELSE 0)`: a failure by one that is behind
raises `e` for good, as nobody falls behind a counter that has reached the limit; a failure that locks moves its request
to those that are out, and while there is no lock only as many come in as are out. So each round is paid for by a
request, and the rounds are at most as many as the requests. `Tried` counts the requests that have compared a code and
not yet counted the answer. TLC found `Tallies` to hold with two requests at two IPs and with three requests (limits of
one, two and three) before it was proved.

Every property of a passing run is proved but three. `RequestsEnd`, `Heard` and `DeliveriesEnd` (and `BidsShown`, which fails) are
liveness under fairness, which the prover does not handle, as it does not handle ENABLED. `NobodyStuck` is therefore stated by
who waits for whom. That a request in flight that waits for nobody has a next statement is not part of it: each
action of `Proceed` asks for the request's place, for `Granted` and, on the pool, for a connection, and for nothing
else; on the instances of the runs TLC confirms it with ENABLED.

The type invariant of every state machine is proved as well (`TypeCorrect` of each module, `BrowserTypeCorrect`); only
`Marketplace` has its own in a run. They say more than that a variable has its type, and most need an invariant of
their own:

* `UserSessions`: no two requests hold the user's row (`OneWriter`), which keeps the number of passwords in its bound;
  and the pool never lends more connections than it has. A request holds one while its transaction is open, and a second
  one while it answers a reuse; each begins only when one is free, so the sum over the requests is counted, by
  `FiniteSetTheorems`, request by request.
* `Browser`: `WaitInv`, that a tab waits for a refresh, its first or a timed one, exactly while that call is under way,
  and that a call which waits for a CSRF token waits for a fetch of its tab; `TokensInv`, that the tokens which the server
  counts, or no longer counts without the browser's knowledge, are held by a cookie or a message and are apart.
* `AdminAccounts`: no row is locked twice, and who has a session, a code or a bearer token exists. Beyond it,
  `OneSetOfCodes` proves `OneCodeSet`: an administrator has the unused recovery codes of one enrolment at most. An
  enrolment holds its administrator's row from its UPDATE to its COMMIT; the codes that it reads after that are all that
  are unused (`EnrolInv`), and COMMIT uses them up. An administrator who is being created has none, because owners of
  codes exist.
* `SignIn`: no row and no key of an index is held by two requests, and `guesses` never exceeds a counter. It also needs
  `MaxLapsesNat`.
* `Pages`: `RealInv`, that the record of the path exists, that each call asks for a key that was selected while it could
  be, and that no row is shown or on its way that the table does not have. `Grows`, that no row leaves the table, carries
  it over changes by others.
* `Uploads` and `Notifications`: faults, tries and takings of a job stay within their limits, a link is for a file that
  a row has shown. `Verification`: rows and keys are held once.

## Not modelled

* Amounts, texts, images as pictures, encryption, hashes and signatures: data that no property tells apart. A bid whose
  commission rounds to 0.00 is refused by a CHECK when it is accepted (`bids.repository.js:247`); in the model that is an
  `Abort`.
* Rate limiters and validation of input: a request that they refuse does nothing.
* Forms, routing, layout and wording of the frontend. Between a render and the effect it causes nothing is modelled: a
  page of bids that is closed to its account shows its notice for that moment before it loads again.
* Dashboards and reports compute aggregates of rows in one query each; audit rows are appended and never read back by
  code that decides something.
* `services/cloudinaryStorage.js`, which nothing imports; start-up scripts other than `bootstrapAdminMfa.js`; environment
  parsing; the program that applies migrations.
* Several backend processes: requests of one process and of several are alike to the database modules; `Notifications` has
  one process, as a hub is one process's.

## Plan

What is left: composition. A `Pages` with two pages open at a time, so that what one does is seen by the
other; marking notifications as read; the verification guards as steps of the requests of `Marketplace`, which would
compose it with `Verification`. To prove: that the server's step in `Browser`, which handles a call at once, is what
`UserSessions` does in several (a refinement), and the safety half of `Heard`, that a stream which has missed nothing
has been written what was published.
