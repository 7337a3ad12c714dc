# MES: specifications and proofs

TLA+ modules for the mock e-learning system in this repository: a NestJS
backend over Postgres and Redis (`src/apps/backend`), a web SPA for parents and
students (`src/apps/web`) and an admin SPA (`src/apps/admin`). Parents buy
courses for students, a purchase creates an invitation that is sent by email,
the student redeems it and gets an account, an enrolment and access to lessons.
Sessions are a short-lived access token in memory and a rotated refresh token
in a cookie.

Most of the code is sequential CRUD. What is hard in it, and hard to test, is
what happens between two `await`s: row locks and unique indexes that decide
between two requests, reads outside the transaction they are for, transactions
that Postgres has aborted while the code goes on, answers lost after a commit,
jobs that run twice, handlers that hold a connection of a small pool while they
wait for another, and responses that reach the browser in another order than
their requests left. The specifications are about that.

Paths below are relative to `src/apps/backend/src` (backend),
`src/apps/web/src` (web) and `src/apps/admin/src` (admin).

## 1. Components

| component | state | operations | modules |
|---|---|---|---|
| Refresh-token rotation | `refresh_tokens`, row locks, the grace cache of the process | login/signup issue, refresh (rotate, grace, theft), logout, cleanup job, cache timer | `RefreshTokens`, `Sessions`, `RefreshTokens_proofs` |
| Invitations and enrolments | `invitations`, `users`, `enrolments`, their unique indexes | issue, redeem as new or existing student, parent signup, expiry | `Redemption`, `Admissions`, `Redemption_proofs` |
| LMS lesson access, guards | none of its own | the three read routes behind `JwtAuthGuard` and `RolesGuard` | `LessonAccess` (in `Redemption`) |
| Onboarding page | the preview it shows, the request it awaits | load, two reads, submit, answer, lost answer | `Onboarding` (extends `Redemption`), `Redemption_proofs` |
| Purchases, idempotency | `purchases`, `invitations`, `idempotency_keys`, the queue | `POST /purchases` through the interceptor | `Purchases`, `Orders`, `Purchases_proofs` |
| Checkout pages | the page, its key, two session-storage entries | mount, reload, submit, answers late, lost or to an earlier mount | `Checkout` (extends `Purchases`), `Checkout_proofs` |
| Invitation email | BullMQ's job states, `email_sent_at` | the processor's steps, stalled check, backoff, operator retry | `InvitationEmail`, `InvitationEmail_proofs` |
| Web SPA session | auth store, the in-flight refresh, the browser's cookie | boot, login, signup, redeem, calls, silent refresh, logout | `SpaSession`, `AdminSession_proofs` |
| Admin SPA session | the same, its own copy | the same without redemption, `RequireAdmin` | `AdminSession` (extends `SpaSession`), `AdminSession_proofs` |
| Database connection pool | the connections, who has them, the queue for them, the rows transactions hold | ask, connect, lock a row, read outside a transaction, commit, fail, restart | `ConnectionPool`, `ConnectionPool_proofs` |
| Credentials | `users.password_hash`, handlers between their queries | signup, login, the re-hash beside it | `Credentials` (extends `ConnectionPool`) |
| Readiness probe | pings underway, answered or overdue | `GET /health/ready` | `Readiness` (extends `ConnectionPool`) |
| One backend process | all of these | | `Server`, `Server_proofs` |
| Rate limiting, origin check | - | - | not modelled (section 7) |
| Admin API, courses, seeds, configuration, pages | none that changes | reads, wiring, rendering | not modelled (section 7) |

How they interact:

- `SpaSession` sends the cookie that `RefreshTokens` rotates. Two refreshes
  with one cookie look like theft to the server, so `SingleFlight` on the
  client protects what `EvaluateTheft` would punish.
- `Purchases` commits the invitation that `Redemption` redeems (`Issue`) and
  adds the job that `InvitationEmail` runs (`Enqueue`). That a job is for a
  committed order (`Orders!Notify`, proved) is what lets `InvitationEmail` leave
  out a missing row.
- Every handler of the backend and the readiness probe share one pool of
  connections. `ConnectionPool` knows a handler by what it awaits; `Credentials`
  adds what signup, login and the background re-hash read and write between the
  awaits, and lets the other modules' transactions appear as what they are to the
  pool (`Transacts`).
- `Redemption` signs access tokens; `LessonAccess` decides what they open by
  reading `Redemption`'s enrolments. It is instantiated there, so the redemption
  run follows an answer through the guards to the lesson.
- `Checkout` and `Onboarding` put the browser's pages in front of `Purchases`
  and `Redemption`: they extend those modules, so that each step is a step of
  the server, of a page, or of a page that sends a request.
- `AdminSession` and `SpaSession` share the browser and its one refresh cookie.

What makes each correct, in a sentence:

- Rotation: a session is one chain of tokens; one token of it is accepted at a
  time, a spent one never again, and a client never holds a token the database
  does not know.
- Redemption: an invitation, an account and an enrolment change together or not
  at all, whatever fails between the statements, and a login it answers opens
  the course.
- Purchases: a key buys once; purchase, invitation and replay exist together;
  every answer is true; a parent who opens no new form while a request is
  underway never buys an item twice, and the pages agree with the list.
- Pool: handlers block each other for one known reason only; whoever is not
  blocked is answered; the probe tells when all are.
- Credentials: whoever has an account's password gets its tokens, and nobody
  else, whatever re-hashes, signups and redemptions run beside the request.
- Email: a job that was added loses no email without failing visibly (a crash
  between the commit and the enqueue leaves no job at all, which
  `PurchasesService.ts:92-94` accepts), and once an invitation is marked nobody who
  takes its job sends again.
- SPAs: one refresh at a time, a logout that no late response undoes, no call
  that hangs, no other user's token behind the user shown unless somebody was
  logged in beside somebody else.

## 2. Modules and how they follow the code

Each `await` that can let another request in is a boundary between two actions;
code between two awaits is one action. Actions carry the name of the method or
of the branch they model; `PROJECT.json` gives the lines of each.

**RefreshTokens** (`auth/service/AuthService.ts`,
`auth/repository/RefreshTokensRepository.ts`, the controller and the cleanup
job). A raw token, its hash and its row are one element of `Token`; a family is
named by its first token. A request (`Proc`) walks through
`lock -> evaluate -> write -> commit -> respond`, with `grace`, `revokeFamily`
and `lockFamily` as the branches of `handleRevokedToken` and `logout` as the
second half of `logout`. Things that follow from Postgres and TypeORM and are
easy to miss:

- `SELECT ... FOR UPDATE` waits for the row (`AcquireLock`), and `now` is read
  after the wait (`Expired`), but `revoked_at = NOW()` is the time of `BEGIN`
  (`begin`).
- What an open transaction wrote is visible to nobody: the insert and the
  update are one step (`WriteRotation`) and appear with `CommitRotation`.
- The theft path updates the family and then throws, so TypeORM rolls the
  update back. `RevokeFamily` and `LockFamilyRow` model the row locks that
  update takes one by one, `RejectReuse` the rollback.
- The grace entry is set after the commit (`Respond`); a crash in between
  leaves a rotated token without one.
- The foreign key `replaced_by_id` is `ON DELETE SET NULL` (`Cleanup`).
- The branch for a user that does not exist (`AuthService.ts:273-286`) has no
  action: `refresh_tokens.user_id` is a restricting foreign key and nothing
  deletes users. A failing query there is `Fail`.

`reply` and `tok` keep only the answers later states are judged by (`Lasting`),
which keeps the state space small.

**Sessions** is what rotation promises: sessions that start, advance and end in
single steps. `RefreshTokens` maps the active row of a family to the session's
current token and every other issued token to `spent`.

**Redemption** (`invitations/service/InvitationsService.ts` and the three
repositories). `keyHolder` and `placeHolder` are the uncommitted inserts in the
unique indexes on `users.email` and on `enrolments`, which make a second insert
wait as a row lock does. `valid` is fixed at `Redeem` because `expires_at >
now()` compares with the time of `BEGIN`. `findByEmail` and the second read of
`resolveOrThrow` run on other connections and see only committed rows, which is
why `FindNobody`, `FindExisting` and `Disambiguate` are actions of their own.
`EnrolDuplicate` catches the unique violation and goes on to `CommitAborted`: the
`COMMIT` of an aborted transaction is a rollback that reports no error. The
access token is signed directly after the commit, in the same step.

**Admissions** is what invitations promise: using one, becoming a student and
getting the place are one event.

**LessonAccess** has no state. It is the path of a request through
`JwtAuthGuard`, `RolesGuard`, `LessonsController` and `LessonsService`, with the
code that is answered; an unknown lesson and a missing enrolment have one
answer.

**Purchases** (`purchases/`, `common/idempotency/`). Lookup of the replay,
duplicate guard, insert (which may wait for an uncommitted insert with the same
key), the other two inserts, commit, enqueue. A body stands for its hash;
`ItemOf` is the course and normalised student email the DTO makes of it, so two
bodies with different hashes can name one item. The branch of
`persistWithinTransaction` that translates a unique violation has no action,
because the invariant `PersistUncontended` says it is never reached.

**Orders** is what buying promises: an order with its invitation and its replay
appears in one step, under a new id and a new key, and never changes; jobs are for
orders that exist. `Purchases` maps each committed purchase to the order its rows
make up (`OrderOf`).

**ConnectionPool** (`common/config/buildPostgresOptions.ts`,
`common/repository/BaseRepository.ts`, and the order of statements in the
services). The options name neither a pool size nor a timeout, so the pool is
pg's default: ten connections, one queue, no limit to the wait. Three kinds of
handler matter: single queries; transactions whose statements all go through
their manager (purchase, logout, insert of a user); and transactions that on the
way read through a repository without it, hence on a second connection
(`buildRotationPayload`'s and `handleRevokedToken`'s `findById`,
`redeemInTransaction`'s `findByEmail`, `resolveOrThrow`). Rows and unique keys are
numbered in the order transactions lock them, which `RefreshTokens` (spent token
before active one) and `Redemption` (invitation, email, place) follow.

**Credentials** (`auth/service/AuthService.ts`, `users/`). Each query of signup
and login is a turn in the queue; between two of them the handler hashes or
verifies and holds nothing. A hash is the password it was made from and whether
argon2's parameters have changed since. The re-hash is a task of its own that
nobody awaits (`void this.rehashIfNeeded`). `owner` in a job is a history field:
whether the caller had the account when the request came.

**Readiness** (`health/`). Terminus' deadline ends the answer, not the query: an
overdue ping stays in the queue. **Server** puts the three together.

**Checkout** (`pages/CheckoutPage.tsx`, `CheckoutSuccessPage.tsx`,
`CourseDetailPage.tsx`, `util/checkoutFlash.ts`) is one tab of one parent in
front of `Purchases`; other parents call the API (`ApiCalls`). A mount of the form
generates the key and disables its button while it submits. An answer belongs to
the mount that asked, wherever the tab is by then: `Succeeded` replaces the
stored purchase and moves the tab to the success page also from a newer form.
`LosesAnswer` is a rejected `fetch` whose request the server may still run. A
state component is read once, at mount, so a page that is there already does not
notice what is stored under it. `Broken` is the success page that renders a
replay's body. `generated` and `hurried` are history variables: the keys
generated so far, and whether a form was mounted while a request was underway.
An access token that expires between is left out: `apiRequest` repeats the
request with the same key before the handler has seen it.

**Onboarding** (`pages/OnboardPage.tsx`, `getMetaByToken`) is a tab opened with
one invitation's link in front of `Redemption`. The preview reads the invitation
and then the account, and the page made of them is not looked at again until the
form is sent. Which form it was decides whether the server misses the new
account's fields (`FieldsAsSent`).

**InvitationEmail** (`notifications/processor/InvitationEmailProcessor.ts`,
`notifications/const/NotificationsConsts.ts`). Load, send, mark, return, with
BullMQ's queue around them (external: taking, locks, completion by the lock's
owner only). The job's lock can expire while its worker is merely slow
(`Stalled`). `Mark` is a statement of its own, so that its commit can be followed by a
lost answer (`MarkAnswerLost`) as well as fail (`Throw`). `unrecorded` is a history
variable: the attempts at a job that ended, by a stall or a failure, with
`email_sent_at` unset. A dead worker's attempt ends with the stall that finds it.
BullMQ fails a job whose stalls exceed `maxStalledCount`, here the second;
`docs/features/async-jobs.md:147` says the first. No property depends on it.

**SpaSession** (`auth/authStore.ts`, `auth/useAuthBootstrap.ts`,
`api/apiClient.ts`, `auth/logoutClient.ts`, `App.tsx`, the login, signup and
onboarding pages of web). A token, a cookie and the user's metadata are the user
they belong to. A response sets or clears the cookie when it arrives, in the
step of the continuation that awaits it. The server's answers are open. A login page's
`submitting` flag goes with its mount but its request does not, so several forms can
await `/auth/me` together (`Form`) and settle in any order (`LoginMeArrives`).
`postLogout` does not look at the status: an answer that is no 200 leaves the cookie and
ends the logout all the same (`LogoutArrives`).
`signedOut` is a history variable: a logout has finished and nobody has logged
in since; a boot that finds a valid cookie counts as a login. `crossed` is another:
since the page was loaded somebody logged in, signed up or redeemed beside a
session, a refresh, a login still underway or a cookie of somebody else (`Beside`).
The boot's refresh is a variable of its own (`boot`), not one of `Flight`: nothing
else runs while it does. React's StrictMode, which mounts twice in development and
would boot twice, is outside the model.

**AdminSession** extends it with `app`, the SPA in the tab. The admin SPA's
store, client and boot sequence are copies of the web's, so its actions are the
web's under its own guards: the layout with the log-out button stands behind
`RequireAdmin`, and its login page stores nothing for a user who is no admin -
while that login's cookie stays in the browser.

The `MC*` modules give the constants their values; they redefine nothing. The
`*_proofs` modules prove what section 5 lists and add nothing to the specifications.

## 3. Runs

| run | question | result |
|---|---|---|
| `refresh_races` | three overlapping requests, failures, crashes, timer | holds, 722 k states |
| `refresh_time` | one request at a time, clock past grace, expiry and retention, two agents; implements `Sessions` | holds, 672 k |
| `refresh_live` | two overlapping requests, fair; every request answered | holds, 56 k |
| `refresh_theft` | after `REFRESH_TOKEN_REUSED` the family is dead (ADR 0007) | violated |
| `redemption` | two overlapping redemptions of three invitations, one from the onboarding page, signup, failures | holds, 421 k |
| `redemption_duplicate` | a login by redemption means the invitation is used | violated |
| `purchases` | the checkout pages and another parent: two overlapping requests, two keys, three bodies, lost answers, reloads; implements `Orders` | holds, 2.0 M |
| `checkout_replay` | the success page shows the link of the purchase it is told of | violated |
| `invitation_email` | two jobs, two slots, failures, lost answers, crashes, lost locks, operator | holds, 1.0 M |
| `spa_session` | two calls, refreshes, logouts and logins in any order, both SPAs, fair; every call settles | holds, 313 k |
| `spa_late` | no retry after a logout that finished during the refresh | violated |
| `server` | two clients, a re-hash and a probe on two connections: what blocks, who is answered, who gets in | holds, 123 k |

The properties, with the hazard each is aimed at, are stated in comments in the
modules. The ones that say most:

- `NoWaitCycle`: the comment at `AuthService.ts:391-393` fears a deadlock
  between the theft path and a rotation of the same family. There is none: a
  family has one active row, the theft path's update locks active rows only, and
  a request that holds a lock and waits never waits for an earlier row of the
  chain. With `EveryRequestAnswered`, each refresh and logout ends, as far as locks go:
  that it gets its connections is `EverybodyAnswered`'s matter.
- `GraceFaithful`: a cached successor is the committed one with its first expiry,
  so a retry can neither get a rolled-back token nor slide the session.
- `LogoutEffective`: `logout` reads without a lock and updates later; the `WHERE`
  makes it right.
- `TokensAreTrue`, `LoginOpensCourse`: the guards believe a token's role without
  asking `users`; no redemption signs one for an account its rollback removed,
  not even the duplicate whose transaction was aborted.
- `RevocationFinal`: once a row is revoked, a second revocation, in whichever
  order it lands, leaves it alone, and neither pass of the cleanup takes a row that
  the grace path may still answer for (`Grantable`), although the two retention
  windows overlap on one row.
- `WedgeExplained`: when nothing in the process can go on, every connection is
  held by a transaction of its own and one of these waits for a second
  connection. Row locks never do it alone, and neither do purchases, logouts and
  single queries, however many. Ten transactions at once of which one is a refresh
  or a redemption can: then nothing but a restart ends it, since neither the pool
  nor Postgres has a timeout. `WedgeIsReported`: the readiness probe then answers
  503.
- `EverybodyAnswered`: as long as transactions do not fill the pool for good
  (`[]<>Uncrowded`), every request is answered and every re-hash ends.
- `TokensToTheOwner`, `OwnerIsNotRefused`: the row a password was compared with is
  out of date by the time the tokens are issued: a re-hash may have replaced it,
  another signup or a redemption may have taken the email. Nobody gets in who
  should not, and nobody is refused who had the account, not even after a signup
  that was cut off between the account and its tokens.
- `ShownUserIsCaller`: the token and the cookie are those of the user on the page,
  through refreshes that answer late and logins that overlap, unless somebody was
  logged in beside somebody else: over a session that was not ended, over a refresh in
  the air, beside another login that awaits `/auth/me`, or by a redemption in a browser
  with a parent's cookie. The admin login page, which refuses a parent after the
  parent's cookie has been set, is the first of these. `Beside` is the exact list: with
  any of its three cases left out, or without the redemption's, TLC finds the page
  showing one user over another's token or cookie.
- `RefusalIsTrue`: the reason for a refusal is read after the refusal, outside
  the transaction, and is still true.
- `PageIsTrue`: the onboarding page is made of two reads in no transaction and is
  stale when the form is sent, yet whoever it tells to log in can log in and open
  the course, and whoever it asks for a password only is not refused for a
  missing name.
- `CarefulShopperBuysOnce`: neither the key nor the duplicate guard suffices
  alone. The key covers what overlaps under one mount, retries included; the
  guard, which reads before the transaction, covers what comes after another.
- `PageAgreesWithPanel`: what the tab says, from an answer that may have been
  asked for by an earlier mount, agrees with what `listForParent` would list.
- `PersistUncontended`: a branch of `IdempotencyService` is dead code, because
  the index on `purchases` decides first.
- `ImplementsOrders`: what `JobsAreCommitted`, `OnePurchasePerKey` and
  `PurchaseIsWhole` say of states, it says of steps: nothing else ever
  happens to a bought item.
- `DuplicatesExplained`: delivery is at least once (the feature document says
  "never sent twice", `docs/features/async-jobs.md:7`). Each further email is paid for by
  an attempt that ended before the mark was there; a stall, a lost answer, a retry or
  an operator after the mark costs nothing. That is the work of the check at the head of
  `process`, without which the property fails (`BugLoadUnchecked`).
- `TypeOK` of `SpaSession` also says that a call waits exactly while its refresh
  is in the air.

**Bounds, and why they are enough.** Three tokens make a chain with a first, a
middle and a last; three requests a cycle of three. With one tick of grace and
two of life a token is inside the window, outside it and expired in one run;
`refresh_time` adds a second agent and a clock that reaches retention: expired rows
are kept for no tick and revoked ones for one, so that each pass of the cleanup
gets to a row first in some behaviour. Overlapping requests are left to
`refresh_races`, whose clock ends before anything can be deleted. The cleanup job between
the steps of overlapping requests is for the theorems of section 5, which hold for any
clock; that overlapping requests implement `Sessions` is proved there too.
Three invitations for
one student are a duplicate pair and one for another course; two requests decide
every race there is about one row or one key, since each waits for at most one
other. Two keys are two mounts of the form, and with three bodies give a replay, a mismatch, a second key for the
same item and another item; two ids, because a third purchase repeats the
second. The other parent sends one body under a key of the shopper's, which is
enough to mix the two up if the code could. Two email jobs compete for two slots; one job may stall twice and fail
`MaxFailures` times, an operator's retries included. Two calls and two flights
suffice to break single flight, two logouts to have one reset the other's flag, two
forms to have two logins settle in either order; the users are a parent, a student and
an admin. Forms and logouts are interchangeable in `spa_session`, in the temporal
property too, since neither it nor a fairness condition names one; without the symmetry
the run has 801 k states and the same result. Two
connections, because the pool's size matters only in how many transactions fill
it; one row to fight for (the order of rows matters in the theorem `WedgeHasOneCause`
only), two clients who may each be a signup, a login or a
transaction of any kind, one re-hash, one probe; one email, since accounts do not
mix, and a right and a wrong password. The theorems on the pool are for any
number of each. `MaxTime`, `MaxFailures`, `Id`
and `Token` are bounds of the instance: `OutOfTokens` names the states where a
rotation stops because the instance has no token left.

**Fairness.** `WF` of a request's own steps: Node runs the continuations of
settled promises. `SF` of steps that need a lock: Postgres grants row and index
locks in FIFO order, so a request is not overtaken for ever. Email: a slot runs
its processor, a free slot takes a waiting job, a delay ends and the stalled
check runs on its interval (`lockDuration`, `stalledInterval`). Pool: queries
and computations end, a connection that is given back goes to the first in the
queue, row locks are granted in turn (`SF`), the deadline's timer fires and the
orchestrator keeps probing. Browser: a fetch
is answered or fails. No fairness is assumed of clients, crashes, failures,
clock, cleanup or operators. `invitation_email` turns the deadlock check off:
when every job is settled the queue really is at rest. So does `server`, which
states its own kind of deadlock, `Wedged`.

## 4. Findings

1. `refresh_theft`. The ADR and the comments say a reused token revokes its
   family. The code throws out of the transaction that revoked it, so TypeORM
   rolls the revocation back (`AuthService.ts:394`, `409`); the family's active
   token stays usable.
2. `redemption_duplicate`. The comment says the invitation is already marked
   REDEEMED when the duplicate enrolment is caught; the aborted transaction took
   that mark with it. The invitation stays ISSUED and can be presented again.
3. `checkout_replay`. A form that is sent again after its answer was lost gets the
   replay, `{ purchaseId, invitationId }`. The page stores it as a purchase and
   the success page reads `purchase.invitation.expiresAt`: a `TypeError`, without an
   error boundary a blank tab, and the same at every reload.
4. `spa_late`. The guard against retrying a call after a logout asks a flag that
   the end of the logout has reset.

Noticed while modelling, without a run of its own:

- The invitation email can be sent twice where the repository says it is not.
  The comment at `InvitationEmailProcessor.ts:74-75` says of a worker whose UPDATE
  matches no row "the email was sent exactly once": it has sent the email itself before
  it gets there (lines 61-71), and so has whoever set the mark, the worker that got the
  job after the first had lost its lock. `docs/architecture/async-jobs.md:140` says that
  the check "prevents duplicate sends on retry of a transient failure": a failure of the
  UPDATE, which line 131 counts among these, comes after the send and before the mark,
  and the retry sends again. `sends[i] <= 1` is violated in `invitation_email` in both
  ways, the second with one worker and no stall; `DuplicatesExplained` is what holds
  instead.
- Of two overlapping requests with one key the loser fails in the insert into
  `purchases` (`InsertViolatesKey`), whose violation nobody translates, and is
  answered 500; `IdempotencyService.ts:35-36` says the raw `QueryFailedError` never
  surfaces. `PersistUncontended` is the reason: the branch that would translate it
  is never reached.
- `AuthConsts.ts:111` keeps revoked rows 30 days after `revoked_at`, and the comment
  above `deleteExpiredAndStaleRevoked` calls the two passes disjoint; the pass over
  expired rows takes revoked ones too, at most 14 days after their issue.
- `docs/architecture/auth-and-rbac.md`, "concurrent-family deadlock window", lets a
  unique constraint on `(user_id, family_id)` decide between two refreshes. There
  is none, and every rotation inserts a second row of its family; the row lock
  decides (`AcquireLock`), and `NoWaitCycle` says there is no deadlock.
- The pool: `WedgeExplained` above. `AuthService.ts:273` and
  `InvitationsService.ts:111` need a second connection where the transaction's
  manager would do.
- Rate limits: `auth-and-rbac.md:101-110` says per IP, and per username for the
  login, and lists four routes. The code has limits of its own for the login and the
  two cookie routes only; the bucket never depends on the username; it is the
  refresh cookie, a new one after each rotation, on every route that gets one. The
  throttler is the first global guard (`app.module.ts:88-90`) and runs before a
  user is known, so that `ProxyAwareThrottlerGuard`'s bucket `user:<id>` is never
  chosen. Both named throttlers (`app.module.ts:58-61`) apply to every route, which
  makes 30 a minute, not the 60 of `AuthConsts.ts:61-62`, the default.
- `README.md:128` of the repository says a logout is required to switch roles;
  neither SPA asks for one (`Beside`).
- Two logins can overlap: `submitting` (`LoginPage.tsx:25`, `SignupPage.tsx`) belongs to
  one mount, and nothing aborts the request of a page that was left. Whose `/auth/me`
  comes last is shown, whoever's cookie came last is kept.
- `logoutClient.ts:11` does not look at `res.ok`: a logout refused with 403, 429 or 500
  is not tried again, and the session is back at the next load.
- `CheckoutPage.tsx:29` speaks of a fresh key after an error, but the key stays until
  the form is mounted again (`Refused`), so that a corrected email sent after a lost
  answer can be refused as a body mismatch.
- `LmsLessonPage` and `LmsCourseDetailPage` ignore late answers (`cancelled`) but do
  not reset `isForbiddenOrNotFound` or `error` when only the id in the address
  changes: a refused lesson stays on the screen over the next one.

## 5. Proofs

Every invariant, action property and refinement that a passing run checks is stated
by a theorem, for every value of the constants. The eight `*_proofs` modules have one
shape: an invariant strong enough to be inductive (`IInv` and, where single theorems
need more, parts added to it), one lemma per part with a case per action, and the
theorems as consequences.

The constants' assumptions are of three kinds. `Null` and other markers differ from
real values (`NullAssumption`, `TokenAssumption`, in `SpaSession` also `"landed"`, the
mark of a refresh that is over); constants have the types their use in the code gives
them (`TimeAssumption`, `MapAssumption`, `ItemAssumption`, `LinkAssumption`,
`ShopperAssumption`, `ApiCallsAssumption`, `PoolAssumption`, the assumptions on roles,
`BoundAssumption`); and one compares two constants of the code: `WindowAssumption`,
`Grace <= RetainRevoked`, 10 seconds against 30 days (`AuthConsts.ts:102`, `114`).
Only `RevocationIsFinal` uses it. No theorem bounds how many tokens, requests,
invitations, jobs or calls there are, except that a pool has finitely many connections.

**`RefreshTokens_proofs`**

| theorem | statement |
|---|---|
| `TypeCorrect` | `Spec => []TypeOK` |
| `NoPhantomCookie` | `Spec => []SentIsDurable` |
| `SingleActiveToken` | `Spec => []OneActivePerFamily` |
| `ChainsStayLinear` | `Spec => []ChainsLinear` |
| `CacheIsFaithful` | `Spec => []GraceFaithful` |
| `LogoutIsFinal` | `Spec => []LogoutEffective` |
| `RevocationIsFinal` | `Spec => RevocationFinal` |
| `WaitingHasNoCycle` | `Spec => []NoWaitCycle` |
| `RotationIsASession` | `Spec => ImplementsSessions` |

`SentIsDurable` needs that a token a request works with, has just issued or finds in
the cache was issued (`TokIssued`, `SuccIssued`, `CacheIssued`). `OneActivePerFamily`
could be broken by a commit only, so the invariant carries to the commit what the
locked `SELECT` saw: the request still holds the row's lock and the row is still
active (`LockHeld`), its successor is nobody else's and not in the table
(`SuccFresh`), and a family is named by a token that was issued, so that a login
cannot start a family that exists (`FamilyIssued`). The lock is used in exactly one
place: whoever revokes a row (a commit, a logout, the cleanup) waits for its lock.

The others rest on the order of a chain (`ChainInv`). A token is revoked no earlier
than the one it replaced (`RevokedInOrder`); this too is a fact about open
transactions, since `revoked_at` is the time of `BEGIN`: whoever presents the
successor began after the predecessor was revoked. Rows expire in the order of their
links (`TimesInOrder`, with `ChainsLinear` itself). The cleanup therefore deletes the
old end of a chain, which is why `ON DELETE SET NULL` never cuts one in the middle and
`RevocationFinal` holds. `CacheInv` adds what a request between its commit and its
cache entry is about to say. `WaitInv` is for `NoWaitCycle`: a request that waits and is
waited for is on the theft path, waits for the one active row of its family
(`OneTarget`), and that row was still active when the family's update began, so that
two or three such requests cannot target each other (`NoTargetCycle`).

For the refinement four steps matter, each with a lemma: a login starts a session, a
commit advances one, a logout ends one, and the cleanup ends those whose accepted
token it takes, any number at once. All others leave the rows alone and are stutters.

**`Redemption_proofs`**

| theorem | statement |
|---|---|
| `TypeCorrect` | `Spec => []TypeOK` |
| `RedemptionIsWhole` | `Spec => []AllOrNothing` |
| `TokensNameAccounts` | `Spec => []TokensAreTrue` |
| `LoginOpensTheCourse` | `Spec => []LoginOpensCourse` |
| `RefusalsAreTrue` | `Spec => RefusalIsTrue` |
| `RedemptionAdmits` | `Spec => ImplementsAdmissions` |
| `OnboardingTypeCorrect` | `OnboardingSpec => []OnboardingTypeOK` |
| `ThePageIsTrue` | `OnboardingSpec => []PageIsTrue` |

Only a commit can break `AllOrNothing`, and by then the rows it writes for were read
several awaits ago, some of them on another connection. `HeldInv` says what still
protects them: the request has the lock of its invitation's row, which is still
`ISSUED` (`RowHeld`); an uncommitted account is one request's and the email is nobody's
(`KeyHeld`); an uncommitted place is one request's and free (`PlaceHeld`); and whoever
enrols is a student or becomes one with the same commit, or has met a place that is
taken (`StudentKnown`). The last is what makes a duplicate's login true although its
transaction was aborted. `AnsweredInv` keeps it for as long as the answer is remembered.
In the refinement only `Commit` and `SignUp` are steps of `Admissions`.

`PageStepIsServerStep` shows that each step of the onboarding page is one of
`Redemption` or changes nothing there, so all of the above holds behind the page.
`PageInv` needs that what the two reads found is final (`FactsAreFinal`: a place,
`REDEEMED`, an expiry, a student) and whose the request is that the page awaits.

**`Purchases_proofs`, `Checkout_proofs`**

| theorem | statement |
|---|---|
| `KeyBuysOnce` | `Spec => []OnePurchasePerKey` |
| `WholePurchases` | `Spec => []PurchaseIsWhole` |
| `CommittedJobs` | `Spec => []JobsAreCommitted` |
| `ReplayNeverContended` | `Spec => []PersistUncontended` |
| `AnswersStayTrue` | `Spec => []AnswersAreTrue` |
| `PurchasesTypeCorrect` | `Spec => []TypeOK` |
| `BuyingIsAtomic` | `Spec => ImplementsOrders` |
| `CheckoutRefines` | `CheckoutSpec => Spec` |
| `MountBuysOnce` | `CheckoutSpec => []OnePurchasePerKey` |
| `CheckoutTypeCorrect` | `CheckoutSpec => []CheckoutTypeOK` |
| `ThePageAgrees` | `CheckoutSpec => []PageAgreesWithPanel` |
| `CarefulShopperIsSafe` | `CheckoutSpec => []CarefulShopperBuysOnce` |

Again only a commit can break the first ones. While its transaction is open a request
holds its key in the unique index, no committed purchase has the key, its id is not
yet bought (`KeyHeld`) and no other open transaction has the id (`IdsDiffer`). That no
replay is in the way of another needs that a replay names a purchase made under its
own key (`ReplayOfItsKey`). An answer stays true because no row and no replay is ever
changed (`Growing`). In the refinement the commit is `Buy`, an enqueue `Notify`,
everything else a stutter.

The only thing `CheckoutRefines` needs is that the form's key is a key; what holds of
`Purchases` then holds behind the pages. `ThePageAgrees` follows from `TabIsTrue`, which
says that the tab names rows and items of its own parent only, together with
`AwaitedIsOurs`: an awaited request is the parent's, unless the process has died.
`CarefulShopperIsSafe` is the argument for the code's two guards taken together. The
duplicate guard reads before the transaction begins, so its answer may be out of date
at the commit. What remains of it is `GuardHolds`: a row of the item that appeared since
was bought under the request's own key, because all requests underway have one key
(`OneKeyUnderway`, which opening a form beside a request would break). Then the unique
index, and not the guard, refuses the second purchase.

**`InvitationEmail_proofs`**: `TypeCorrect` (`[]TypeOK`), `NoEmailIsLost`
(`[]CompletedMeansDelivered`) and `DuplicatesHaveACause` (`[]DuplicatesExplained`).
The number of emails has no inductive bound of its own, because a worker that has
loaded its job will send whatever becomes of the job meanwhile, and after a stall
there can be several. `BudgetInv` counts these workers (`MaySend`) with the emails:
together they are at most the attempts that ended unrecorded, plus one while the job is
active or its invitation marked (`Owed`). A stall or a failure before the mark gives up
the one and is counted; taking the job again needs it. After the mark nothing is counted
any more and the job may be taken any number of times: there the proof needs `Load`, by
which a worker that takes a marked invitation never joins those that may send.

**`AdminSession_proofs`**: `TypeCorrect` (`[]TypeOK`), `OneRefreshAtATime`
(`[]SingleFlight`), `LoggedOutStaysHidden` (`[]HiddenAfterLogout`) and
`ThePageShowsTheCaller` (`[]ShownUserIsCaller`) for `SpaSession`, and `BothSpasAreASession`
(`BrowserSpec => Spec`): the admin SPA, and a tab that goes from one SPA to the
other, is a session of `SpaSession`, so that the four hold there too. Single flight
needs that the refresh in the air is the one calls join (`OneFlight`).
`HiddenAfterLogout` needs no timing at all: after a logout the store has no user
(`NobodyStored`), and a late refresh brings a token only. `ShownUserIsCaller` needs
what is known of the logins that wait for `/auth/me` and are not shown yet: they are
one user's, whose are also the cookie and the refreshes in the air, if any
(`LoginsKnown`); and that nothing from before a reload is under way while the page
boots (`BootIsAlone`).

**`ConnectionPool_proofs`**: `WedgeHasOneCause` (`Spec => []WedgeExplained`), and
`FewNeverWedge`: with fewer open transactions than connections there is no wedge, for
finitely many requests. The invariant says who is in the queue (`QueueOK`), what
connections a request has at each stage (`OwnersOK`), that rows are held by open
transactions which wait for later rows only (`RowsOK`), and who is waiting for a second
connection (`NestingOK`). If nobody can go on, then among the transactions that wait
for rows the one that waits for the last row waits for one that does not wait for a
row (`NoCircle`); it can only be waiting for a connection, and every connection has
an owner that cannot go on either.

**`Server_proofs`**: `ServerRefinesPool` (`ServerSpec => Spec` of the pool, hence
`ServerWedgeHasOneCause`), `ServerTypeCorrect` (`[]ServerTypeOK`) and, from an invariant
that says what a handler has compared is still true (`OwnersInv`),
`OnlyTheOwnerGetsIn` (`TokensToTheOwner`) and `TheOwnerGetsIn` (`OwnerIsNotRefused`).

**Model-checked only**: liveness (`EveryRequestAnswered`, `EveryRedemptionAnswered`,
`EveryJobSettles`, `EveryCallSettles`, `EverybodyAnswered`, `WedgeIsReported`), which
needs fairness and `ENABLED` and is outside the proof system. The violated properties
of section 4 are false. **Proved and in no run of their own**: the types of
`RefreshTokens`, and those of `Redemption` and `Purchases`, which are conjuncts of the
composed type invariants; and `OnePurchasePerKey`,
`PurchaseIsWhole` and `JobsAreCommitted`, which `ImplementsOrders` covers there.

## 6. Reading order

`Sessions`, `RefreshTokens`, `RefreshTokens_proofs`; `Admissions`,
`LessonAccess`, `Redemption`, `Onboarding`, `Redemption_proofs`; `Orders`,
`Purchases`, `Purchases_proofs`, `Checkout`, `Checkout_proofs`; `ConnectionPool`,
`ConnectionPool_proofs`, `Credentials`, `Readiness`, `Server`, `Server_proofs`;
`InvitationEmail`, `InvitationEmail_proofs`; `SpaSession`, `AdminSession`,
`AdminSession_proofs`. Definitions named `Bug...` are never part of a specification:
each is the action or operator below it with a plausible mistake, and shows
which property notices it (`PROJECT.json`, "mutants").

## 7. Not modelled, and why

- Admin API, courses catalogue, lessons and courses pages, the liveness probe: reads
  and rendering without state of their own.
- Rate limiting: the counters and windows are `@nestjs/throttler`'s, in memory; what
  the repository decides is a bucket and a limit, for which section 4 compares code
  and documents. A refused request never reaches a handler.
- Origin check (`OriginAllowedGuard`): a stateless refusal before the cookie routes.
- Shared contracts and validation: a refused input is a nondeterministic refusal
  where it matters (`FindNobody`, `Reject`).
- `getProfile` and the parsing of `JWT_EXPIRES_IN`: a single read, a conversion nothing
  here depends on. Constant-time verification of unknown emails is not about states.
- The theft path's log entry and IP masking, and the cleanup job's retention alarm:
  logging.
- Seeds, configuration, logging, Bull Board's authentication: wiring. What an
  operator does on the board is `OperatorRetries`.
- `canonicaliseBody`'s ordering of keys: bodies are compared as hashes.

## 8. Plan

Done in this order: rotation and its proofs, redemption with lesson access,
purchases, email, the two SPAs, the checkout and onboarding pages with the proofs
for purchases, the pool with credentials and the readiness probe, `Orders`, and the
proofs of everything the passing runs check except liveness. Next:

1. `NoWaitCycle` for cycles of any length: waiting is along the chain, so a rank of
   the waiting requests should do.
2. `Purchases` with `InvitationEmail`, the enqueue's lost answer between them.
