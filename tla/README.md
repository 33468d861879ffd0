# A TLA+ model of the WISE SSO server

This directory specifies, model-checks and proves properties of the FastAPI
SSO server of this repository, `fastapi-auth-server/src/wiseacct_sso`
(abbreviated `wiseacct_sso/` below), and of what it shares with the Express
server it replaces, `auth-server/`. It is the program's own core: the identity
server that signs users in, issues and rotates refresh tokens, runs the OAuth
and OIDC flows and lets administrators manage accounts. Several server
processes and operations jobs share one PostgreSQL database and one Redis, so
most of what can go wrong lies between two requests, not inside one.

## 1. Inventory of the system

| Component | Source under `wiseacct_sso/` | State it keeps | Operations |
|---|---|---|---|
| Refresh-token sessions | `persistence/stores.py` (issue 375-409, rotate 416-481, logout 484-508), `application/auth.py` 881-999, `ops/refresh_cleanup.py` | `RefreshToken` rows; user status | issue, refresh, logout, revoke all, retention delete |
| Transactions | `persistence/database.py` | none: connections, retry count | run a callback in a transaction, retry on deadlock or serialization failure |
| Password sign-in and lockout | `application/auth.py` 350-454, `persistence/stores.py` 193-346 | `PasswordCredential` rows: hash, `failedLoginCount`, `lockedUntil` | login, count a failure, lock, reset the counter |
| Password reset | `application/auth.py` 598-674, `stores.py` 802-903 | `PasswordResetToken` rows | request, confirm |
| Registration and e-mail verification | `application/auth.py` 282-332, 456-596, `stores.py` 510-799 | `User`, `EmailVerificationToken`, pending password hash | register, resend, confirm |
| Redirect sign-in | `application/auth.py` 676-864, `infrastructure/auth_state.py`, `infrastructure/redis.py` | Redis keys: OAuth states, auth handoff codes; each server's Redis readiness | OAuth start and callback, create a code, exchange it |
| Social identities | `stores.py` 905-1047, `infrastructure/oauth_providers.py` | `SocialAccount` and `User` rows | resolve, link or create the identity |
| Rate limits | `application/auth.py` 253-280, `infrastructure/redis.py` | Redis counters with a lifetime | increment, refuse above the limit |
| OIDC provider | `application/oidc.py`, `infrastructure/oidc_state.py`, `infrastructure/oidc_tokens.py`, `api/oidc/` | Redis: login contexts, authorization codes, access tokens | authorize, sign in, exchange a code, userinfo |
| Administration | `application/admin.py`, `domain/admin.py`, `stores.py` 1050-1480, `api/routes/admin.py` | user status, roles, audit log | set status, assign and remove roles, revoke sessions, audit |
| Operations jobs | `ops/` | the same tables | refresh-token and audit retention, first administrator, default-role backfill, merge of split identities |
| HTTP and wiring | `main.py`, `config.py`, `api/middleware.py`, `api/routes/` | request-local | parsing, cookies, CSRF, CORS, configuration |
| Express server | `auth-server/src/` | the same database and Redis | the server the FastAPI one is to replace |
| Contract harness, qualification tooling | `contracts/`, `fastapi-auth-server/ops/phase7` | files, containers | black-box tests and evidence |

How they interact. Requests run concurrently, in one process as coroutines that
give way at every `await` and across processes without any order. They meet
only in PostgreSQL (READ COMMITTED, row locks, `persistence/database.py` 75-79)
and in Redis (single commands and Lua scripts). A handler of sign-in reads the
user on one connection, verifies the password with no transaction open, and
issues the session in a second transaction. An administrator is authorized on
one connection and the mutation runs later on another. OAuth and OIDC flows hop
between Redis (consume a state), a provider (HTTP) and PostgreSQL.

What is hard, component by component, and what makes it correct:

- *Sessions*: a refresh racing a second refresh of the same token, a logout, a
  suspension, a "revoke all" or the retention job. Correct: one token is redeemed at
  most once; a barred user keeps no session; revoked sessions stay dead; a
  revocation of all sessions misses none; nothing but complete requests is
  ever visible; deadlocks are broken and every request ends.
- *Transactions*: the callback is run up to three times. Correct: an aborted
  attempt leaves nothing behind, the retry is bounded.
- *Sign-in and lockout*: the counter and the lock are read before the password
  is verified and written after. Correct: concurrent failures are all counted,
  a lock in force stops every sign-in that begins after it.
- *Password reset*: a sign-in that verified the old password while a reset
  commits. Correct: a reset token is used once and ends the old sessions.
- *Registration, OAuth*: two requests create the same account. Correct: one
  account per e-mail and per social identity; no pending password survives
  an identity's takeover by its verified owner.
- *Redirect sign-in*: get, compare, consume-if-exact, with lost replies.
  Correct: a sign-in ends in at most one session, only for the client that
  began it, and a failure after consumption does not make a code reusable.
- *Administration*: the actor may lose the role between authorization and
  mutation. Correct: no administrator bars themselves, every change is audited
  in its own transaction.

`PROJECT.json` lists the hazards at their lines, with the properties that
cover them or the reason none does yet.

## 2. Plan

Order: most important behaviour first. The modules marked * exist.

1. `SessionStore`* (abstract: sessions, every request atomic);
   `Sessions`* (statement by statement) with its inductive invariant
   `SessionsInv`*, refining `SessionStore`, both proved in `SessionsProofs`*.
2. `AuthHandoff`*: redirect sign-in over Redis, ending in a `SessionStore`
   session; proved in `AuthHandoffProofs`*.
3. `LoginLockout`*: failed-login counter, lock, stale reads, password reset;
   proved in `LoginLockoutProofs`*.
4. `Accounts`*: registration, verification, OAuth resolution, reserved subjects;
   proved in `AccountsProofs`*.
5. `OidcFlow`*: transactions, codes and access tokens across PostgreSQL
   and Redis; proved in `OidcFlowProofs`*.
6. `AdminRoles`*: authorization against mutation, role removal, audit; the
   first-administrator and backfill jobs; proved in `AdminRolesProofs`*.
7. `IdentityMerge`*: the FastAPI and the Express job that merge split identities;
   proved in `IdentityMergeProofs`*.
8. `OneTimeGrant`* (abstract: a grant is good once) and `OneTimeLinks`*, what
   both servers redeem, refining it; proved in `OneTimeLinksProofs`*.
9. `Sessions` again, with the revocations of password reset (`stores.py` 847-903)
   and role removal (`application/admin.py` 222-273) row by row; `AdminRoles`
   has the latter with its UPDATE as one step.
10. `RateLimit`: the Redis counter and its lifetime.

Every invariant and action property of the passing runs is a theorem; only the
three liveness properties are model-checked alone. Theorems to come: with step 9,
`IInv` and the refinement for the revocations added to `Sessions`; that the reset
tokens of `LoginLockout` implement `OneTimeGrant`.

## 3. The modules and the code

| Module | What it is |
|---|---|
| `SessionStore` | abstract specification: the sessions' table with each request atomic |
| `Sessions` | the same requests, one SQL statement per action, with locks, aborts and retries |
| `SessionsInv` | the inductive invariant of `Sessions`, in named parts |
| `AuthHandoff` | redirect sign-in, one Redis command or transaction per action |
| `LoginLockout` | password sign-in, lockout and password reset, one SQL statement per action |
| `Accounts` | registration, mailed links and first OAuth sign-ins, one SQL statement per action |
| `OidcFlow` | the OIDC provider, one Redis command or SQL statement per action |
| `AdminRoles` | role administration, its jobs and the sign-ins that carry roles, one SQL statement per action |
| `IdentityMerge` | the two merge jobs, one transaction or lock per action, among sign-ins |
| `OneTimeGrant` | abstract specification: every grant is open, taken, redeemed or void, and pays once |
| `OneTimeLinks` | reset and verification links, OAuth states and handoff codes as both servers redeem them |
| `MC...` | symmetry sets and constants for TLC; the `.cfg` files give the instances |
| `...Proofs` | theorems and proofs of the module they are named after; `SessionsProofs` has those of `SessionStore` too |

### SessionStore and Sessions

| Variable | In the program |
|---|---|
| `status` | committed `"User".status` |
| `row` | committed `RefreshToken` rows: `live` is `revokedAt IS NULL`; `parent` is not a column, it records which row a rotation replaced |
| `expired` | rows whose `expiresAt` has passed |
| `pc`, `req`, `attempt` | the coroutine's place in the handler, its arguments and what it has read, the loop variable of `Database.transaction` |
| `ws`, `todo` | a transaction's uncommitted writes; rows a multi-row UPDATE or DELETE has still to visit |
| `writer`, `forUpdate`, `share`, `rowLock` | PostgreSQL row locks on `User` (FOR NO KEY UPDATE, FOR UPDATE, FOR KEY SHARE) and on `RefreshToken` |

| Request | Statements, as actions |
|---|---|
| `_issue_pair` | `StartIssue`, `LockActiveUser` or `NoActiveUser`, `InsertToken`, `Commit` |
| `refresh` | `StartRefresh`, `ReadToken` or `ReadNoToken`, `LockActiveUser`, `RevokePresented` or `RotationConflict`, `InsertToken`, `Commit` |
| `logout` | `StartLogout`, `Logout` (autocommitted) |
| `set_user_status` | `StartSetStatus`, `UpdateUserStatus`, then for a barred status `LockUserForRevocation`, `BeginRows`, `WriteRow`/`SkipRow`, `EndRows`; `WriteAudit`, `Commit` |
| `revoke_sessions` | `StartRevokeSessions`, `LockUserForRevocation`, rows as above, `WriteAudit`, `Commit` |
| `delete_eligible` | `StartCleanup`, rows as above, `Commit` |
| any | `Fail` at every point; `RetryDeadlock`, `GiveUp` on a cycle of waiting |

How PostgreSQL enters. At READ COMMITTED a statement sees what was committed
when it begins, and one that finds a row locked waits and then evaluates its
WHERE clause again on the new version. A single-row statement is therefore one
action, disabled while the lock is held, reading the committed row when it runs. A
multi-row statement fixes its rows in `BeginRows` and locks them one at a time,
each tested again by `StillMatches`. Inserting into `AuditLog` takes
FOR KEY SHARE on the actor's `User` row through the foreign key, the lock that
lets two administrators deadlock. The insert's other foreign key, on the
target, meets a lock the transaction already holds.

### AuthHandoff

| Variable | In the program |
|---|---|
| `states`, `codes` | Redis keys `wiseacct:oauth-state:*` and `wiseacct:auth-handoff:*`; a record stands for the sign-in whose binding it holds |
| `stale` | sign-ins whose record is past `expiresAtEpochMs` while Redis may still hold it |
| `who` | `record.userId` |
| `sent` | keys that a browser was redirected with and may present any number of times |
| `ready` | `RedisStateStore._ready` of each server |
| `pc`, `req`, `draws` | the coroutine's place, arguments and reads; the loop variable of `create` |
| `begun`, `by` | history: which sign-ins started, which one each session was exchanged for |

`oauth_start` is `StartOAuth`, `CreateState`; `oauth_callback` is
`StartCallback`, `ConsumeState`, `ResolveUser`, `CreateCode`; a password login
or an e-mail confirmation with a handoff is `StartPasswordSignIn`,
`CreateCode`; `exchange_auth_handoff` is `StartExchange`, `GetCode`, then
`DropExpired`, or `TakeCode` and `IssueSession` or `RefuseSession`. Each Redis
command can instead be a `LostReply` (with its effect or without, and the
server stops believing in Redis) or be refused by `NotReady`. The session is
one atomic step of `SessionStore`, which is what `Sessions` is proved to
implement.

### LoginLockout

| Variable | In the program |
|---|---|
| `cred` | committed `PasswordCredential` rows; two passwords are equal when they verify against the same hash |
| `active` | users whose `"User".status` is ACTIVE |
| `reset`, `lapsed` | committed `PasswordResetToken` rows, `used` is `usedAt IS NOT NULL`; tokens whose `expiresAt` has passed |
| `clock` | what `utc_now_ms` reads |
| `pc`, `req` | the coroutine's place, its arguments, what it has read of the credential, and the lock a failure of it would set |
| `draft` | the credential row a transaction has written and not committed |
| `credLock`, `resetLock` | PostgreSQL row locks on the two tables |
| `failed`, `uses` | history: failures committed since the last clearing, password changes made by each token |

| Request | Statements, as actions |
|---|---|
| `login` | `StartLogin`, `ReadCredential` (a connection of its own), `Verify` (no transaction open); then `CountFailure`, `LockAtThreshold`, `Commit`, or `ClearFailures`, `Commit` |
| `request_password_reset` | `RequestReset` |
| `confirm_password_reset` | `StartReset`, `FindReset`, `ConsumeReset`, `UpdateCredential`, `Commit` |
| any | `Fail` at every point; `Retry` of a transaction, from its first statement with the same inputs |

`Verify` is one action because nothing between the end of the hashing and the
branch awaits: `now` is read there, so the lock is compared with the time after
the hashing although it was read before it. The OIDC login page
(`application/oidc.py` 256-340) reads and writes the same row with the same
statements; a `StartLogin` is either. The password hash is computed for
unknown addresses too, with no effect on the state.

### Accounts

| Variable | In the program |
|---|---|
| `reserved` | `SubjectReservation` rows, which nothing in the program writes: chosen once, in `Init` |
| `user`, `password`, `pending`, `social`, `link` | committed `User`, `PasswordCredential`, `PendingPasswordCredential`, `SocialAccount` and `EmailVerificationToken` rows |
| `lapsed` | links whose `expiresAt` has passed |
| `pc`, `req` | the coroutine's place, its arguments and the rows it has read |
| `did`, `held` | what the open transaction has written; the row locks and unique-index entries it holds |
| `made`, `vouched`, `acts` | history: ids used, users somebody has answered for, changes made by each link |

| Request | Statements, as actions |
|---|---|
| `register` | `StartRegister`, `FindByEmail`, then `InsertUser`, or `FindCredential` and `Upsert`; `CommitRegister` |
| `request_email_verification` | `StartMail`, `LookupEligible` (a connection of its own), `InsertLink`, `CommitMail` |
| `confirm_email_verification` | `StartConfirm`, `FindLink`, `ReadUser`, `ReadPending`, `ConsumeLink`, then `ReadSubject` and `Activate`, or `Attach`; `CommitConfirm`, `Handoff` |
| `oauth_callback` | `StartOAuth`, `FindByProvider`, `FindByVerifiedEmail`, `Discard` or `LinkSocial`, `FindOwner`, `CreateUser`, `InsertSocial`, `CommitOAuth`; `ResolveLost` after a unique violation; `Handoff` |
| any | `Fail` at every point; `Retry` from the first statement of the transaction |

An UPDATE of a user's id and a DELETE take the rows that refer to it along
(`Cascade`), as the schema's foreign keys say. A unique violation meets the
committed row or waits for the request that is inserting it; it aborts the
transaction, and only OAuth looks again.

### OidcFlow

| Variable | In the program |
|---|---|
| `txn`, `state`, `code`, `token` | the four kinds of record in Redis: not yet made, live, gone |
| `given` | codes and tokens that have left in a response |
| `active`, `member`, `removing` | committed users that are ACTIVE and verified, or have the client's role; roles an open transaction has deleted |
| `lockedBy` | who holds the user's row FOR UPDATE |
| `pc`, `req` | the coroutine's place, what it presents and what it has made |
| `audited`, `broken` | history: whose success audit committed; whose request met a second failure |

`password_login`, `provider_start`, `provider_callback` and `provider_error` are
`StartPassword`, `StartProvider` and `StartCallback` with `TakeState`,
`GetTransaction`, `SetState` and `TakeTransaction`; `exchange_code` is
`StartExchange`, `TakeCode`; `userinfo` is `StartUserinfo`, `GetToken`. All
decide in `LockUser`, `ReadRoles`, and then `Create` in Redis inside the open
transaction, `Commit` and `Reply`, or `Deny`, `CreateFails`, `CommitFails` and
`Cleanup`. `Vanish` ends a process anywhere, `Expire` a record.

### AdminRoles

| Variable | In the program |
|---|---|
| `status`, `roles` | committed `"User".status` and `UserRole` rows |
| `live` | the role sets in the tokens of each user's live sessions |
| `audited` | how many roles a user has by the committed `AuditLog` rows: assignments less removals |
| `pc`, `req`, `ws` | the coroutine's place, its arguments, its transaction's writes |
| `writer`, `forUpdate`, `share`, `roleRow`, `key` | PostgreSQL row locks on `User`, `Role` and `UserRole` |

| Request | Statements, as actions |
|---|---|
| `set_user_status` | `StartSetStatus`, `Authorize`, `UpdateUserStatus`, for a barred status `LockUserForRevocation`, `RevokeTokens`; `WriteAudit`, `Commit` |
| `assign_role` | `StartRoleChange`, `Authorize`, `UpsertRole`, `GiveRole`, `WriteAudit`, `Commit`; or `AlreadyGiven`, `Commit` |
| `remove_role` | `StartRoleChange`, `Authorize`, `TakeRole`, `LockUserForRevocation`, `RevokeTokens`, `WriteAudit`, `Commit`; or `NothingTaken`, `Commit` |
| `revoke_sessions` | `StartRevokeSessions`, `Authorize`, `LockUserForRevocation`, `RevokeTokens`, `WriteAudit`, `Commit` |
| first administrator | `StartBootstrap`, `FindActiveUser`, `UpsertRole`, `GiveRole` or `AlreadyGiven`, then as a removal from its lock on |
| default-role backfill | `StartBackfill`, `TakeSnapshot`, `FillRoleless`, `Commit` |
| sign-in or refresh | `StartIssue`, `LockActiveUser` or `NoActiveUser`, `ReadRoles`, `Commit` |
| any | `Fail`, `Retry` |

### IdentityMerge

| Variable | In the program |
|---|---|
| `db` | the committed rows of `User`, `PasswordCredential`, `SocialAccount`, and who has a live session |
| `lock` | the job whose transaction holds a user's rows |
| `job` | each job's place, what it discovered, what it has left, its counters |
| `audit` | the merges each job's last run committed |
| `proc`, `changes` | sign-ins under way and what they have read; how often a status was changed |

`Discover`, `Take` and `Report` are the loop of a job. The FastAPI job
goes `LockCandidate` or `StaleCandidate`, `CommitMerge`; the Express one
`UpdatePasswordUser`, `UpdateCanonicalUser`, `CommitMerge`, and ends at a
`MissingRow`. `RetryMerge`, `CommitLost` and `FailJob` are their failures.
Sign-ins read in `VerifyPassword`, `FindSocial` and `ReadOwner` and write later,
in `Attach`, `Create` and `Issue`.

### OneTimeGrant and OneTimeLinks

| Variable of `OneTimeLinks` | In the program |
|---|---|
| `used` | rows with a committed `usedAt`, keys that Redis no longer has |
| `status`, `pending` | committed `"User".status`; users with a pending password |
| `subject` | whose the id reserved for the user's address is: chosen in `Init`, `"moved"` once an activation has given it to the user |
| `redemptions` | history: how often a grant paid |
| `pc`, `req` | the request's place; what it presents and has decided |
| `rowLock`, `userLock` | PostgreSQL row locks on the token and on the user's rows |

A reset link is redeemed by `FindRow`, `MarkRow`, `ResetPassword`, `Commit`; a
verification link by `FindRow`, `ReadEligibility`, `MarkRow`, then
`ActivateUser`, `ActivateNobody` or `AttachPassword`, and `Commit`; a state by
`ConsumeState`, `Pay`; a handoff code by `GetCode`, `TakeCode`, `Pay`. Each
refusal is an action of its own. `Fail`, `ReplyLost` and `Evict` strike at any
time. Whether a grant has expired is a choice of each request, so servers whose clocks
differ are included.

An activation whose user's address has a reserved id that nobody has (`subject` is
`"free"`) goes `RenameUser`, `CascadeRename`, `Commit`: from then on whoever has
read the old id (`id` of a request) finds nobody. A reset that does so after its
mark is `ResetNobody`, which commits the use of the link without a password
(`password-reset.store.ts` 75-78). The cascade writes the token rows of the user,
one of which may be marked by a transaction that waits for the user:
`BreakDeadlock` ends one of the two. In `Init` only a pending user may have a
reserved id to move to, because nobody else's is asked for; an administrator made that
user pending, so a reset link from before is still good.

The statements and scripts of the two servers are
the same; the definitions are mapped to `auth-server/src`. The mapping to
`OneTimeGrant` (`GrantStates`) reads a grant's abstract state off the store and
the one request that may hold it.

## 4. What the runs check

| Run | States | Shows |
|---|---|---|
| `sessions_race` | 92,525 | `BarredUserHasNoLiveSession`, `OneSuccessorPerToken`: three concurrent sign-ins, refreshes and suspensions |
| `sessions_admin` | 334,604 | `IInv`, `ImplementsStore`, `RevokeAllLeavesNothingLive`, `DeadSessionsStayDead`, `SessionRequestsNeverDeadlock`: every kind of request, two at a time, deadlocks and retries included |
| `sessions_progress` | 155,750 | `EveryRequestEnds` under fairness: two administrators who revoke each other's sessions, and the retention job against a revocation on two token rows |
| `handoff` | 243,416 | `OneSessionPerSignIn`, `SessionOfOwnSignIn`, `LiveCodeSpentOnlyByItsClient`, `SignInNeverGoesBack` |
| `lockout` | 994,796 | `LockFollowsCount`, `EveryFailureCounts`, `GuessesBounded`, `LockHolds`: two requests sign in or reset at a time, with retries, suspensions and locks that end |
| `accounts` | 932,033 | `PasswordVouched`, `EveryAccountReachable`, `ReservedSubject`, `LinkActsOnce`, `NoLinkWasted`, `SocialLinkedByProof`, `OwnerSignsIn`: two requests at a time over one address, one link and one identity |
| `accounts_discard` | violation | `OnlyPendingDiscarded` fails: see below |
| `oidc` | 314,452 | `OneCodeOneToken`, `DecisionHolds`, `GivenIsAudited`, `OrphanTakesTwoFailures`, and `EveryRequestEnds` under fairness |
| `admin_roles` | 334,942 | `RolesMatchAudit`, `LastAdminFallsOnlyToOverlap`: two users change each other's status and roles, with the bootstrap and the backfill |
| `admin_tokens` | 249,230 | `LiveSessionsCarryHeldRoles`: sign-ins against removals, revocations, bootstrap and backfill |
| `identity_merge` | 182,574 | `IInv`, `StaleNeverMerged`, `PasswordsSurvive`, `PasswordWithItsAddress`, `ReportsCommits`: both jobs on one address with two Google accounts |
| `links` | 189,312 | `EveryGrantIsOneTime` (the refinement), `ResetLostOnlyToRename`, `VerifySpentOrNeedless`, and `EveryPresentationEnds` under fairness |

What the properties say of the program:

- `BarredUserHasNoLiveSession`: suspending or deleting a user and ending the
  sessions is one transaction, and no sign-in or refresh under way slips past it.
- `OneSuccessorPerToken`: of concurrent refreshes with one token at most one
  succeeds.
- `RevokeAllLeavesNothingLive`: when a revocation of all sessions commits, none
  of that user's is live, not even one inserted after its snapshot.
- `DeadSessionsStayDead`: nothing revives a revoked or deleted row, and a row never
  changes hands.
- `SessionRequestsNeverDeadlock`: sign-in, refresh and sign-out are never on
  a waits-for cycle; only administrators' mutations and the retention job are.
- `ImplementsStore`: each request takes effect at one point or not at all.
- `OneSessionPerSignIn`, `SessionOfOwnSignIn`: a sign-in ends in at most one
  session, held by the client that began it, for the user who signed in.
- `LiveCodeSpentOnlyByItsClient`: a live code is not spent by a wrong
  binding, a late cleanup, a colliding draw or a failing server.
- `SignInNeverGoesBack`: a sign-in moves through its stages in one
  direction; a consumed state or code is never usable again, even
  when what follows its consumption fails.
- `LockFollowsCount`: a lock is set exactly while the counter is at the
  threshold; no clearing leaves one without the other.
- `EveryFailureCounts`: of concurrent failures none is lost, so the fifth locks
  though no request has seen five. Line 96 of
  `docs/model-evaluation/SSO_FASTAPI_MIGRATION_PRD.md` asks for this under
  concurrent requests.
- `LockHolds`: under a lock in force only a password reset, or a sign-in that
  had read the credential before that lock was set, changes the credential. The
  last case is real: such a sign-in clears the lock if its password is right.
- `GuessesBounded`: requests that read the credential before a lock was set
  still count their failures after it. Until the first lock can end, the
  failures past the threshold are fewer than the requests in flight.
- `PasswordVouched`: no password opens an ACTIVE account unless a mailed link
  or an administrator answered for its address; one registered before the
  address's owner came does not survive.
- `EveryAccountReachable`: whatever links, discards and renames, an account
  keeps a credential or an identity to sign in with.
- `LinkActsOnce`, `NoLinkWasted`: a link changes an account at most once, and
  is used in vain only if somebody had answered for the user, or the reserved
  subject is another's.
- `ReservedSubject`: a proved address with a reserved subject ends at it.
- `SocialLinkedByProof`, `OwnerSignsIn`: an identity comes to an existing
  account only by the address both sides have verified; whoever wins a race of
  first sign-ins, the loser signs in the same user.
- `OneCodeOneToken`: a transaction buys one code, a code one token.
- `DecisionHolds`: `lock_user` reads status and roles in two statements, of
  which only the first locks; its decision is still true of the committed
  database when it is acted upon.
- `GivenIsAudited`, `OrphanTakesTwoFailures`: nothing is handed out whose
  success audit did not commit, and one failure leaves nothing usable behind.
- `LiveSessionsCarryHeldRoles`: a session issued with a role ends with it, one
  being issued while the role is removed included.
- `RolesMatchAudit`: however assignments and removals race, fail or are run
  again, a user has as many roles as assignments less removals are audited: none is
  audited that changed nothing, none changes a role unaudited. The log says
  no more than that. An assignment over HTTP passes only the route
  (`api/routes/admin.py` 464), so its row names no role; `createdAt`, by which the
  log is listed (`stores.py` 1410), is taken before the transaction, so a
  row may be listed before one that committed earlier; and retention deletes old rows. So the
  property counts the rows ever committed and reads nothing off their order. A bootstrap
  writes its row also where the role was there already, and that one is not counted;
  the backfill writes none and is counted as if it did.
- `LastAdminFallsOnlyToOverlap`: the code lets the last administrator fall
  to two administrators who demote each other at once, each authorized before the other
  committed, or to an own change to pending. Among the requests of this module, that is:
  the merge job and the OAuth discard also delete users, and their roles with them.
- `StaleNeverMerged`: the FastAPI job merges only what is a candidate at its
  commit. The Express job has no such check, and the property does not hold of it.
- `PasswordsSurvive`, `PasswordWithItsAddress`: no merge loses a password or
  parts it from its address, whichever jobs run at once.
- `ReportsCommits`: what a job that ends prints is what it committed, and every
  candidate is accounted for.
- `EveryGrantIsOneTime`: rows that a rollback opens again and keys that stay
  gone both implement `OneTimeGrant`.
- `ResetLostOnlyToRename`, `VerifySpentOrNeedless`: a spent reset link has set the
  password, unless an activation gave its user another id between the reset's read of the
  token and its mark; a spent verification link did its work, or its user needs it no
  more or can never be activated.

Each property is shown to bite: `PROJECT.json` pairs it with a plausible bug
in a mapped definition, under which TLC finds the property violated.

The finding of `accounts_discard`: `resolve_or_create` (`stores.py` 974) reads
the user of a verified address as pending and unverified and then deletes it by
id alone. A confirmation or an administrator may have made it ACTIVE in
between; the account goes, with its credential and sessions. The rule
(`auth-server/docs/HANDOFF_20260729.md` 77) speaks of pending accounts only.

Two observations that contradict no document, so no run claims them: the
first-administrator job reads the user as ACTIVE without a lock
(`ops/first_admin.py` 91) and may give the role to a user suspended meanwhile;
and if the role is there already and is removed before its commit, it still ends in
success, with an audit row that says it was assigned (line 139).

Bounds, and why they are enough:

- `Proc`: three requests for the race (the two that conflict and a third that
  profits), two elsewhere, one sign-in beside the two merge jobs. Conflicts here are between pairs over one
  row; two requests already form every waits-for cycle on one pair of rows.
- `Token` of `Sessions`: three rows for the race (a token, its replacement, a second
  session), two otherwise. `TokensLeft` admits an inserting request only when
  a row is left for it, so the table's bound never blocks a transaction in
  the middle.
- `User`, `Admin`: two users administering each other are the mutual
  suspension; in the race only one is an administrator.
- `MaxAttempts = 2` against the code's 3, `MaxDraws = 2` against its 3: a first
  try and a last one, which is all either loop distinguishes. The proofs hold
  for any positive number.
- `Statuses`: DELETED is treated exactly like SUSPENDED by this
  code, PENDING_EMAIL_VERIFICATION like "neither ACTIVE nor barred"; the
  proofs cover all four.
- `Kinds`: the requests of a run. Liveness is checked without symmetry, so
  `sessions_progress` leaves out the logout, one statement, the suspension, a
  revocation with one more UPDATE before it, and the refresh, which waits for the
  locks a sign-in and a logout wait for.
- `Server = {s1}`: the servers differ only in `ready`. A reply lost by one
  server while another carries on is a `LostReply` followed by `Probe`.
- `Key`, `SignIn`: two of each, so that a draw can collide with a live key and
  a code of one sign-in can be presented under the other's binding.
- `LoginLockout`: one user, because no statement touches two credentials; two
  passwords, one right and one wrong, which a reset may exchange; two reset
  tokens, so that one is confirmed while the other stays valid.
  `Threshold = 2` against the code's 5: below, at and past it are all reached,
  a second failure in flight takes the counter past it. `LockTime = 2`,
  `MaxTime = 3`: a lock is set, is in force, ends, and a failure after it sets
  a later one.
- `Accounts`: one address, one identity and one link, over which every race of
  these requests is; three ids, so that a discarded account, the reserved subject
  and a newly drawn id all differ. OAuth profiles come with the address or without, verified or
  not.
- `OidcFlow`: one transaction, provider state, code and user, two tokens. So
  TLC can see a second token for a code, but not a second code for a
  transaction: that half of `OneCodeOneToken` rests on its proof.
- `AdminRoles`: two users, the admin role and the default role; the kinds are
  split into those that change roles and administrators (`admin_roles`) and those
  that race a sign-in (`admin_tokens`).
- `IdentityMerge`: three users and two Google accounts of one address, so that
  the account a merge keeps can itself be the password account of the next merge. `Suspensions = 2`: a
  status changes and changes back.
- `OneTimeLinks`: one grant of each kind and a second verification link, all of
  one user, because grants of different users share nothing.

CHECK_DEADLOCK FALSE is set in `sessions_race`, where every token may be spent
and the only administrator suspended, and in `identity_merge`, where every id
may be used up: nothing more arrives then.

Fairness. In `sessions_progress`, `SF(Statement(p))`: PostgreSQL
queues the waiters of a row lock, so a statement that can run again and again
gets its turn; it must be strong, because each competing request disables it
for a while. `WF(BreakDeadlock(p))`: the deadlock detector runs after
`deadlock_timeout` and a cycle persists until it acts. In `oidc`, `WF(Step(p))`
and, for the one statement that waits, `SF(LockUser(p))`; `WF(EndRemoval(u))`: an
administrator's transaction ends. In `links`, `SF(Step(p))` for the same reason.
Nothing is assumed of arrivals, failures, evictions or time.

## 5. What is proved

The proofs hold for all users, tokens, keys, requests and servers, from the named
assumptions of the modules: `None` differs from everything else, the
administrators are users, the enumerated kinds and statuses are real ones,
`MaxAttempts` and `MaxDraws` are positive, codes are not tokens, the administrator's
lock holder is nobody else, the two roles differ, every grant has a kind and an owner.
Two sets whose members are counted are finite: the requests in flight of `LoginLockout`
(`ProcAssumption`) and the Google accounts of `IdentityMerge` (`SocialAssumption`).

*Sessions.* The properties are not inductive: that a rotation's token is still live at COMMIT
depends on the locks taken statements earlier. `IInv`
(module `SessionsInv`) says of each request, at each statement, which lock it
holds and what it may have written: an inserting request holds its user ACTIVE
(`LockInv`), a row about to be ended is live, locked and its user's
(`WriteInv`), and every live session of the user of a revocation is either
still to visit or already written. A step of another request cannot break
this, because it leaves alone what p has locked: `OthersLemma` states that once, and each
action then has a short proof about the request that takes it. `Refinement`
maps COMMIT and the autocommitted logout to the atomic request and every
other step to stuttering, so the store's three properties, proved for
`SessionStore` alone, hold of the interleaved program (`BarredUsers`,
`OneSuccessor`, `DeadSessions`). `RevokeAllTheorem` uses `IInv` at the commit.

`SessionRequestsNeverDeadlock` needs a second invariant, `WaitInv`: a request that has not
passed its first lock holds nothing (`HoldsNothing`), a token row is locked by
the request that ends it (`LocksEndRows`), and the retention job spares the rows
a refresh under way could redeem (`SparesFresh`). A sign-in or refresh waits for the user's
row alone, when it holds nothing, so nobody waits for it and it is on no cycle
(`NobodyWaitsLemma`). The refresh's conditional UPDATE, with the user locked, does not wait:
whoever has written the presented row holds that user too, or is the
retention job (`RevokeRunsLemma`).

*AuthHandoff.* The strengthening is that at most one thing carries a sign-in
on: a state key, a request, a code key, or the session (`OneCarrier`).
`CarrierStep` shows that every step either lets some of these go or moves the sign-in
from one to the next, and that the sign-in's stage never
falls; `HandoffInvariant`, `OneSession`, `OwnSession` and `NeverBack` follow.
`LiveCode` follows from what a request at "drop" or "take" knows
(`RequestInv`).

*LoginLockout.* `LockFollowsCount` is about committed rows, and a commit publishes a draft
written statements earlier. `TransactionInv` says of the draft that it is one
failure more than the committed row, or clear, and that its writer still holds
the row: this is where the atomic increment and the row lock are needed, and
the mutant that counts without the lock breaks it. `RequestInv` carries what was read
before: a request that counts or clears found no lock in force in what it read,
which the clock's progress preserves. `LockHoldsTheorem` reads it off at the commit:
a lock in force is then not the one the request read.

`GuessesBounded` counts requests. `Racing` are those past their read that saw no lock. Once
the threshold is reached every later read sees the lock, so nobody joins them
(`NobodyJoinsLemma`), and each failure that still counts takes its request out of them:
the failures and the racers together do not exceed one less than the threshold
plus the requests in flight (`RaceInv`). That a request which saw a lock does not count
needs that no lock, stored, seen or drafted, lapses before `LockTime` (`PendingInv`).

*Accounts.* Every request reads without a lock and writes later, and the rows of a
person are renamed or deleted meanwhile. `AccountsInv` has three parts. `RowsInv` is
what the schema keeps: unique addresses, foreign keys, and reserved subjects, which have their
own address and never disappear. `SeenInv` and `LinkInv` say what a request
may still rely on of what it read without a lock: the user a sign-in found has its
address unless the user is gone, and a link still mailed to the user it was found for has never
changed hands, because a rename goes from an id that is not reserved to one that is
(`MailedLemma`). The others (`ConfirmInv`, `DiscardInv`, `CreateInv`, `SocialInv`,
`RegisterInv`) say that what was tested when a lock was taken holds while the
lock is held. A commit is described by the locks it was made under
(`Footprint`): whatever it changes, it had locked. Two transactions hold no
locks that clash (`LockInv`), so `HeldLemma` and `OthersLemma` show once that a
commit leaves alone what another request relies on; `Administer` commits
under the lock of its UPDATE. Each of the four commits is then shown to have
its footprint and to keep the tables' properties; an activation that keeps its user's id and one
that renames it are two lemmas, and so are a sign-in that links and
one that creates its user. `NoLinkWasted`, `SocialLinkedByProof` and `OwnerSignsIn` follow from the
invariant at the one action that can take the step. TLC agreed with `AccountsInv` on the
instance of `accounts` before it was proved.

*OidcFlow.* `IInv` says that what a request pays with is gone from Redis and
has bought nothing (`Pays`), that nobody else pays with it (`PaysAlone`), and that the user's row
is held from the read of the status to the end (`Locks`). A removal of the role
deletes first and locks after, so a decision that read the role holds the row
before the removal can commit: this is why two reads of which one locks
are enough, and the mutant that reads the user without FOR UPDATE breaks it.

*AdminRoles.* `LockInv` says that between the reading of the roles, or the ending of the
sessions, and the commit, the request holds the user FOR UPDATE, so that what
it read is still so. `LiveSessionsCarryHeldRolesTheorem` is that at the two
commits that matter. `RolesMatchAuditTheorem` needs `KeyInv`: the `UserRole` row, or unique-index
entry, a request has written stays its own, so a role it gives is still missing at its
COMMIT and one it takes is still there, and its one audit row stands for a change of one; `LastAdminTheorem` reads off
`RequestInv` that an actor passed `SelfAllowed`.

*OneTimeLinks.* One fact about every step of a request, that it spends and
redeems only its own grant and begins to hold one only by taking it out of the
store (`Spends`), gives both the inductive invariant (`LinksInvariant`) and
the refinement: `LinksAreOneTime` maps each step to `Take`, `Redeem` or `Lose` of
that grant, or to a stutter. `ResetLostTheorem` and `VerifySpentTheorem` add what
a request knows on its way to COMMIT (`PurposeInv`).

*IdentityMerge.* A candidate waits between its discovery and its merge, while its
rows change. `Known` is what stays true of it all the same: its password is
where it was found, or that account is gone for good. With it the Express job,
which does not test its candidates again, still moves a password only together with its address
(`PasswordStays`), because at COMMIT it holds both users and has found the password
user there. `StaleTheorem` is about the FastAPI job alone: what it tested when it
took the locks nobody could change since (`AroundLemma` for sign-ins and
administrators, `CommitLemma` for the other jobs).

`ReportsTheorem` is an account of the candidates (`CountInv`): while a job runs, each one it
discovered is audited, stale, in its hands or still to come, and never two of these, so its
counters add up and no merge is audited twice. The candidates are as few as the Google accounts,
because an account is linked to one user (`CandidatesFiniteLemma`).

The inductive invariants of `AuthHandoff`, `LoginLockout`, `Accounts`, `OidcFlow`,
`AdminRoles`, `IdentityMerge` (`MergeInv`) and `OneTimeLinks` are proved and are not
among the properties of the runs; that of `Sessions` is both, and so is the part
of `MergeInv` named `IInv`.

TLC agreed with `WaitInv`, `PendingInv`, `RaceInv` and `CountInv` on the instances of
`sessions_race`, `sessions_admin`, `lockout` and `identity_merge` before they were proved.

Only model-checked: `EveryRequestEnds` (of `Sessions` and of `OidcFlow`) and
`EveryPresentationEnds`, because liveness under fairness is out of the prover's
reach.

## 6. What is not modelled

- In `Sessions`: the audience check of a refresh (a token of another audience ends the
  request as a missing one does), what JWTs contain, audit rows
  beyond their foreign-key lock, the SELECT of logout that only names the user
  for the audit row, and retries for serialization failures, which READ
  COMMITTED does not raise. Users exist throughout; deleting a row of `User`
  is part of `Accounts`. `InUse` assumes that a refresh does not stay under
  way for the day or more between a token's expiry and the retention cutoff; it spares only
  live rows, a revoked one is deleted whoever presents it. A refresh keeps
  the judgement of expiry it arrived with, as the code does with its `now`, and no
  property speaks of expiry at the COMMIT.
- In `AuthHandoff`: a SET NX that Redis executes only after its caller has timed out and
  tried another key (the stray key is drawn by nobody and expires), a loss of Redis's data, unparseable records, failures of the audit
  writes that answer the client without changing what is stored
  (`Fail` covers their effect on the request), and how a
  profile is matched to a user. Two sign-ins never share a code challenge: a client that
  reuses its verifier has made them one.
- In `LoginLockout`: what follows a sign-in (its session is `Sessions` or
  `AuthHandoff`), the reset's lock of the user (and its end when that finds nobody, which is
  `ResetNobody` of `OneTimeLinks`) and its revocation of sessions,
  accounts without a credential, a status of PENDING_EMAIL_VERIFICATION as
  anything but "not ACTIVE" (its right password only changes the error), the
  audit rows, the bound of three on retries (the model retries any number of times), and the
  job that moves a credential to another user (`ops/merge_split_identities.py`).
- In `Accounts`: what hashes contain and the mail itself, the roles seeded with an account
  (`AdminRoles` has roles), and the Redis half of the handoff that follows a
  sign-in, which is `AuthHandoff`.
- In `OidcFlow`: the password check and its counter (`LoginLockout`), how a
  profile finds its user (`Accounts`), scopes, claims, keys and pages; client
  authentication is in what a request shows.
- In `AdminRoles`: the row-by-row UPDATE of a revocation (`Sessions`), listings
  and filters, what an audit row says beyond its event and user, and audit
  retention, which deletes rows no decision reads.
- In `IdentityMerge`: users without a verified address, the job's dry run and
  its output beyond the counters. That a job ends is not claimed: a retry
  may meet a conflict every time.
- In `OneTimeLinks`: how grants are issued and sent (`AuthHandoff`,
  `Accounts`), and an administrator's change of a user back to pending.
- *Express server*: its sign-in, refresh and administration run the statements
  the other modules take from the FastAPI code; they are not mapped a second time.
- *Rate limits*: a counter is read, incremented and given its lifetime by one
  Redis script, so no two requests interleave inside it, and a request it refuses
  has not begun in any module here. What is left, the fixed window that lets twice
  the limit through across its edge, would be a small module of its own.
- *HTTP layer and wiring*, *tokens, passwords, mail, catalogue*: parsing,
  configuration and cryptography keep no state between requests.
- *Contract harness and qualification tooling* (`contracts/`,
  `fastapi-auth-server/ops/phase7`): black-box tests and evidence collection,
  much of the repository's code by size, and not part of the running system.
