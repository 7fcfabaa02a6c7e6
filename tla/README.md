# TEMIS SSO Lab: verification

TLA+ models of the TEMIS SSO service, the TLC runs that check them on small
instances and the TLAPS proofs that hold for every instance.  Paths below are
those of the repository; the Python packages are under `src/src/`.

    tlc -workers 2 -config authorization.cfg MCSessions.tla     # a run
    tlapm SessionsProofs.tla                               # a proof module

## 1. The system

Three processes talk HTTP: the **SSO service** (`temis_sso`: PostgreSQL for
accounts, grants and one-time tokens, Redis for one-time OAuth values, a
directory of signing keys), the **resource API** (`resource_api`: verifies access
tokens with the SSO's JWKS and asks `/auth/status` about the account) and the
**BFF** (`temis_bff`: a browser's session, an OAuth client of the SSO).

| Component | State | Operations | Correct when |
|---|---|---|---|
| Accounts, grants and tokens (`api/auth.py`, `api/admin.py`, `application/*.py`, `tokens.py`, `persistence.py`) | `users` (status, authz_version, failed_logins), `user_roles`, `refresh_grants`, `one_time_tokens`, `audit_logs`; signed access tokens | register, verify, login, refresh, logout, password reset, approve, suspend, grant/remove role, revoke sessions, `/auth/status` | a refresh token is used once; an authorization change ends every session and every token of the account, for good; a token accepted has the present roles |
| Signing keys (`keyring.py`, `_load_codec`) | `keyring.json`, key files, a flock | publish, activate, retire, sign, JWKS | one active key; a live token's key is never retired; no writer loses another's update; a crash leaves a usable directory |
| Resource API (`resource_api/auth.py`) | JWKS cache, negative cache, status cache, refresh lock | authenticate, `/reports` | a token of a live key is accepted within the cool-down; a revoked one is refused within `status_ttl` |
| Authorization code flow (`api/oauth.py`, `oauth_state.py`, `fake_provider.py`, `client_policy.py`) | Redis keys: transactions, provider codes, authorization codes | authorize, provider callback, token | each state and code once, for the client, URI and verifier it was made for |
| BFF (`temis_bff/*.py`) | pending logins and sessions in Redis | login, callback, session, logout | a session for each completed login, none after logout |
| External identity providers (`external_idp/*`, `api/naver_oauth.py`, `api/kakao_oauth.py`) | flow stores and JWKS caches in memory, `external_identity_links` | login, callback, revoke | each state once, from the browser it was made for; one link per subject |
| Observability, configuration, start-up, migrations, scripts | counters, settings | | not stateful protocols |

How they interact: every SSO handler runs one or two `session_scope()`
transactions on PostgreSQL (READ COMMITTED, no pool), many handlers at a time;
concurrency between them is concurrency between SQL statements.  `issue_access`
signs inside the transaction with the key ring, whose directory is shared by all
worker processes and by the operator who rotates keys.  The resource API sees
accounts only through `/auth/status` and keys only through `/.well-known/jwks.json`,
both cached.  The BFF holds the refresh token of a browser and calls `/auth/logout`.

What is hard: a handler reads a row without a lock, then writes another; a
statement waits for a row lock and goes on with a snapshot from before the wait;
two handlers lock the same rows in opposite orders; a handler is two transactions
and the process may die between them; the key ring is a file replaced under a
lock that its readers do not take; caches answer from the past.  `PROJECT.json`
lists these hazards line by line, with the property that covers each or the
reason why none does yet.  In the flows it is values that may be used once: read
and deleted in one Redis command or in one step of the event loop, presented twice,
in another browser or in another login, lost with a process that dies before it has
used what it took.

## 2. Modules

| Module | Models |
|---|---|
| `SessionLedger` | abstract: what the account and session handlers promise, each one atomic step |
| `Sessions` | the handlers, one action per SQL statement or commit, with PostgreSQL's row locks |
| `MCSessions` | instance and symmetry for TLC |
| `SessionsProofs` | inductive invariant, safety theorems and the refinement `Sessions => SessionLedger` |
| `KeyRing` | the key ring: writers under the flock, signers outside it, crashes, a clock |
| `MCKeyRing` | instance and symmetry for TLC |
| `RingPromise` | abstract: what the ring promises those who verify tokens, each operation one atomic step |
| `KeyRingProofs` | inductive invariant, safety theorems and the refinements `KeyRing => RingPromise` and `KeyRing => JwksService` |
| `JwksService` | abstract: what verifiers may assume of the JWKS; `KeyRing` implements it, `JwksVerifier` has it as its environment |
| `JwksVerifier` | the resource API's verifier: its caches, its refresh lock, the awaits between them |
| `MCJwksVerifier` | instances, symmetry and view for TLC |
| `JwksVerifierProofs` | the two layers of the inductive invariant and the safety theorems of the verifier |
| `LoginPromise` | abstract: what a browser's login through the BFF promises |
| `OAuthFlow` | the SSO's authorization code flow, its lab provider and the BFF; composes `SessionLedger` |
| `MCOAuthFlow` | instance and symmetry for TLC |
| `OAuthFlowProofs` | inductive invariant, safety theorems and the refinement `OAuthFlow => LoginPromise` |
| `ExternalLogin` | Google, Naver and Kakao: flow stores, callbacks, account links, Google's key cache |
| `MCExternalLogin` | instance and symmetry for TLC |
| `ExternalLoginProofs` | inductive invariant and the safety theorems of the external logins |
| `Credentials` | passwords: registration, one-time tokens, reset, the lock after failed logins |
| `MCCredentials` | instance and symmetry for TLC |
| `CredentialsProofs` | inductive invariant and the safety theorems of the password handlers |

Operators whose comment begins with `Fault:` are not part of a specification: each
is a plausible bug in the definition that follows it and shows that a property
notices it (`PROJECT.json`, "mutants").

### Sessions

A *request slot* (`req[r]`) runs one handler at a time; `pc` is the statement it
runs next.  What a transaction has written is kept in its slot (`pend`, `new`,
`op`) until the commit action, which writes it to `users` and `grants` in one
step; a read is of committed rows, as READ COMMITTED reads.  A refresh is two
transactions (`RotateStart` .. `RotateCommit`, then `BundleUser` ..
`BundleCommit`); a login is authenticate and the bundle; a verification consumes
its token in a first transaction.

Row locks are not variables: PostgreSQL keeps a lock to the end of the
transaction, so the holders follow from the `pc`s.

| Lock | Code | Model |
|---|---|---|
| `SELECT ... FOR UPDATE` of a users row | `session.get(User, target_id, with_for_update=True)` | `OwnerOf` |
| `FOR KEY SHARE` of the owner, taken by the foreign key | `session.add(RefreshGrant(...))`, `flush` | `SharersOf`; `InsertGrant` waits for `OwnerOf` |
| row lock of an UPDATE | `rotate_refresh`, `_invalidate_authorization`, `revoke_refresh` | `HolderOf` |

An UPDATE is two actions when what it does before and after waiting matters:
`RotateStart` evaluates the WHERE clause on the statement's snapshot and
`RotateClaim` evaluates the row's part of it again once nobody holds the row, while
the subquery on `users` is not evaluated again; `AdminInvalidate` fixes the rows the
snapshot matches and `AdminConsume` waits for their holders and drops those that
have been consumed.  `DeadlockAbort` is PostgreSQL's deadlock detector: two
transactions that wait for each other, one of which is rolled back.  `Crash` ends a
request anywhere, rolling back the open transaction only.

Data left out: e-mail addresses, passwords, audiences, scopes (functions of the
roles), the audit row (written in the same transaction as what it records).
`GrantRow.at`, `.parent` and `.sent` are history variables: the version of the
owner at the commit, the grant it replaced, and whether its raw token reached a
client (a token nobody received cannot be presented).  `bootstrap_admin` is in
`Init` only: in the repository tests alone call it.

### KeyRing

`records` is `keyring.json`, `files` the keys whose files are written, `tokens` the
signed tokens that have not expired, `now` a discrete clock.  A writer that is in
the locked region has read the metadata into `read` and replaces the file with what
it computed from that copy, never from the current file: if the lock did not
exclude the others, their updates would be lost (fault `HolderNone`).  The key files
of `publish` are written before the metadata, and a process can die at any point.
A signer takes the claims' time, then reads the metadata without the lock, then
signs, however late.  `Load` is `_load_codec`, which publishes and activates in two
calls.  Time: `TTL` is the ten minutes of a token, `Overlap` is `overlap_seconds`,
and `MaxStall` bounds the time between `activate`'s reading of the clock and its
`os.replace`.  `TimesAssumption` is the constructor's check: it demands
`overlap >= 600 + 60 + 300`, which leaves 360 s for that time.  A slower writer is
outside the model.

`RingPromise` is the ring without files, lock, processes or crashes: `Publish`,
`Activate`, `Retire` and `Sign` happen at once.  Two of its guards are what a verifier
relies on.  The `retiring_at` of a key that is replaced lies so little in the past that
every token signed by then expires within the overlap.  A key that is retiring signs only
tokens that do.  `records`, `tokens` and `now` are those of `KeyRing`.

`JwksService` is what `/.well-known/jwks.json` shows of it (`JwksState`, the method
`jwks`): a key appears once, disappears once, and the last one stays.

### JwksVerifier

A slot of `req` is one coroutine in `authenticate`; an action is what it does from
one await to the next, so nothing interleaves with it inside, and everything may
while it waits for `_refresh_lock` (`expired_lock`, `unknown_lock`), for the JWKS
(`expired_fetch`, `unknown_fetch`) or for `/auth/status` (`status`, `status_answer`).
A request to the service is two steps: it is served (`JwksServed`, `StatusServed`),
then the answer arrives, or an exception does.  The variables are the attributes of
the object.  `refresh_lock` is its holder; of those that wait the one that waited
longest gets it, as in `asyncio.Lock` (those of one clock tick in any order, and a
coroutine that finds the lock free may still be overtaken, which asyncio does not
do: more behaviours, not fewer).  `Decode` decides between a rejection and the status
lookup freely: signature, lifetime, issuer, audience and binding are properties of
the token that change no state.  The environment is the SSO service: it publishes and
retires keys, by the steps of `JwksService`, and raises versions; `served` and `ended`
remember when.  The verifier begins when the ring has its first key.

Time: `Delay` is the longest a request to the service takes (`HttpStatusClient` has a
timeout of 3 s for each phase), and the event loop runs what is ready before the
clock moves (`Ready`).

### OAuthFlow

The one-time values of Redis are `pending` (the BFF's login: state and verifier),
`txns` (the SSO's transaction), `pcodes` (the lab provider's code) and `codes` (the
authorization code).  Each is put under a fresh random name, which makes drawing it
an action that finds the name absent, and is read with GETDEL (`Take`).  An action is
one Redis command, one database transaction or one HTTP reply:

| Request | Actions |
|---|---|
| BFF `/login`, `/oauth/authorize`, `/oauth/fake-provider/authorize` | `Begin`, `Authorize`, `FakeAuthorize` |
| `/oauth/provider/callback` | `ProviderCallback`, `ProviderExchange`, `UserRead`, `UserInsert`, `PutCode` |
| BFF `/auth/callback` with `/oauth/token` inside it | `BffCallback`, `TokenTake`, `TokenRead`, `TokenCommit`, `TokenAnswer` |
| `/oauth/token` of a native client | `NativeExchange`, then the same |
| BFF `/logout` with the SSO's `/auth/logout` inside it | `Logout`, `Revoke`, `Delete` |

A browser follows any link it has seen, again and in any combination: nothing ties
the values it presents to one login except what the code compares.  A value whose
comparison the code makes is modelled by what it identifies: a login stands for its
state, challenge and verifier.  `Crash` ends a request anywhere, `GiveUp` is the
caller's timeout of 5 s after which the SSO goes on alone, `Expire` removes any Redis
key.  Issuing, revoking and invalidating grants are the atomic steps of `SessionLedger`
(by INSTANCE): `SessionsProofs` proves that the statements of those handlers implement
them, so here they need not be taken apart again.  Calls that are refused before they
change anything (unknown client, redirect URI, missing parameter, a wrong CSRF token)
are not steps.  `firstTry`, `origin` and `bff[g].login` are history.

### ExternalLogin

An action is what a coroutine does from one await to the next, or one database
statement whose order against other requests matters.  `flows` is the three
`FlowStore`s, which live in the memory of the SSO process (`Restart` empties them); a
flow past its 300 s is merged with one that is gone, since `consume` refuses both.
Addresses are `Own(s)`, the one a provider reports for the subject or the code makes
of it, and `Changed(s)`, the one tried next when it is taken.  What a provider answers
is a choice; an answer that is no login is `Fail`.  `Link` is
`ConfirmedAccountLinkService.link`, which tests call and no route does.  Two callbacks
end early, as in the code: Google's answers 401 for a subject that has no link, because
its fallback looks for the flow that has been consumed already, and Kakao's consumes its
flow and then raises `NameError`.  What follows a resolved link (the bundle, a suspended
account) is `Sessions`.  `cache` is `JwksCache` with Google's entry, whose answers may
be stored out of order.  Not translated because nothing reaches it: `_google_oauth_user`,
`_kakao_oauth_user`, `KakaoAdapter`'s exchange, identity and logout, `KakaoOidcAdapter`,
`GoogleCallbackService.revoke`, the registry.

### Credentials

Each `session_scope` is a transaction: a registration commits the account, then the
token in another, then mails it; a reset consumes the token in one and writes the
password in another, after a read without a lock (`seen`).  `consume_one_time` locks
the token's row (`tokens[t].lock`).  SQLAlchemy writes the columns whose value differs
from the one that was read, and no others, which is what `Cleared` says: a login that read
`failed_logins = 0` leaves the counter alone, whatever it is by then.  The lock of an
account is unset, running or past; `LockExpires` is the clock.  Accounts made by a
provider login have no password and cannot log in with one, but can reset it.

Three more handlers write the columns that these read, and each is one action here,
because it is one transaction: `ProviderSignUp` (`_oauth_user` and the like, which insert
an account that is active at once), `Approve` and `Suspend`.  `approve_user` sets
`status = "active"` from any other status without a one-time token
(`application/admin.py:81`, `tests/test_admin.py:39-46`); of an account that is active it
changes nothing here.  They race with a verification between its two transactions and with
a login that has read the account.  The statements of these handlers, the roles, versions
and refresh grants that they and the other administrators' handlers write, and the races
about those are in `Sessions`.  `bootstrap_admin` is in neither: only tests call it.
`wrong` and `redeemed` are history.

## 3. Properties and runs

| Run | Instance | Properties |
|---|---|---|
| `authorization` | 1 administrator, 1 account, 3 grants, 2 requests, version up to 3 | `TypeOK`, `InvalidationComplete`, `ActiveTokenHasCurrentRoles`, `RotationSingleUse`, `RotationAuthorized`, `TokenRevocationFinal`, `VersionTracksAuthorization`, `ImplementsLedger` |
| `requests_end` | 2 grants, 2 requests, with fairness, no symmetry | `RequestsEnd` |
| `suspension` | as `authorization`, 2 grants | `SuspensionHolds` (violated, section 5) |
| `jwks_cache` | 2 requests, 2 keys, one account, lifetimes 2 and 1, negative entries 2, cool-down 1, delay 1, clock up to 6 | `TypeOK`, `RetiredKeyBounded`, `PublishedKeyKnown`, `OutageBridged` |
| `verifier_answers` | 2 requests, 2 keys, one account, lifetimes, negative entries, cool-down and delay 1, clock up to 1, with fairness, no symmetry, no view | `RequestsAnswered` |
| `revocation` | 2 requests, 1 key, one account, versions up to 2, status entries 2, delay 2, clock up to 6 | `RevocationBounded` |
| `runbook_cache` | as `jwks_cache` | `OnlyUnexpiredKeys` (violated, section 5) |
| `keyring` | 3 keys, 2 processes, TTL 2, overlap 3, stall 1, clock up to 7 | `TypeOK`, `OneActiveKey`, `TokensVerifiable`, `RecordedKeysHaveFiles`, `LifecycleForward`, `SigningNeverLost`, `ImplementsRing`, `ServesJwks` |
| `oauth_flow` | 1 browser login, 1 native login, 2 accounts, 2 of each one-time value, 2 grants, 2 requests, version up to 2 | `TypeOK`, `SessionMatchesLogin`, `CodeSpentByFirstUse`, `LogoutRevokes`, `LoginNeverReactivates`, `ImplementsPromise` |
| `external_login` | 2 browsers, 2 flows, 1 subject at each provider, a local account and 2 new ones, 2 keys, 2 requests | `TypeOK`, `StateSingleUse`, `LinkedByItsOwner`, `PublishedKeyFound`, `LinkNeverMoves` |
| `relink` | as `external_login` | `SignUpPossible` (violated, section 5) |
| `credentials` | 1 account, 2 tokens, 2 passwords, 2 requests, 6 wrong passwords | `TypeOK`, `TokenRedeemedOnce`, `LockoutEarned`, `MailedTokenStored`, `OwnTokenOnly`, `LockHolds` |

What they show.

* `InvalidationComplete`: every live grant was committed under its owner's present
  version.  The login that reads an active user, waits, and inserts its grant while
  a suspension runs is the case that matters: its insert waits for the lock
  (fault: it does not) and the grant it leaves is of the new version.
* `RotationSingleUse`: two refreshes with the same token, a third with the result.
* `RotationAuthorized`: a rotation never commits after a suspension or revocation
  of its owner did, although its status check ran on an older snapshot.
* `ActiveTokenHasCurrentRoles`: version and roles are read in that order, in two
  statements; a token that mixes two versions carries the older number and is
  therefore refused.  With the version read last (fault) it would be accepted.
* `TokenRevocationFinal`, `VersionTracksAuthorization`: versions never fall, rise
  with every change, and so a refused token is refused for good, also after the
  account becomes active again.
* `ImplementsLedger`: with all its statements, locks, waits and aborts, each handler
  looks like one atomic step of `SessionLedger`.
* `RequestsEnd`: a rotation and an admin handler do wait for each other (the fault
  that removes `DeadlockAbort` gives the cycle) and every request is answered
  because one of them is aborted.
* `RevocationBounded`: a token of a version that is no longer current is accepted for
  less than `StatusTTL + Delay` after the change, in spite of answers that arrive
  late or replace each other's entries.
* `RetiredKeyBounded`: a retired key verifies for less than both lifetimes and two
  delays more, however fetches fail.  `PublishedKeyKnown`: a key published longer ago
  than the cache lives and two delays is never answered "unknown signing key"; before
  that it may be, for as long as a negative entry or `_unknown_refresh_after` lasts,
  so a key has to be published that long before it is activated.
* `OutageBridged`: no request that a cached key could serve is answered 503 because
  of the JWKS, although notes of the failure are obeyed before the key is used.
* `RequestsAnswered`: the refresh lock has two sections, for an expired cache and for a
  key the cache does not have.  Every path from either releases it, so every request that
  waits for it gets it (fault: the handler of a failed fetch for an unknown key does not).
* `SessionMatchesLogin`: the state of one transaction with the provider code of
  another, the code of one login at the callback of another: whatever is mixed up, the
  session is of an account that was authenticated in its own login.  Without the PKCE
  comparison (fault) the native client's code would open the browser's session.
* `CodeSpentByFirstUse`: `/oauth/token` takes the code before it compares anything, so a
  code presented with a wrong verifier is useless afterwards, also for its owner.
* `LogoutRevokes`: the BFF deletes its session only after the SSO has answered, so a
  logout that fails half-way leaves a session one can log out of again.
* `LoginNeverReactivates`: the insert of a first login that raced with another fails on
  the unique e-mail; as an upsert (fault) it would write over a suspension.
* `ImplementsPromise`: of the two callbacks with one state, and of a callback whose
  answer comes after its browser gave up, at most one opens a session.
* `StateSingleUse`: a state is accepted once and by the browser whose cookie carries
  its binding, in spite of a second login in that browser, expiry and restarts.
* `LinkedByItsOwner`, `LinkNeverMoves`: two first logins of one subject, or a first login
  and a confirmed link, have both seen no link; the loser's transaction fails as a whole.
  No login joins an existing account because of its address.
* `PublishedKeyFound`: an older answer that replaces a newer one in `JwksCache` costs a
  fetch and never a login.
* `TokenRedeemedOnce`, `OwnTokenOnly`: between the transaction that consumes a token and
  the one that writes the account anything may be committed, and still the write is of the
  account and the purpose of a token this request consumed.  A password changes in no other
  way.  An account becomes active by such a verification, or by an approval, which needs no
  token; an account that is new and active at once comes from a provider and has no
  password.  Without the purpose in the query (fault) a reset token would verify.  That a
  failure between the two transactions loses the token is so, and promised by nobody.
* `LockoutEarned`: counts overwritten by logins that run at the same time only ever lose
  failures; an account that is locked has had three wrong passwords.  It may have had more:
  the property says nothing of how many tries such races allow before the lock.
* `LockHolds`: a running lock is lifted by a reset, or by a login that read the account
  after an earlier lock had ended and before this one began: the one exception the
  unlocked read allows, and the run reaches it.
* `MailedTokenStored`: a token in the mail is a committed row of that account.
* `LifecycleForward`, `SigningNeverLost`: two activations, or an activation and a
  retirement, with one dying at any point, in every interleaving.  `OneActiveKey` does not
  need the lock: every writer demotes the others in the copy it writes back.
* `TokensVerifiable`, `ImplementsRing`: a signer that read the metadata just before its
  key was replaced, and finishes long after, makes a token that is still covered by the
  overlap, because its `exp` was fixed first (fault: it is dated when it is signed).
* `ServesJwks`: a key stays visible from its publication to its retirement, and at a
  retirement another is visible (fault: `jwks` shows the active key alone).

Bounds. Two requests suffice for every pair of handlers to race, and the locks are between
pairs; a third grant is needed to rotate the result of a rotation that was raced.
`MaxVersion` stops new admin requests (not running ones) so that the state space is
finite: 3 allows two changes in a row and their races, so that a reading made before the
first can be used after the second. `Subject` says which accounts log in and are
administered; the administrator itself does not, as its own sessions are symmetric to the
account's. The role in the instance is `admin`, so that the account can become an
administrator and administer. Three keys allow two rotations; the clock reaches past two
overlaps. For the verifier two requests give a holder of the lock and one that waits, and
every pair of status checks; in `jwks_cache` and `revocation` the clock runs past the sum
of the lifetimes, so that the bounds could be exceeded; they are tight in these instances.
`revocation` has one key, because status answers do not depend on which key was used, and
two versions, so that answers for three of them meet. `verifier_answers` has two keys, so
that a key can be published that the cache does not have and the other retired: every
branch of both sections of the lock is taken. With lifetimes of 1 a clock up to 1 lets the
cache, the failure note, the negative entries and the limit on unknown keys each run out
once, and a fetch or a wait for the lock straddle the tick; the requests do not end with
the clock, and with the clock up to 2 (755,000 states) TLC finds nothing either. Its
versions stay 0: the answer "inactive" ends a request like every other. `RetiredKeyBounded`,
`PublishedKeyKnown` and `OutageBridged` assume a `Delay` below `UnknownTTL` (3 s and 30 s
in the code): otherwise a second refresh for an unknown key may start, and fail, before a
request that waits has used the key the first one brought. With both equal to 2 and three
requests TLC finds `PublishedKeyKnown` violated. The view of `MCJwksVerifier` identifies
states that differ in deadlines that have passed. For the code flow two of each value
allow every mixture of two logins, and two accounts make a mixture visible; a browser
login and a native one, because they meet at the SSO only. With two browser logins and a
native one (969,000 states) TLC finds nothing either. For the external providers two flows
give a second login in one browser or in two, and both meet on one subject; a second
subject only adds logins that do not meet. For the passwords one account is enough because
the rows of two accounts are never written together; two tokens are a verification and a
reset, or two resets, that are live at once, and two requests redeem no more (with three,
four wrong passwords and 3,272,000 states TLC finds nothing either); four wrong passwords
lock the account and lock it again after the lock has ended, which is where a login that
read the earlier lock does harm, and six lock it a second time from a count that a right
password has cleared. The
proofs remove the bounds of every module for the safety properties; `Subject` and the
counters' bounds remain as arbitrary constants.

`CHECK_DEADLOCK FALSE` is used where the instance really stops: all grants drawn and
the version bound reached, the clock at its end, or all random values drawn.

Fairness.  `requests_end`: strong fairness of each slot's `Step`.  The server
runs the statements of the request it has begun; strong fairness stands for
PostgreSQL's lock queues, which serve waiters in order, so that a request which
is able to take its lock again and again is not overtaken forever.  Nothing is
assumed of clients (`Start`), of expiry or of `Crash`.  `verifier_answers` assumes the
same of each request's `Step`: requests to the service end because of their timeouts,
and `asyncio.Lock` serves its waiters in order.  The three flow modules state no
liveness: a login ends when its user, a browser or a provider lets it, and every request
of theirs runs to its end without waiting for another.

## 4. Proofs

`SessionsProofs` proves, for every set of users, roles, grants and requests:

| Theorem | Says |
|---|---|
| `TypeCorrect`, `GrantsInvalidated`, `GrantsRotatedOnce`, `TokenRolesCurrent` | `Spec => []` of the four invariants |
| `VersionsTrackAuthorization`, `TokensRevokedForGood`, `RotationsAuthorized` | the three action properties |
| `LedgerImplemented` | `Spec => ImplementsLedger` |

The assumptions are `UsersAssumption` and `NullsAssumption` (the null values are not
members of the sets). None of the properties is inductive. `IInv` adds what the locks
give. Each slot `Knows` what it has read or locked: `SlotShape` (the fields its `pc` has
filled in), `GrantKnown` (the states of its old and new grants), `RotationKnown` (a
claimed grant stays live, and its owner stays active while it is live, until the commit),
`InvalidationKnown` (an admin handler at its commit holds exactly the live grants of the
account: nobody can have inserted one since its snapshot, because inserting needs the lock
it holds, and nobody it waited for left a successor, for the same reason) and
`ReadingKnown` (a version that was read is at most the present one, and if it is the
present one then the roles are too; `Tokens` says the same of tokens). `Exclusion` says
that two slots are `Compatible`: no FOR UPDATE holder of an account beside another or
beside a sharer, one holder per grant, no grant drawn twice. `Rows` says which rows have
owners. One lemma per action proves that `IInv` is preserved (`SlotStep` for the actions
that only move their slot, `CommitStep` and `IdleEnd` for those that commit); the action
properties and the refinement then follow action by action.

`KeyRingProofs` proves the eight properties of the ring from `TimesAssumption` and
`NoKeyAssumption`.  The invariant says that the holder of the flock has read the
present records (`ContextShape`), so a save changes only what its method changes,
and that every token, signed or about to be signed, is `Covered`: while its key is
active it was dated in the past, so when the key begins to retire it expires within
`TTL + MaxStall` of `retiring_at`, which `retire` waits for.  `RingImplemented` maps each
save to the operation of `RingPromise` and `SignEncode` to `Sign`, or to a stutter when the
token is dead on arrival (the only case in which its key may be retired); all the rest,
`Crash` included, is a stutter.  `ServiceImplemented` needs one invariant more,
`Succeeded`: where a key is retiring or retired, another is active.

Ring and verifier compose through `JwksService`.  By `OverlapSuffices` the key of a live
token is active or retiring, so it is in the JWKS; `ServiceImplemented` says that the JWKS
is the environment that `JwksVerifierProofs` assumes; by `PublishedKeysKnown` a live token
is therefore refused for an unknown key only if its key was published less than `JwksTTL`
and two delays ago.  `activate` does not wait for that long, and `_load_codec` does not
wait at all: after a first start or a hasty rotation verifiers may refuse good tokens.

`JwksVerifierProofs` proves the safety properties of the verifier in two layers.  `IInv`
is about age: the cached keys (`Cache`), the cached versions (`Statuses`) and what a
request carries over an await (`Knows`) were true of the service when the await that
brought them began, at most `Delay` ago.  `TypeCorrect` and `RevocationsBounded` follow
from it and need `TimesAssumption` and `NamesAssumption` only.  `Line` is about the lock.
A request that missed its key when the cache was good waits, and is served with what the
cache holds by then: how old may that be?  `InLine` says that the lock is free for it
before the clock moves or its holder is one fetch that began before the document could
age (`Waits`); that fetch set `unknown_refresh_after`, so nobody else who waited for it
starts another, and a key it brought is in the cache, with no failure noted, until all
have left.  The three theorems that rest on `Line` (`RetiredKeysBounded`,
`PublishedKeysKnown`, `OutagesBridged`) therefore have the hypothesis
`Delay < UnknownTTL`.  It is a hypothesis of these theorems and no assumption of the
module, because the first layer holds without it; `verifier_answers` and `revocation`, whose
properties do not need it, take both equal.
The code justifies it as long as the fetch it is given takes less than `UnknownTTL`, which
is `min(jwks_ttl, 30.0)` (`resource_api/auth.py:151`): `fetch_jwks` is injected, and the
client for `/auth/status` has timeouts of 3 s.

`OAuthFlowProofs` proves the six properties of the code flow from `LoginsAssumption` and
`NullsAssumption`.  A value that was drawn `Keeps` what it was drawn with, so what a
code, a grant or a request says of the login and account it came from stays true
(`Values`, `Grants`, `Shape`): the account of a code is `Proven` for its login because
`ProviderExchange` compared the provider's code with the transaction.  `Alone` is what
taking in one step gives: a browser's login is carried by one request or one session, a
code past the comparison by one request or one grant.  From both, `PromiseImplemented`
maps `Begin`, `FakeAuthorize`, `BffCallback`, `TokenAnswer`, `Delete` and `Expire` to
the steps of `LoginPromise`, and every other action to a stutter.

`ExternalLoginProofs` proves the five properties of the external logins from
`NullsAssumption` and `NoMailAssumption` (an account without a row has no address).  The
invariant says what a flow that exists, an account that exists and a link say of each
other, and what a request has seen of them (`Shape`); a login that found no link commits
only if the subject still has none, which is the primary key's doing.

`CredentialsProofs` proves the six properties of the password handlers from
`BoundAssumption` and `NullsAssumption`.  The rows only move one way (a token is drawn,
then consumed; a failure is counted after it happened), so a step `Keeps` what a request
that is between two transactions knows (`Shape`): the token it consumed is of the account
and the purpose it goes on to write.  The status is not among what it knows, for approvals
and suspensions change it in both directions; `WritesEarned` therefore says which action
made an account active, and does not follow from an account's being pending.

Only model-checked: `RequestsEnd` and `RequestsAnswered`, which are liveness under
fairness and outside the prover (that only a request in a fetch holds the refresh lock is
`Holder` in the invariant of `JwksVerifierProofs`, for every choice of the constants; that
the lock comes free again is the run's).  Every other property of a passing run is the
conclusion of a theorem.  The runs check the same definitions the theorems name.

## 5. Findings

`SuspensionHolds` is violated (run `suspension`): `verify_email`
(`application/auth.py:118`) sets `status = "active"` whatever the status is, and
leaves `authz_version` alone.  An account that an administrator approved before its
address was verified, and then suspended, becomes active when the outstanding
verification link is used, or when a verification that started earlier writes last;
`/users/me` then accepts the access token it refused
(`tests/test_admin.py:57`, `test_suspension_rejects_stale_access_and_refresh_sessions`).
`TokenRevocationFinal` still holds: `/auth/status` compares the version.

`OnlyUnexpiredKeys` is violated (run `runbook_cache`): while the JWKS cannot be fetched,
`authenticate` uses a cached key for `jwks_stale_ttl` after its lifetime ran out
(`resource_api/auth.py:138`), where `ops/INCIDENT-RUNBOOK.md:5` says "use only an
unexpired validated cache".  The code means it (`test_resource_api.py`, "cached JWKS
can bridge briefly"); who follows the runbook should know that a retired key verifies
for up to fifteen minutes.

`SignUpPossible` is violated (run `relink`): `naver_login_explain:26` says that a user
without a record is signed up and logged in.  `_naver_oauth_user`
(`api/naver_oauth.py:41`) has two addresses for a subject.  If a local account holds the
first, the first login takes the second; after `/oauth/naver/revoke` the link is gone and
both addresses stay in use, so every later login of that subject ends in an
`IntegrityError`, which no handler catches.

## 6. Not modelled, and the plan

Not modelled, because it has no protocol: observability (counters and headers),
configuration and start-up checks, CORS and security headers, migrations, scripts and
deployment files.  Not modelled, because nothing in the repository reaches it: the
unused functions named under `ExternalLogin`.  Left out of a modelled component: the
audit rows (written in the transaction of what they record, never read);
`bootstrap_admin` against a running service (tests alone call it, before the service
answers); administrators as accounts whose own sessions change while they administer
(`_assert_admin` reads the actor without a lock, so an actor who is demoted meanwhile
still completes; no document says otherwise); how long entries stay in memory after they
have no use.

What the plan has left:

* `Sessions` with administrators as subjects, and `bootstrap_admin` concurrent.
* A module in which `RingPromise` and `JwksVerifier` run on one clock, so that the
  composition of section 4 is one theorem instead of three.
