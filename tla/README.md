# TLA+ models of antosara-auth

This directory holds TLA+ modules that model the service, TLC configurations
that check them on small instances, and TLAPS proofs of what matters most for
every instance. `PROJECT.json` lists components, runs, mutants, the map from
definitions to source lines, findings, hazards and theorems.

    tlc -workers 2 -config Accounts_concurrent.cfg MCAccounts.tla
    tlapm SessionsProofs.tla

## Inventory

The service is one Go process behind a chi router. Every request runs in a
goroutine of its own; all shared state is in three tables behind repository
interfaces (`pkg/types.go`) with three backends (SQLite, PostgreSQL, DynamoDB),
except for the map of rate limiters and the key set, which are in memory.
Several instances may run on the same tables; each starts on its own, from its
own environment.

| Component | State | Operations | What makes it correct | Module |
|---|---|---|---|---|
| Login and lockout (`auth.go` 857-1004) | counter and lock in the user row | Login, checkAccountLockout, recordFailedAttempt, clearFailedAttempts | locks engage, last, and are never invented; sessions only for proven passwords | Accounts |
| Signup and verification (1006-1132, 1301-1387) | password, code, verified flag | Signup (new, existing), VerifyEmail | a verified account carries a proven password; verification is not taken back; codes reach their owner | Accounts |
| Password reset (1408-1528) | reset token and expiry | ResetPassword, ConfirmResetPassword | a token works once; a confirmed password stays | Accounts |
| Profile (1530-1633) | password, alias | GET, PUT | changes what it was asked to change | Accounts (no alias) |
| User repository | user table | read, insert, whole-row update, look-up by token | insert does not replace; rows are whole | Accounts |
| Sessions (`auth.go` 248-781, 976-1004, `routes.go`) | JWTs, cookies of the browsers | middleware chain, VerifyToken, CheckRevocation | a revoked token is refused | Sessions |
| CSRF (630-703) | SessionCSRF table, csrf_token cookie | CSRFProtector: check and rotate | browser and server agree on the secret | Sessions |
| Logout and revocation (1134-1172) | RevokedTokens table | Logout, IsTokenRevoked, TTL sweep | a revocation outlives its token; a logout completes | Sessions |
| Mail (`util.go` 106-144) | mails in detached goroutines | send | may be lost | Accounts |
| Rate limiter (321-394) | map of limiters, one bucket each | getClientIP, getRateLimiter, Allow | requests that claim one address share its buckets; a bucket is not overdrawn; an address settles on one | RateLimiter |
| Keys and JWKS (63-246, `util.go` 41-104) | key set and signing key, read at start | load, sign, publish, verify | live tokens verify everywhere through restarts and a rotation | KeyRotation |
| Start-up and schema (`storage.go`, `main.go`, constructors of the three backends) | tables and indexes of a database, how far a start has come | choose backend, connect, create or verify, listen | an instance that serves has the schema its constructor makes or looks up; crashed and concurrent starts do not block later ones | Startup |
| Configuration (`util.go` 41-104, `storage.go`) | environment | .env, process, secret | one rule of precedence | KeyRotation (keys), Startup (storage) |
| Validation, development page, Go client, legacy helpers, resolution repository | none that changes, or unused | | | not modelled |

How they interact: a handler calls the repositories one after the other and
mails codes and tokens; login creates the JWT and the CSRF row that the
middleware later checks; logout deletes the row and stores the revocation that
the middleware, `VerifyToken` and `CheckRevocation` read. The rate limiter
stands before login, signup, verification and reset. A token is signed with the
key the instance loaded and checked by every instance and by other services
that fetched a JWKS.

What is hard here, and which module has it:

- A handler reads a whole user row, changes a copy and writes the whole row
  back, without a transaction or a version. Any two requests of one account
  can undo each other's writes (Accounts).
- DynamoDB reads are not `ConsistentRead`: a check may pass on an earlier row
  (both modules).
- CSRF rotation is a read and a later upsert, and its result reaches the
  browser in a response that may be lost or overtaken (Sessions).
- Repository errors are taken for "not found" by signup and are ignored by
  logout and by the clearing of the counter (both modules).
- Lifetimes are configured in some places and fixed in others (Sessions).
- The process may stop between any two calls, and detached mails with it
  (Accounts, Sessions), or in the middle of creating its tables, beside another
  instance that creates the same ones (Startup).
- The map of limiters is read under one lock and written under another
  (RateLimiter).
- Instances and consumers see an edited secret at different times
  (KeyRotation).

## Modules

`Accounts.tla` has the user table (`users`), the table a lagging read sees
(`replica`), the request each worker is in the middle of (`req`), and mails on
their way (`outbox`). A handler is split at its repository calls and mails:
`LoginMatch` is Login up to `checkAccountLockout`, `CheckAccountLockout` its
read, `Unlock` its write, and so on; the `at` field of a request names the call
it makes next. The read of a row and the comparison of its times with
`time.Now()` are one step, and so are the bcrypt computations that follow it.
The fields `mailed, issued, granted, authorised, recorded, forgiven, used` record
what happened; the properties speak of them, and among them only `mailed` (a
client knows a token that was mailed), `issued` (tokens are fresh) and
`granted` (Profile needs a session) guard a step. A password in `authorised`
was proven by a verification code, a reset token or an authenticated profile
update. An early return that changed nothing is a stuttering step and has no
action; `RequestFails` is every early return after that. `DeleteUser` has no
caller and is left out, as is the alias; reset tokens are fresh, so the unique
index on them never conflicts.

`Sessions.tla` has the JWTs by id with their `exp` (`expiry`), the SessionCSRF
and RevokedTokens tables (`csrf`, `revoked`), what a lagging read returns
(`replica`), the cookies of each browser (`jar`), and requests, again split at
their repository calls. The browser is the page's script as API.md describes
it: it copies the csrf_token cookie into X-CSRF-Token. GET and PUT of the
profile are both a `call`: each passes the same middleware and rotates the
secret. The part of the chain that changes nothing (signature, issuer,
audience, type) is taken to pass; expiry is checked where MultiKeyVerifier and
jwtauth.Authenticator check it. Nobody uses a token before the response of its
login (`Answered`); one whose response was lost may still be used, which only
adds behaviours. A Bearer client sends no auth cookie. A middleware that turns a request away ends it
without an action of its own when no repository call came before.

`AccountsAtomic.tla` is what the account half promises to the owner of an
account who waits for every answer: each operation changes one row at once, with
the guards a reader of API.md would state. Codes, tokens and expiries are only
bounded there. `Accounts!ImplementsAtomic` is the refinement (`INSTANCE
AccountsAtomic WITH now <- now, users <- users, granted <- granted`; what a
request has in hand is not visible): where reads do not lag and requests on one
account do not overlap, every repository call of a handler is one atomic
operation or a stutter.

`RateLimiter.tla` has the map (`limiters`), every limiter there is (`bucket`, by
address and by the worker that made it, because two concurrent first requests
make one each), and requests between their look-up and their store or
`Allow`. A peer may send any `Headers`: X-Forwarded-For with up to two
entries, X-Real-IP or none. `Texts` is what a header may say and `ParseIP` what
net.ParseIP makes of it: an address, which several texts may stand for, or
nothing. `GetClientIP` is the order in which headers are believed. They are believed
from any peer, whether or not a proxy set them, so a bucket belongs to the
*address a request claims*: whoever names another address in each request has a
fresh bucket each time, and no property here bounds what a peer or a person may
send. The bucket is that of golang.org/x/time/rate in integer units of
1/TokenTime of a token, and external.
`BeginPeriod` starts counting anew at any moment, so that the properties hold
for every interval of time and not only from the start. A worker is a slot of
chi's Throttle(100).

`KeyRotation.tla` has for each instance what its .env and process environment
say (`local`), the edited `secret`, the environment after LoadEnv (`env`) and the
key set it verifies with; for each consumer the set it fetched last; and the
keys with live tokens. The JWKS is built from the environment at each call, the
verifying set once at start. The operator of the model follows README.md, "JWT key rotation"
(`Announce`, `Switch`, `Retire`); `PublishFirst` says whether a key is known
everywhere before anybody signs with it.

`Startup.tla` has the database (`stored`, tables and indexes) and the position
of each starting instance (`at`, `step`). PostgreSQL's `CREATE ... IF NOT EXISTS`
looks first and enters the catalogue later (`LookUp`, `Create`, `Duplicate`);
SQLite has one writer at a time. DynamoDB's tables and the index for
reset tokens are made by scripts/terraform (`CreateTable`, external; the index
with its table or later) and cannot be used before DynamoDB has completed them
(`creating`, `Activate`). The constructors look up the three tables only:
DescribeTable also finds a table in creation, its status is not read, and the
index is not asked for, so `ServingHasSchema` promises less on DynamoDB than on
the SQL backends, and that all of it can be used in the end is part of
`EventuallyServes`. Any failed call and any error
ends the process, as log.Fatalf does, and docker-compose.yml starts it again.
`lost` counts for the properties how often an instance lost a race for a
statement.

`MCAccounts`, `MCSessions`, `MCRateLimiter`, `MCKeyRotation` and `MCStartup` add
symmetry sets, the texts of headers and the environments of an instance. `AccountsProofs`,
`AccountsSafetyProofs`, `AccountsSequentialProofs`,
`AccountsSequentialSafetyProofs`, `SessionsProofs`, `RateLimiterProofs`,
`KeyRotationProofs` and `StartupProofs` hold the theorems.

An operator whose comment begins with "Mutant:" is a plausible wrong version of
the definition after it, used to confirm that a property would notice.

## Runs

| Run | Instance | Shows |
|---|---|---|
| accounts_concurrent | 2 workers, lagging reads, 1 address, 2 passwords, threshold 2, 4 requests, clock 1..3 | proven passwords, proven sessions, no invented lock, types |
| accounts_sequential | 1 worker, consistent reads, 2 codes, 6 requests | the handlers implement AccountsAtomic; lockouts engage and last, reset tokens work once, verification and passwords are stable, codes are mailed before they replace another |
| accounts_reset_race, accounts_lockout_loss | 2 workers, consistent reads | ResetTokenSingleUse and LockoutEngages fail as soon as two requests interleave |
| sessions_sql | 2 workers, 1 session, 5 requests, faults, parallel requests | revoked sessions are refused, rows live as long as their token |
| sessions_dynamodb | the same with lagging reads and the TTL sweep, 4 requests | a lagging row that is written back, the sweep and repeated logouts leave the stored rows as long as their token |
| sessions_browser | 2 sessions, a browser that waits, Bearer clients beside it, no faults, fair handlers | browser and server agree on the secret, logouts complete |
| sessions_long_tokens | tokens that outlive 24 hours | the revocation ends too early |
| rate_limiter | 2 addresses, 2 workers, 5 requests, restarts | requests share a bucket exactly if they claim one address; no bucket is overdrawn in any period, at most one limiter per worker and address, settled addresses stay with their bucket |
| rate_limiter_first_requests | 1 address, 2 workers | concurrent first requests get a bucket each, so an address's requests pass more than its limit |
| key_rotation | 2 keys, 2 instances, 1 consumer, leftovers in the environments | live tokens verify everywhere through a rotation; an instance never refuses its own tokens |
| startup | 2 instances, each in any of 7 environments, 2 faults, fair starts | instances that serve have the schema their constructor makes or looks up; every well configured one serves in the end, on a database that can be used |

accounts_sequential and the runs that refute its properties with two workers are
the point of that module: the handlers are right one at a time, and what they
promise is lost to interleaving, while the properties of accounts_concurrent
survive it.

### Other experiments

Not kept as runs; each is one change of a configuration.

| In | Change | TLC then finds |
|---|---|---|
| Accounts_ResetTokenSingleUse.cfg | PROPERTY PasswordChangesOnlyOnRequest instead | a request that read the row before a reset was confirmed (a failed login, a resent code) puts the old password back |
| Accounts_ResetTokenSingleUse.cfg | LockoutHoldsUntilExpiry, VerifiedStable or ImplementsAtomic instead | a lost update undoes a lock or a verification, or is no atomic operation |
| Sessions_sql.cfg | DynamoDB = TRUE | NoAcceptAfterLogout fails: the revocation read is not ConsistentRead, so a revoked token may be accepted for the length of the lag |
| Sessions_sql.cfg | INVARIANT AckedLogoutRevoked | a logout is answered 200 although the revocation was not stored |
| Sessions_browser.cfg | Parallel = TRUE | InSync fails: of two requests with one secret one rotates it, and the responses may arrive in the other order |
| Sessions_browser.cfg | Faults = TRUE | InSync fails: a login answered 500 sets the auth cookie and no CSRF cookie, a lost response loses the rotated secret |
| Sessions_browser.cfg | Faults = TRUE, LogoutCompletes alone | a logout that fails or dies with the process is not repeated by the server; if it stopped after deleting the CSRF row its browser cannot repeat it either |
| Sessions_browser.cfg | CsrfCookieTTL < JWTExpiry | InSync fails: an idle browser loses its CSRF cookie before its session |
| KeyRotation.cfg | PublishFirst = FALSE | LiveTokensVerify fails: after README.md's single edit of the secret ("Put both public keys in the secret ... Sign with the current private key") the instance that restarts first signs with a key the others, and the consumers' cached sets, do not have yet; OwnTokensVerify holds |
| Accounts_sequential.cfg | 2 workers, 2 addresses, 1 code, 5 requests, CONSTRAINT NoOverlap (of AccountsSequentialProofs) | no error: the sequential properties, and SeqInv, CountInv and TokenInv, hold while requests on different accounts interleave |
| RateLimiter.cfg | CONSTRAINT NoRace (of RateLimiterProofs), INVARIANT OneBucketPerAddress | no error |
| Sessions_dynamodb.cfg | CONSTRAINT CaughtUp (of SessionsProofs), INVARIANT NoAcceptAfterLogout | no error |
| Sessions_browser.cfg | Parallel = TRUE, CONSTRAINT OneAtATime (of SessionsProofs) | no error for InSync |

### Bounds

`MaxTime` and `MaxRequests` bound the clock and the requests of a behaviour;
nothing else is cut. Rows of different addresses and sessions are independent,
so one address (one session with parallel requests) is enough; two passwords
tell the owner's from another's. Four requests are enough for signup, verify
and two logins, or for signup, reset and two confirmations, and all races known
to us need at most five. `LockThreshold` is 2 for 5: one failure below the
threshold and one at it. Time-to-live constants are 1 or 2 ticks; the clock
passes every one of them. Two workers give every interleaving of two handlers;
a third finishes nothing that two in turn cannot.

In RateLimiter a bucket holds two requests and refills one in two ticks, so that
it can be emptied, refused, and used again within four ticks and five requests;
two workers make the race of first requests; two addresses, each written in two
ways, and a text that is no address are every case of the headers. In KeyRotation two keys are a rotation and, as nothing
bounds the number of steps, a rotation back; two instances disagree; the
consumer's cache is one more reader. In Startup two instances are every race on a table, and
two faults hit one start twice or each once; the seven environments have each
backend, each form of a connection setting, precedence among them, and three that cannot
come up.

Deadlock is checked where a step is always possible (crashes). It is off where
a run has no faults: when all requests are answered and the clock is at its
bound nothing is left to do, nor when every instance serves and the faults are
used up.

### Fairness

`sessions_browser` assumes weak fairness of the steps of each accepted request,
which the Go scheduler gives to goroutines that are not blocked for ever (calls
carry a context that the server's Timeout middleware cancels after 60 seconds).
`startup` assumes weak fairness of the steps of each instance, where starting
again is the restart policy of docker-compose.yml (`restart: unless-stopped`),
and of `Provision`, the creation of the DynamoDB tables and index, which the
operator has to finish and DynamoDB to complete.
Clients, the clock, replication, the sweep, crashes and failed calls are not
fair; faults of a start are bounded in number, since an instance that always
crashes never serves.

## Proofs

All theorems hold for every value of the constants under the ASSUMEs of the
modules (lifetimes and thresholds are positive numbers, `None` is not a value)
and the hypotheses a theorem names itself.

`AccountsProofs!TypeCorrect` proves types, one lemma for each group of actions.

`AccountsSafetyProofs` proves two inductive invariants.

- `FailureInv`: no row, stored, lagging or in a worker's hand, counts more
  failures than were written to the account, plus one in the hand of
  `recordFailedAttempt`. `NoSpuriousLockout` alone is not inductive: it says
  nothing of the copies that are still to be written.
- `ProvenInv`: every verified row, stored, lagging or in flight, carries a
  proven password, unless its writer is the one that proves it; and a login past
  the password check with `Verified` read as true has a proven password. From
  it follow `VerifiedPasswordProven` and `SessionsOnlyForProvenPasswords`.
  The argument rests on writes being whole rows: a verified flag never travels
  without the password it was checked with. A repair that wrote single columns
  would have to prove this anew (the mutant `VerifyWriteColumns` breaks it).

`AccountsSequentialProofs` and `AccountsSequentialSafetyProofs` are about
behaviours in which reads do not lag (`~StaleReads`) and no two requests on one
account are in flight at once (`[]NoOverlap`); the theorems have the form
`Spec /\ []NoOverlap => ...`, for any number of workers and accounts, and with
failures, crashes and requests on different accounts interleaved as they come.
`NoOverlap` is what a mutex per account, shared by all instances, would give, so
these theorems say that it would repair the violations accounts_reset_race and
accounts_lockout_loss show, and that among consistent reads nothing but overlap
causes them.
accounts_sequential checks them with one worker, which never overlaps.

- `SeqInv` ties each request in progress to the row it read: since nobody else
  writes that row, its copy is the stored row up to the fields it is about to change
  (`PendingAt`, one case per place). From it every step is one operation of
  AccountsAtomic or a stutter (`ImplementsAtomicHolds`), and
  `LockoutHoldsUntilExpiry` and `VerifiedStable` then follow from the abstract
  operations alone. `PasswordChangesOnlyOnRequest` and `ReplacedCodeWasMailed`
  follow from `PendingAt` at the writing places: what is written differs from the
  row in the requested password, or in a code that was mailed.
- `RowStep` says the same with the history variables. `CountInv`: the counter of a
  row is the number of failures since it was last cleared, and at the threshold
  the row is locked; hence `LockoutEngages`.
- `TokenInv`: a token is in at most one row, and only before it is used; hence
  `ResetTokenSingleUse`.

Where two requests on one account do overlap `PendingAt` fails at the first
interleaved write, which is where the violating runs begin.

`SessionsProofs` proves

- `SessionInv` with the types: a CSRF row, stored, lagging or carried by a
  request that rotates it, expires with its session's token;
- `RevocationInv`, if `JWTExpiry <= RevocationTTL`: a revocation lives at least
  as long as the token, because it is stored later than the token was issued;
  neither the sweep nor a second logout shortens it. `RevocationOutlivesToken`
  follows on every backend;
- `NoAcceptAfterLogout` from these, on the SQL backends. On DynamoDB it is false
  (see Other experiments), and only because of the lag: it holds on every backend
  in behaviours where the revocation has reached the replica before a later
  request is checked (`NoAcceptOnceCaughtUp`);
- `SyncInv`, under `Undisturbed` (SQL backend, no faults, the CSRF cookie lasts as
  long as the token) and while no browser has two requests on the way
  (`[]OneAtATime`, which a browser that waits for its responses keeps): the requests and jars of different
  browsers are about different sessions; the jar holds the stored secret unless
  a rotation's response is on its way, which then carries it. `InSync` says
  nothing while a request is under way, so it is far from inductive.

`RateLimiterProofs` proves `LimiterInv`: what a bucket let through in the period,
plus what it holds, is at most a full bucket plus what it earned since the
period began. `LimiterBound` is its weakening. `AddressFound` is the lemma that
`GetClientIP` returns the claimed address for any headers, texts and parser;
with it `ClaimInv` ties a request to that address and gives `BucketByClaim`.
For `MadeOnce`, a worker has a limiter of an address only if
the map has one for it or the worker is about to store it. `SettlesOnOneBucket`
is an action property over the same invariant. `AddressBound` adds `LimiterBound` up over
the limiters of an address. The sum is a recursive function on the subsets of the workers;
that it exists, and that adding a bounded element keeps it bounded, are lemmas
that argue from a smallest counterexample (the natural numbers are well founded),
for a finite set of workers. Throttle(100) makes it finite. In behaviours in which
no two requests are between the two locks for one address (`[]NoRace`) an address
has one limiter (`OneLimiter`), hence `OneBucketPerAddress`: the race that
rate_limiter_first_requests shows is the only way for an address to a second bucket.

`KeyRotationProofs` proves types, and `OwnInv`: whatever the operator writes
lists the key it names for signing, and an instance that has read any version of
the secret accepts the signing key of that version. `OwnTokensVerify` follows,
even for an operator who publishes nothing first: such a rotation makes
instances refuse each other's tokens, never their own. It also proves `KeyInv`, under `PublishFirst`: every trusted key (of a
live token, of a running instance's environment, the secret's current one) is
known to every running instance and consumer, the secret lists them all or
names the only one, and whoever starts next will know the current one. `LiveTokensVerify` alone is not inductive, because it
says nothing of instances that are down or about to sign.

`StartupProofs` proves that the configuration of an instance is the one its
environment asks for, that everything before its `step` is stored (tables are
never dropped while it runs; an in-memory database is its own), and that an
instance turned away at a statement finds that statement done ever after
(`SchemaCovers`: the statements of an SQL backend are all objects, those of
DynamoDB the three tables). Types,
`ServingHasSchema` and `TurnedAwayOnce` follow, for any set of environments and
any number of instances and faults.

The inductive invariants were also checked by TLC, on the instances of the runs
or of Other experiments. Only model-checked: `LogoutCompletes` and
`EventuallyServes`, which are liveness. What the violating runs refute, and what
Other experiments finds false, is false without the hypotheses named here.

## Findings

Listed in `PROJECT.json`, each with the run that shows it: lost updates of the
user row (a reset token used twice, failures not counted), the fixed 24 hours of
revocations beside a configurable token lifetime, and the buckets of concurrent
first requests. Other experiments lists what else fails outside the bounds the
properties assume; among it README.md's rotation with a single edit of the secret
("so tokens signed with either private key still verify"), which does not hold
until every instance has restarted and every consumer has fetched the keys again.

## Not modelled

- Validation of addresses and passwords, and the alias: predicates and a field
  without influence on any state the properties tell apart.
- A request with both an Authorization: Bearer header and an auth cookie: the
  browser's script sends no such header and a Bearer client has no cookie.
- Limits per peer or per person: see RateLimiter above.
- The claims of a token other than `exp` and `jti`; signatures beyond the choice
  of the key.
- Mail texts, SMTP and SES clients, column and time formats, CORS and cookie
  attributes, logging.
- Throttling and request timeouts, except as slots of a worker and as failures.
- `DeleteUser`, the legacy route helpers and the resolution repository: no
  caller.
- The development reset page and the Go client: static files, one stateless
  call (the called operation is `CheckRevocation` in Sessions).

## Plan

1. Accounts, its runs and proofs (done).
2. Sessions, its runs and proofs (done).
3. RateLimiter (done).
4. AccountsAtomic and the refinement (done).
5. KeyRotation (done).
6. Startup, with crashes and restarts (done).
7. AuthSystem: Accounts and Sessions composed, a reset or a logout against live
   sessions.
8. Theorems for every safety and action property of the passing runs, and for
   the properties of the violating runs under the hypothesis that removes the
   cause (done).
