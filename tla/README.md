# A TLA+ model of the FAPI 2.0 authorization server

The repository is an OAuth 2.0 / OpenID Connect authorization server for the
FAPI 2.0 security profile: pushed authorization requests, PKCE, DPoP-bound
tokens, `private_key_jwt`, no refresh token rotation. The server processes keep
almost no state: everything that must be used once, revoked or remembered is a
row of a table that all replicas share. Every `await` on storage is therefore a
place where another request, of this process or of another one, may run or where
the process may die. The specifications here take the handlers apart at exactly
those places. Paths below are relative to the repository's `src/`.

## Inventory

| component | state | operations | interacts with | hard behaviour | what makes it correct |
|---|---|---|---|---|---|
| **Token lifecycle** (`domain/grant.ts`, `domain/tokens.ts`, `endpoints/token.ts`, `endpoints/revoke.ts`) | `grants`, `authorization_codes`, `access_tokens`, `refresh_tokens` | issue a code, redeem, replay cascade, refresh, revoke | the authorization flow issues codes; replay guard and client authentication come first; signing keys | races on one code, a cascade of three writes, checks before and writes after several awaits, a crash between two inserts | one exchange per code; tokens within the grant; revocation is final |
| **Authorization flow** (`endpoints/par.ts`, `authorize.ts`, `interaction.ts`, `domain/interaction.ts`, `domain/sessions.ts`) | `par_requests`, `interactions`, a cookie per browser | push, authorize, login, consent, decide, issue a code | PDP, authentication provider, token lifecycle | tabs sharing a `request_uri`, a session swapped between form and submission, a login that ages while the form is open, expiry on the way, a login that never ends | one code per request, for the person who saw the form and whose login was recent enough when it was asked for, none after a denial in time; a login leads on |
| **Replay guard** (`domain/dpop.ts`, `domain/client-auth.ts`, `jti.register`) | `jti_replay`, or a bounded map | check the time window, register a jti, reap, sweep | called by PAR, token, revocation, introspection, userinfo | the guard's expiry against the acceptance window, a stale `now`, a reap by another replica, the map's cap | a proof is accepted once while its entry has to be there |
| **Signing keys** (`crypto/keys.ts`, `db/keys-rotate.ts`) | `signing_keys`, a key map per process | lazy load, first boot, rotate, publish, sign | token issuance, JWKS endpoint, lookup of access tokens | concurrent first boots, rotation by another process, a crash around the insert, keys ageing out | one active key; every signing key is stored; a published key outlives its tokens |
| **Token lookup, introspection, userinfo** (`domain/token-lookup.ts`, `endpoints/introspect.ts`, `userinfo.ts`) | none of their own; a handler holds a copy of a row | find a token, check the copy, verify the proof, answer | read the token tables while issuance, replay and revocation go on; replay guard | the row is read before an await and used after it | nobody is told "active" about a token whose revocation was carried out and answered before; answers go to the grant's client or the key's holder |
| **Request validation, client registration** (`domain/authz-request.ts`, `domain/par.ts`, `domain/clients.ts`, `db/seed-clients.ts`) | `clients`, and the params column of `par_requests` | push, validate at every step, reseed | PAR, authorize and interaction endpoints validate against the row that they have just read; the seeder replaces it | three validations of one request, each against another registration | the code carries what was pushed and shown; redirects go to registered addresses |
| **Rate limiter** (`endpoints/rate-limit.ts`) | one map of fixed windows per process | allow, with a sweep inside | in front of PAR, and the same one in front of token, revocation and introspection | the cap of the map, a sweep that removes the entry which the call writes | never above its cap, nobody locked out, no window cut short |
| **Storage schema, migrations** (`db/migrate.ts`, `db/migrations/`) | `schema_migrations`, the tables | run the files in order | servers may start before the tables exist | two runs at once, a run that dies | recorded means applied; in order |
| Policy decision point (`authz/`) | none | evaluate | consent, `prompt=none` | timeout, malformed answer | fails closed |
| Client key resolution | JWKS cache (library) | resolve | client authentication | stale cache | the library's |
| Configuration, discovery, pages | constants | - | - | - | - |

`PROJECT.json` lists the same components with what each module covers, and the
hazards of the code at their lines, with the properties that answer to them.

## Modules

* **`OneTimeUse`** – the abstract specification of anything handed out for one use:
  a ticket is offered, then claimed once or withdrawn; what is claimed is delivered
  or lost; nothing leads back. `TokenLifecycle` implements it for authorization codes
  (`CodeStatus`, property `CodeIsOneTime`) and `AuthzFlow` for request_uris
  (`UriStatus`, property `UriIsOneTime`). For a code, *claimed* means that an
  exchange is between the UPDATE and its answer, *delivered* that tokens were sent.
* **`TokenLifecycle`** – the four token tables. A request is a record with the
  name of the storage call it makes next (`pc`) and what its handler holds in
  local variables: the grant, the client and the proof key that passed the
  checks, the subject and scope read from the grant. `RedeemOk`, `RedeemBurned`
  and `RedeemMiss` are the three outcomes of the redeeming UPDATE with the
  synchronous checks behind it, `SelectConsumed` the SELECT after a miss,
  `RevokeGrant`, `RevokeAccessTokensByGrant` and `RevokeRefreshTokensByGrant` the
  cascade, `FindGrantForCode`/`FindGrantForRefresh` the last check before
  `InsertAccessToken` and `InsertRefreshToken`. `Abort` ends a request at any
  await: the database, the signing key or the process failed. The revocation
  endpoint looks an access token up by its signature: a server that has not loaded
  the token's key takes it for unknown (`MissAccessToken`), answers 200 and revokes
  nothing (`AnswerUnknown`). What clients have been told is kept in `sent`, `refused`
  and `confirmed`, which is the revocations that were carried out and answered. A code
  is named by its grant, because `issueAuthorizationCode` makes exactly one for each.
* **`TokenReaders`** – `TokenLifecycle` with the two endpoints that only read. A
  reading request holds a copy of the row it found (`Find`); `CheckIntrospection` and
  `CheckUserinfo` look at the copy, `VerifyProof` is userinfo's await, and `pc =
  "active"` is an answer with the token's data. `before` (the revocation had been
  carried out and answered when the row was read) and `calm` (a cascade found its
  grant already sealed) are history.
* **`AuthzFlow`** – from a pushed request to a code. Browsers hold a sealed
  session cookie and the login and consent forms they were shown; a request
  carries the cookie of its browser. A request starts with its first lookup, whose
  `now` it keeps for the second (`loadInteractionContext` passes one `now` to both);
  every later storage call has a `new Date()` of its own, taken somewhere between the
  step before and the statement (`Captured`). `par.consume` compares the row's expiry
  with that value, so an UPDATE may claim a row after its expiry, and a denial at or
  after the expiry changes no row (`ConsumePar`, `Decline`). The inserts of the push
  and of `interactions` are one step with the capture of their time: a row that appears
  a little later is a row with a shorter life. A browser may start with a session from
  before the push, which is what `max_age` is about. `checkedAt` is history: when the
  session was held against the demands of the request. `issueAuthorizationCode` is one
  action here and two in `TokenLifecycle`.
* **`Server`** – `AuthzFlow` and `TokenLifecycle` joined where the code joins them, at
  `issueAuthorizationCode`: the request that has used up its request_uri inserts the
  grant (`SaveGrant`) and the code (`SaveCode`), or dies before, between or after them
  (`Lose`), while the token endpoints go on beside (`ServeToken`). `pushed` is the
  content of the request, whose way through the handlers is `AuthzRequest`'s subject.
* **`AuthzRequest`** – the content of a request, which `AuthzFlow` leaves out: scope,
  redirect_uri and DPoP key on their way from the push to the code, validated again
  by each handler against a registration that the seeder may have replaced since. A
  handler is: peek at the row and await the client's row (`Begin`), validate and
  await the rest (`AuthorizeChecked`, `CheckConsent`, ...), answer (`Decide`).
  `body`, `by` and `seen` are history: what was pushed, the registration it was
  accepted under, those in force while a request was served.
* **`RateLimiter`** – `allow()`, which has no await and is therefore one step: the
  fixed window of a known address, a new entry, the sweep at the cap.
* **`ParFront`** – `AuthzRequest` behind `RateLimiter`: a push asks the limiter
  first, and calls to the endpoints that share it use up the same windows.
* **`JtiReplay`** – DPoP proofs and client assertions against both adapters of the
  guard. A point in time is a second and a fraction: the checks compare whole
  seconds, the rows keep milliseconds, and a request registers with a `now` from
  before its awaits: these differences are where the guard can go wrong.
* **`KeyStore`** – the key table, the in-memory key store of each server, and the
  rotation CLI as processes of their own. `late` marks a token that was signed
  with a key the table already calls retired, and `listed` a server whose key came with
  the list that it loaded.
* **`Migrate`** – runs of the migration script, which share nothing but the
  database: the SELECT on `schema_migrations`, `begin`, the file's statements, its row,
  `commit`, each a step after which the run may die. What is written inside a
  transaction is the run's own (`tables`, `ids`) until it commits, makes others wait
  (`TablesLocked`, `IdLocked`) and is dropped by `Throw`; outside one it would take
  effect at once, which is what the mutant of `Begin` shows.
* **`Deployment`** – `KeyStore` and `Migrate` on one database: until the file that
  creates `signing_keys` is committed, no query of a key store succeeds.
* **`MC...`** – the instances for TLC: symmetry sets, and in `MCParFront` the
  registrations and bodies. Other constants are given in the `.cfg` files.
* **`TokenLifecycleProofs`, `CodeOnceProofs`, `TokenReadersProofs`,
  `AuthzFlowProofs`, `ServerProofs`, `ParFrontProofs`, `DeploymentProofs`,
  `JtiReplayProofs`** – theorems and proofs.

Definitions whose comment starts with *Mutant* are plausible bugs in the
definition that follows them. They are used nowhere in the specifications;
replacing a definition by its mutant makes the matching property fail, which
shows that the property depends on that line of the code.

## Runs

| run | instance | shows |
|---|---|---|
| `tokens_race` | 3 requests, 1 grant, 2 PKCE verifiers, 2 access and 2 refresh tokens, TTL 1, clock 0..1, a captured `now` up to 1 old | `SingleExchange`, `AnswersHold`, `SealedForever`, `ExhaustedForever` |
| `tokens_binding` | 2 requests and 1 reader, a server that may not know the token's key, 2 clients (one registered for refresh), 2 DPoP keys, 2 access tokens and 1 refresh token, a clock that stands still | `TokensMatchGrant`, `PinnedKey`, `NotActiveOnceRevoked`, `AnswersWithinGrant`, `RetryCompletesCascade`, refinement `CodeIsOneTime` |
| `replay_cascade` | 2 requests | *violated* `ReplayRevokesEveryToken` |
| `refresh_cascade` | 2 requests | *violated* `RevocationCascades` |
| `authz_safety` | 1 request_uri, 2 interactions, 2 users, 2 requests in flight, crashes, a login from before the push, `max_age` unset or 0, any `prompt`, clock 0..1 | `OneCodePerRequest`, `CodeForShownSubject`, `AuthTimeMeetsDemand`, `DeclinedForever`, refinement `UriIsOneTime` |
| `authz_live` | 1 interaction, `max_age=0`, 3 session ids, fairness | `LoginLeadsToConsent` |
| `prompt_login` | as above with `prompt=login` and a clock that stands still | *violated* `LoginLeadsToConsent` |
| `jti_replay` | 2 DPoP proofs, 1 assertion, both adapters, 2 requests that stay in flight for up to 2 seconds, half seconds in claims and clock, skew 1, cap 2, clock 0..5 | `AcceptedOnceInTime`, `StoreBounded` |
| `assertion_reuse` | an assertion whose exp may have a fraction | *violated* `SingleUse` |
| `keys` | 2 servers, 1 run of the CLI, 3 keys, 2 runs of the migrations, 2 files, the second creates `signing_keys`, clock 0..2 | `SignedKeysStored`, `BootAgreement`, `RetentionSuffices`, `LoadedServersVerify`, `RecordedAsApplied`, `AppliedInOrder` |
| `key_ageing` | 2 servers, 2 runs of the CLI, 3 keys | *violated* `AgeOutSafe` |
| `par_front` | 1 request in flight, 3 registrations, 3 bodies, 3 addresses, limit 1, window 2, cap 2, clock 2..6 | `CodeAsPushed`, `ScopeAsShown`, `RedirectsRegistered`, `KeysBounded`, `NewcomersWaitTwoWindows`, `LiveWindowsKept` |

The runs `tokens_race`, `authz_safety`, `jti_replay` and `keys` also check the type
invariants.

**Why the bounds are enough.** A race on a code needs two requests past the UPDATE and
a third to replay or revoke between them, hence three requests; a second access token
and a second refresh token are what a second exchange would leave. Mixing up clients
or keys needs two of each, and no more than one of them is confused by one mistake;
`tokens_binding` has one subject and one scope, so that a narrower scope and another
person's subject are the theorems' part (`TokensAuthorized`, `AnsweredWithinGrant`),
as are expired rows under a reader. A TTL of one tick has a before, a boundary and an
after within the bound on the clock. Two interactions for one `request_uri`, two users
and two session ids are what a confusion of tabs or of sessions needs; a silent
`prompt=none` visit competes with them. Three keys are a first one and the two that
racing rotations make. Two runs of the migrations collide on either of two files, and
a server may find the key table missing or there. A login from before the push, with
`max_age` 0 and a clock that moves, is refused on one visit and replaced before the
next. A third address finds the limiter's map full of two, and four ticks are two
windows. With one request in flight `par_front` still has the registration change at
every await of it, and several tabs one after the other; two at once is what
`CodeCarriesPush` and its siblings prove, and the race on the `request_uri` is
`authz_safety`'s.

Counters are bounded by `MaxTime`/`MaxSec` (clock), `Lag` (age of a captured `now`),
`Limit + 1` (a refused call's count, which is refused whatever it is), `MaxUses` (a
proof that was accepted twice is not sent again) and the sets of identifiers;
`AuthzFlow` additionally starts a visit only if an interaction id is left (`IdLeft`),
and `Migrate` starts a run only while a file is missing, as another would skip them
all. Symmetry is used for identifiers that are only compared, and never for a liveness
run. The largest instances are `jti_replay` (1,303,484 distinct states),
`authz_safety` (806,513), `tokens_race` (479,862), `tokens_binding` (445,716), `keys`
(208,802) and `authz_live` (149,306). Deadlock is not checked: with the clock at its
bound and all identifiers used the instance stops.

**What the violated runs say of the code.**

1. *Replay cascade.* `redeemAuthorizationCode` revokes the rows there are. An
   exchange past its `grants.find` inserts its tokens afterwards; they stay active
   although the grant is revoked, since introspection and userinfo look at the
   token row only.
2. *Refresh cascade.* The same for a refresh in flight and `POST /revoke`.
3. *`prompt=login`.* `needsReauthentication` is true for every session, the one
   just established included: GET `/interaction` answers with the login form
   forever and consent is unreachable.
4. *Fractional `exp`.* `exp <= floor(now)` accepts an assertion up to the end of
   exp's second, but the guard's entry ends at `exp` itself: within that second the
   assertion is accepted again. The guard has two more such gaps, which the run leaves
   out (`Lag = 0`) and `AcceptedOnceInTime` calls not timely: an assertion, also with a
   whole-second `exp`, whose request passes `exp` while the client row or its JWKS is
   awaited registers with an old `now`, and is accepted again if its entry was reaped
   meanwhile by another request; and a DPoP proof, for which the skew is the margin,
   has none with `CLOCK_SKEW_FUTURE_ACCEPT_SEC=0`.
5. *Key ageing.* A running server never reloads its keys after `keys:rotate`, so it
   signs with the retired key for as long as it runs, and the tokens outlive the key
   in the JWKS of servers that know of the retirement. For tokens signed before the
   retirement the retention suffices (`RetentionSuffices`, run `keys`). The same lazy
   load bounds what a server can verify, and `LoadedServersVerify` draws the line: if a
   server loaded the key that is in force, it knows the key of every outstanding
   token. The property has to except servers which stored or adopted their key on first
   boot. Such a server lists the table before it inserts, and after a lost race it lists
   it again but keeps only the winner's key (`crypto/keys.ts:199-205`); a key that
   another server signed with and that was rotated away in between stays unknown to it.

**Fairness** is assumed in `AuthzFlow` only. Weak fairness of `Serve(r)`: Node runs
every handler whose await has resolved, and a pending storage call ends. Strong
fairness of `Open`, `SignIn` and `Accept`: the property is about a person who goes
on reopening the interaction, submits the login form each time it is shown and is
accepted in the end, in between other requests that use the same slots. Nothing is
assumed about pushing, visiting, consenting, the clock or crashes; the liveness
runs exclude crashes (`Crashes = FALSE`), after which the person simply tries
again.

## Proofs

TLAPS checks the eight proof modules completely: for every number of requests,
grants, tokens, clients, tabs, keys, addresses, files and seconds. Every safety
property of a passing run is a theorem, the two refinements included, and so is what
the flow and the token endpoints promise together.

* **Token lifecycle.** `LifecycleInv` is the inductive invariant, and
  `LifecycleInvariant` proves it. The safety properties are not inductive by
  themselves: that a token matches its grant depends on what the request that
  inserts it holds, so `RequestHolds` says for every `pc` how a request's local
  variables relate to the rows they were read from, several awaits earlier;
  `RowsLinked` adds the foreign keys. The proof separates what a step does to rows
  from why the invariant survives: `RowsPersistStep` (no row is ever deleted,
  re-bound, un-revoked or made fresh again), `NewRowsStep` and `NewPositionStep`
  (where a new row or a newly minting request comes from) are shown once per
  action; each part of the invariant then follows from these three facts, for the
  moving request by `OwnRequestStep` and for all others by `OtherRequestsStep`.
  `CodeExchangedOnce`, `TokensAuthorized`, `CodeBoundToKey`, `RevocationsKept` and
  `TypeCorrect` are corollaries. `SealedStaysSealed` and `ExhaustedStaysExhausted`
  prove the action properties: under the invariant no step starts minting for such
  a grant and none inserts a token of it.
* **A code is a one-time ticket.** `CodeOnce` proves that `TokenLifecycle` implements
  `OneTimeUse`. `DeliveryInv` adds what the mapping needs: while the exchange of a
  code is in flight nothing of its grant has reached the client, and a refresh token
  in use has. Every step is of one of six kinds (`Quiet`, `Ends`, `Sends`, `Makes`,
  `Claims`, `Burns`), shown once per action (`StepKinds`); each kind is a move of the
  abstract ticket or a stutter.
* **Readers.** What a reading request holds is a copy, so `ReadersInv` says what of a
  copy stays true while the tables move on: its grant, client, subject, scope and key
  (`RowHolds`), and what the request has checked (`Checked`). `RetryCompletes` needs
  `CalmInv`: once a grant is sealed and no exchange in flight, each statement of the
  cascade leaves no live row of its table, and none comes back.
* **Authorization flow.** `FlowInv` says where a request may be and what it then holds
  (`RequestHolds`), that a session id belongs to one user in every cookie, form and
  request (`SidsAgree`), what a code rests on (`CodeHolds`), and that a request_uri is
  used up before it yields anything (`UriHolds`). `OneCode` and `CodeForShown` follow.
  `DeclineIsFinal` proves `DeclinedForever` with the exception that the captured times
  make: a denial at or after the expiry answers `access_denied` but uses nothing up
  (the comment at `endpoints/interaction.ts:209-210` wants it not replayable), and an
  approval that was already allowed, with a `now` from before the expiry, still gets
  its code (`Claimable`). It needs that a declined row is used up or expired, and stays
  so (`DeclinedUnusable`). `RequestUriOnce` is the refinement, step by step as for codes.
* **How old a login may be.** `max_age` and `prompt` are compared with the clock when
  the consent form is asked for, and never again: not when it is submitted, not after
  the awaits on the decision and on the request_uri. `LoginRecentEnough` proves
  `AuthTimeMeetsDemand`: the login that a code reports (`auth_time`) met the demand at
  the moment when the consent form that was submitted had been asked for, or when the
  silent visit was checked; the history variable `checkedAt` carries that moment
  through the form and the request. How old it is when the code goes out is bounded by
  the session's and the form's expiry only, which is what the code does. The argument
  is that sessions with the same id are equal (`FreshInv`), wherever they are held;
  the form's CSRF token names a session id, so the session that submits the form is
  the login that was checked when the form was rendered, in whatever tab and however
  late (`PagesFresh`). `PromptLoginNeverServed` states finding 3 for every value of
  the constants: under `prompt=login` no consent form is shown and no code is issued,
  ever.
* **The whole server.** `Server`'s steps are steps of each part or leave it alone
  (`ServerRunsItsParts`), so the theorems about the parts hold of the composition: what
  is proved of `TokenLifecycle` for grants that appear from nowhere is proved for those
  which the flow makes. `ServerInv` adds `Linked`: from `SaveGrant` on, a grant belongs
  to one pushed request that is used up, to the person of the session that the request
  still holds, and to the client, scope and key of the push; a code sent to the client
  is the row that was inserted. Two theorems need both parts. `ApprovedTokens`: an
  access token is for the person for whom the consent form was shown, and for the
  pushed client, scope and key (a refreshed token of a client whose code was pinned may
  take another key, as the code does not pin refresh tokens). `OneGrant`: whatever is
  repeated, replayed or lost on the way, all tokens of one pushed request are of one
  grant, so that one replay or revocation reaches them all, and at most one refresh
  token is among them. The hypothesis `ServerConstantsOK` repeats what `TokenLifecycle`
  assumes of its constants and keeps the requests of the two parts apart. `server.cfg`
  is the instance on which TLC agreed before the proof (`MCServer`; 1 interaction, 2
  requests of the flow and 1 of the token endpoints, crashes, 124,526 states, the
  properties and `PartsAsSpecified`); it is not among the listed runs, whose questions
  it repeats.
* **PAR front.** `LimiterInv` rests on `StartsRecent`: at the last sweep every entry in
  the map was younger than a window, which is why an address that is turned away
  knows all entries to be younger than two (`NobodyLockedOut`). `RequestInv` follows
  the pushed scope, address and key through the row, the handlers and the forms; a
  scope that is not empty is never resolved a second time. `CodeAsPushed` and
  `ScopeAsShown` make an exception for one configuration, a client whose registered
  scope is empty, where an empty scope stays to be resolved.
* **Deployment.** `KeyInv`: at most one key is active, what a process loaded is backed
  by the table (`MemHolds`), and a token's key is stored and was not retired before it
  was signed (`TokenHolds`). `LoadedVerify` rests on the one-active index: while the
  key that a server loaded is in force nobody can insert another, so the list it
  loaded still has every row (`MemHolds`, `RowsKept`). `MigrateInv` knows where a run
  is from the files it has passed, and that a transaction holds what its run has
  written of the current file and nothing else (`RunHolds`): so a commit adds the file
  to both tables, and a run that dies before it leaves neither. The composition's
  steps are a step of one part with the other unchanged.
* **Replay guard.** `ReplayRefused` proves `AcceptedOnceInTime` for every configuration,
  without a bound on how long a request is in flight: a request that registers while
  the second of `exp` is still to come, or within `Skew` seconds of its captured `now`,
  is accepted only if its proof never was. The invariant is `ReplayInv`: a use is
  remembered until its entry expires by the wall clock. A request reaps, sweeps or
  claims with a `now` that is no later than the clock, so whatever it takes for expired
  is (`ReducedRemembers`, `ReducedKept`); and the entry of a timely request's proof
  cannot have expired (`TimelyMeansLive`). What is not timely, and not promised, is
  described at finding 4. `GuardBounded` bounds the memory adapter's map (`CapInv`).

Assumptions on constants are the modules' named `ASSUME`s: positive lifetimes,
`Null` outside the sets of identifiers and records, disjoint token ids.

**Only model-checked:** `LoginLeadsToConsent`, since liveness and fairness are out of
the prover's reach, and the violated properties, which have no proof. No module uses
recursion, and no proof needs induction over data.

## Not modelled

* Signature verification, PKCE and hash computation (a PKCE challenge is an injective
  image of its verifier), encryption of keys at rest, parsing, rendering and error
  bodies: functions without state.
* Client key resolution: the `jose` library keeps the only state, a cache of JWKS
  documents.
* The policy decision point is a boolean answer that the adapter may turn into a
  denial; its HTTP exchange has no state. The static configuration appears as
  assumptions on constants.
* Which server knows which key: `TokenLifecycle` lets any server miss the key of any
  access token at the revocation endpoint, and a reader that misses it answers
  `active: false` or 401, which is no step. `LoadedServersVerify` says which servers
  know it; the two modules are not combined.
* `rotate()` captures `retiredAt` before the statement that stores it, and `KeyStore`
  takes the two as one: the difference matters only if the token TTL is the full
  retention of 24 hours.
* `max_age` at the submission of the consent form: the code does not look at it again,
  and no doc says that it should; what does hold then is `AuthTimeMeetsDemand`.
* Replicas share one wall clock; drift between them is left out.
* Reaping is modelled for the replay guard, where it matters; in the other tables only
  rows that no statement can return are reaped.
* The connection pool, and the statements inside a migration file.

## Plan

1. `TokenLifecycle`, `AuthzFlow`, `JtiReplay`, `KeyStore` and their proofs (done).
2. Readers of token rows, on top of `TokenLifecycle`, and their proofs (done).
3. The abstract `OneTimeUse` and both refinements, checked and proved (done).
4. `AuthzRequest`, `RateLimiter`, `ParFront`, `Migrate`, `Deployment` and their proofs
   (done).
5. How old a login may be, the composition `Server` with its proofs, and which servers
   verify whose tokens (done).
6. Left: `TokenReaders` on servers with keys of different age, `AuthzRequest` inside
   `Server`, so that the tokens are tied to what was shown as well as to what was pushed,
   and `par_front` with two requests in flight, which needs smaller sets of registrations
   and bodies.
