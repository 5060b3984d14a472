--------------------------- MODULE TokenLifecycle ---------------------------
(***************************************************************************)
(* Grants, authorization codes, access tokens and refresh tokens of the    *)
(* authorization server: src/domain/grant.ts, src/domain/tokens.ts and the *)
(* token and revocation endpoints, against the four tables they share.     *)
(*                                                                         *)
(* Every await on storage is a point where another request, of the same    *)
(* process or of another replica, may run, so a request is a small state   *)
(* machine and every action below is the code between two awaits.  Each    *)
(* repository call is one SQL statement and hence one atomic step.  A      *)
(* request may stop at any await (Abort): the database call failed, the    *)
(* signing key was unavailable or the process died.                        *)
(*                                                                         *)
(* issueAuthorizationCode makes one code for one fresh grant, so a code is *)
(* named by its grant.                                                     *)
(***************************************************************************)
EXTENDS Naturals, FiniteSets

CONSTANTS
    Grants,            \* grant ids (randomUUID), and the codes made for them
    AccessTokens,      \* access token jtis (randomUUID)
    RefreshTokens,     \* refresh tokens (256 random bits, stored hashed)
    Requests,          \* requests in flight at the same time
    Clients, Subjects, Scopes, RedirectUris, Verifiers,
    Keys,              \* thumbprints (jkt) of DPoP keys
    RefreshClients,    \* clients registered for grant_type refresh_token
    AuthCodeTtl, AccessTokenTtl, RefreshTokenTtl,
    Lag,               \* bound: how old a captured `now` is when it is used
    MaxTime,           \* bound on the clock
    Null

ASSUME ConstantsOK ==
    /\ RefreshClients \subseteq Clients
    /\ AuthCodeTtl \in Nat \ {0}
    /\ AccessTokenTtl \in Nat \ {0}
    /\ RefreshTokenTtl \in Nat \ {0}
    /\ Lag \in Nat
    /\ MaxTime \in Nat
    /\ Null \notin Grants \cup AccessTokens \cup RefreshTokens
    /\ Null \notin Clients \cup Subjects \cup Keys
    /\ AccessTokens \cap RefreshTokens = {}

VARIABLES
    clock,             \* wall clock, in units of the TTLs
    grants,            \* table grants
    codes,             \* table authorization_codes
    accessTokens,      \* table access_tokens
    refreshTokens,     \* table refresh_tokens
    req,               \* the requests in flight
    sent,              \* tokens a token response has carried to a client
    refused,           \* grants whose code replay was answered invalid_grant
    confirmed          \* tokens whose revocation was carried out and answered 200

tables == <<grants, codes, accessTokens, refreshTokens>>
replies == <<sent, refused, confirmed>>
vars == <<clock, tables, req, replies>>

-----------------------------------------------------------------------------
(* The rows of the four tables and the state of a request.                 *)

\* S256 of a PKCE verifier: another value, and a different one per verifier.
S256(v) == <<"S256", v>>

GrantRow == [clientId : Clients, subject : Subjects, scope : SUBSET Scopes,
             revoked : BOOLEAN]

CodeRow == [clientId : Clients, redirectUri : RedirectUris,
            codeChallenge : {S256(v) : v \in Verifiers},
            dpopJkt : Keys \cup {Null}, expiresAt : Nat, consumed : BOOLEAN]

AccessTokenRow == [grantId : Grants, clientId : Clients, subject : Subjects,
                   scope : SUBSET Scopes, cnfJkt : Keys, expiresAt : Nat,
                   revoked : BOOLEAN]

RefreshTokenRow == [grantId : Grants, clientId : Clients,
                    scope : SUBSET Scopes, expiresAt : Nat, revoked : BOOLEAN]

\* A missing row is never mistaken for a row.
ASSUME NullIsNoRow ==
    Null \notin GrantRow \cup CodeRow \cup AccessTokenRow \cup RefreshTokenRow

\* Where a request is: the storage call it makes next.
IssueSteps  == {"codes.insert"}
ReplaySteps == {"codes.select", "grants.revoke", "at.revokeByGrant", "rt.revokeByGrant"}
MintSteps   == {"grants.find", "at.insert", "rt.insert"}
RevokeSteps == {"rt.revoke", "at.cascade", "at.revoke", "at.unknown"}

Steps       == {"idle"} \cup IssueSteps \cup ReplaySteps \cup MintSteps \cup RevokeSteps

Request == [pc : Steps,
            grant : Grants \cup {Null},
            client : Clients \cup {Null},
            jkt : Keys \cup {Null},
            subject : Subjects \cup {Null},
            scope : SUBSET Scopes,
            at : AccessTokens \cup {Null},
            rt : RefreshTokens \cup {Null}]

Idle == [pc |-> "idle", grant |-> Null, client |-> Null, jkt |-> Null,
         subject |-> Null, scope |-> {}, at |-> Null, rt |-> Null]

TypeOK ==
    /\ clock \in Nat
    /\ grants \in [Grants -> GrantRow \cup {Null}]
    /\ codes \in [Grants -> CodeRow \cup {Null}]
    /\ accessTokens \in [AccessTokens -> AccessTokenRow \cup {Null}]
    /\ refreshTokens \in [RefreshTokens -> RefreshTokenRow \cup {Null}]
    /\ req \in [Requests -> Request]
    /\ sent \subseteq AccessTokens \cup RefreshTokens
    /\ refused \subseteq Grants
    /\ confirmed \subseteq AccessTokens \cup RefreshTokens

Init ==
    /\ clock = 0
    /\ grants = [g \in Grants |-> Null]
    /\ codes = [g \in Grants |-> Null]
    /\ accessTokens = [a \in AccessTokens |-> Null]
    /\ refreshTokens = [t \in RefreshTokens |-> Null]
    /\ req = [r \in Requests |-> Idle]
    /\ sent = {}
    /\ refused = {}
    /\ confirmed = {}

-----------------------------------------------------------------------------
(* Conditions of the code, by name.                                        *)

\* `now` is read before a storage call and used by the statement that the
\* database runs later.
Captured == {t \in 0..clock : clock - t <= Lag}

\* Mutant: the UPDATE forgets `consumed_at IS NULL`.
RedeemableAgain(code, now) == code.expiresAt > now

\* The WHERE clause of the redeeming UPDATE.
Redeemable(code, now) == ~code.consumed /\ code.expiresAt > now

\* Mutant: any client may present the code.
MatchesAnyClient(code, client, uri, verifier, jkt) ==
    /\ code.redirectUri = uri
    /\ code.codeChallenge = S256(verifier)
    /\ code.dpopJkt \in {Null, jkt}

\* Mutant: the code's dpop_jkt is not compared with the proof's key.
MatchesAnyKey(code, client, uri, verifier, jkt) ==
    /\ code.clientId = client
    /\ code.redirectUri = uri
    /\ code.codeChallenge = S256(verifier)

\* The checks after a successful redemption, all of them synchronous.
Matches(code, client, uri, verifier, jkt) ==
    /\ code.clientId = client
    /\ code.redirectUri = uri
    /\ code.codeChallenge = S256(verifier)
    /\ code.dpopJkt \in {Null, jkt}

\* Mutant: revoked refresh tokens are accepted.
RefreshableRevoked(row, client, now) == row.expiresAt > now /\ row.clientId = client

\* loadRefreshGrant's test of the row it found.
Refreshable(row, client, now) ==
    /\ ~row.revoked
    /\ row.expiresAt > now
    /\ row.clientId = client

\* The scope a refresh request asks for is granted when it is omitted
\* (modelled as {}) or within the refresh token's scope.
RequestedScope(requested, granted) ==
    IF requested = {} THEN granted ELSE requested

WithRefreshToken(r) == req[r].rt = Null /\ req[r].client \in RefreshClients

\* UPDATE ... SET revoked_at ... WHERE grant_id = g AND revoked_at IS NULL
RevokeByGrant(table, g) ==
    [x \in DOMAIN table |->
        IF table[x] # Null /\ table[x].grantId = g
        THEN [table[x] EXCEPT !.revoked = TRUE]
        ELSE table[x]]

\* What introspection and userinfo answer about: a row neither revoked nor
\* expired.  Neither looks at the grant.
ActiveToken(table, x) ==
    table[x] # Null /\ ~table[x].revoked /\ table[x].expiresAt > clock

Goto(r, pc) == req' = [req EXCEPT ![r] = [@ EXCEPT !.pc = pc]]
Finish(r) == req' = [req EXCEPT ![r] = Idle]

-----------------------------------------------------------------------------
(* issueAuthorizationCode: the grant, then its code.                       *)

InsertGrant(r, g, c, s, sc) ==
    /\ req[r] = Idle
    /\ grants[g] = Null
    /\ grants' = [grants EXCEPT ![g] =
            [clientId |-> c, subject |-> s, scope |-> sc, revoked |-> FALSE]]
    /\ req' = [req EXCEPT ![r] = [Idle EXCEPT !.pc = "codes.insert",
                                              !.grant = g, !.client = c]]
    /\ UNCHANGED <<clock, codes, accessTokens, refreshTokens, replies>>

\* redirect_uri u, code_challenge S256(v) and dpop_jkt k (or none) come from
\* the pushed authorization request.
InsertCode(r, u, v, k, now) ==
    /\ req[r].pc = "codes.insert"
    /\ codes' = [codes EXCEPT ![req[r].grant] =
            [clientId |-> req[r].client, redirectUri |-> u, codeChallenge |-> S256(v),
             dpopJkt |-> k, expiresAt |-> now + AuthCodeTtl, consumed |-> FALSE]]
    /\ Finish(r)
    /\ UNCHANGED <<clock, grants, accessTokens, refreshTokens, replies>>

-----------------------------------------------------------------------------
(* redeemAuthorizationCode: the UPDATE of codes.redeem, on a miss its      *)
(* SELECT; a consumed code starts the replay cascade.                      *)

\* The UPDATE hits and every check passes.
RedeemOk(r, g, c, u, v, k, now) ==
    /\ req[r] = Idle
    /\ codes[g] # Null
    /\ Redeemable(codes[g], now)
    /\ codes' = [codes EXCEPT ![g].consumed = TRUE]
    /\ Matches(codes[g], c, u, v, k)
    /\ req' = [req EXCEPT ![r] = [Idle EXCEPT !.pc = "grants.find", !.grant = g,
                                              !.client = c, !.jkt = k]]
    /\ UNCHANGED <<clock, grants, accessTokens, refreshTokens, replies>>

\* The UPDATE hits and a check fails: the code is spent all the same.
RedeemBurned(r, g, c, u, v, k, now) ==
    /\ req[r] = Idle
    /\ codes[g] # Null
    /\ Redeemable(codes[g], now)
    /\ codes' = [codes EXCEPT ![g].consumed = TRUE]
    /\ ~Matches(codes[g], c, u, v, k)
    /\ UNCHANGED <<clock, grants, accessTokens, refreshTokens, req, replies>>

RedeemMiss(r, g, now) ==
    /\ req[r] = Idle
    /\ codes[g] # Null
    /\ ~Redeemable(codes[g], now)
    /\ req' = [req EXCEPT ![r] = [Idle EXCEPT !.pc = "codes.select", !.grant = g]]
    /\ UNCHANGED <<clock, tables, replies>>

\* Mutant: the cascade starts with the tokens and leaves the grant valid.
SelectConsumedKeepGrant(r) ==
    /\ req[r].pc = "codes.select"
    /\ IF codes[req[r].grant].consumed THEN Goto(r, "at.revokeByGrant") ELSE Finish(r)
    /\ UNCHANGED <<clock, tables, replies>>

\* "consumed" whatever the code's expiry, else "invalid".
SelectConsumed(r) ==
    /\ req[r].pc = "codes.select"
    /\ IF codes[req[r].grant].consumed THEN Goto(r, "grants.revoke") ELSE Finish(r)
    /\ UNCHANGED <<clock, tables, replies>>

\* Mutant: a grant that is revoked already is taken for one whose tokens are.
RevokeGrantOnce(r) ==
    /\ req[r].pc = "grants.revoke"
    /\ grants' = [grants EXCEPT ![req[r].grant].revoked = TRUE]
    /\ Goto(r, IF grants[req[r].grant].revoked THEN "rt.revokeByGrant" ELSE "at.revokeByGrant")
    /\ UNCHANGED <<clock, codes, accessTokens, refreshTokens, replies>>

RevokeGrant(r) ==
    /\ req[r].pc = "grants.revoke"
    /\ grants' = [grants EXCEPT ![req[r].grant].revoked = TRUE]
    /\ Goto(r, "at.revokeByGrant")
    /\ UNCHANGED <<clock, codes, accessTokens, refreshTokens, replies>>

RevokeAccessTokensByGrant(r) ==
    /\ req[r].pc = "at.revokeByGrant"
    /\ accessTokens' = RevokeByGrant(accessTokens, req[r].grant)
    /\ Goto(r, "rt.revokeByGrant")
    /\ UNCHANGED <<clock, grants, codes, refreshTokens, replies>>

\* The last write of the cascade, then invalid_grant to the client.
RevokeRefreshTokensByGrant(r) ==
    /\ req[r].pc = "rt.revokeByGrant"
    /\ refreshTokens' = RevokeByGrant(refreshTokens, req[r].grant)
    /\ refused' = refused \cup {req[r].grant}
    /\ Finish(r)
    /\ UNCHANGED <<clock, grants, codes, accessTokens, sent, confirmed>>

-----------------------------------------------------------------------------
(* loadRefreshGrant finds the row of a refresh token the client was sent;  *)
(* grants.find is the last check of a redemption and of a refresh.  Then   *)
(* the scope of the tokens: the grant's, or the one the refresh asks for.  *)

FindRefreshToken(r, x, c, k, now) ==
    /\ req[r] = Idle
    /\ x \in sent
    /\ Refreshable(refreshTokens[x], c, now)
    /\ req' = [req EXCEPT ![r] = [Idle EXCEPT !.pc = "grants.find",
                   !.grant = refreshTokens[x].grantId, !.client = c,
                   !.jkt = k, !.rt = x]]
    /\ UNCHANGED <<clock, tables, replies>>

\* Mutant: the grant's subject is not taken over.
FindGrantNoSubject(r) ==
    /\ req[r].pc = "grants.find" /\ req[r].rt = Null
    /\ IF grants[req[r].grant].revoked
       THEN Finish(r)
       ELSE req' = [req EXCEPT ![r] = [@ EXCEPT !.pc = "at.insert",
                                                !.scope = grants[req[r].grant].scope]]
    /\ UNCHANGED <<clock, tables, replies>>

\* Mutant: a revoked grant still yields tokens.
FindGrantRevoked(r) ==
    /\ req[r].pc = "grants.find" /\ req[r].rt = Null
    /\ req' = [req EXCEPT ![r] = [@ EXCEPT !.pc = "at.insert",
                   !.subject = grants[req[r].grant].subject,
                   !.scope = grants[req[r].grant].scope]]
    /\ UNCHANGED <<clock, tables, replies>>

FindGrantForCode(r) ==
    /\ req[r].pc = "grants.find" /\ req[r].rt = Null
    /\ LET grant == grants[req[r].grant] IN
       IF grant.revoked
       THEN Finish(r)
       ELSE req' = [req EXCEPT ![r] = [@ EXCEPT !.pc = "at.insert",
                        !.subject = grant.subject, !.scope = grant.scope]]
    /\ UNCHANGED <<clock, tables, replies>>

FindGrantForRefresh(r, requested) ==
    /\ req[r].pc = "grants.find" /\ req[r].rt # Null
    /\ LET grant == grants[req[r].grant]
           granted == refreshTokens[req[r].rt].scope IN
       IF grant.revoked \/ ~(requested \subseteq granted)
       THEN Finish(r)
       ELSE req' = [req EXCEPT ![r] = [@ EXCEPT !.pc = "at.insert",
                        !.subject = grant.subject,
                        !.scope = RequestedScope(requested, granted)]]
    /\ UNCHANGED <<clock, tables, replies>>

-----------------------------------------------------------------------------
(* issueTokenSet: the access token, then a refresh token for a code        *)
(* redeemed by a client registered for refresh_token.  The last insert     *)
(* ends the request and its response carries the tokens.                   *)

InsertAccessToken(r, a, now) ==
    /\ req[r].pc = "at.insert"
    /\ accessTokens[a] = Null
    /\ accessTokens' = [accessTokens EXCEPT ![a] =
          [grantId |-> req[r].grant, clientId |-> req[r].client,
           subject |-> req[r].subject, scope |-> req[r].scope,
           cnfJkt |-> req[r].jkt, expiresAt |-> now + AccessTokenTtl,
           revoked |-> FALSE]]
    /\ IF WithRefreshToken(r)
       THEN /\ req' = [req EXCEPT ![r] = [@ EXCEPT !.pc = "rt.insert", !.at = a]]
            /\ UNCHANGED sent
       ELSE /\ sent' = sent \cup {a}
            /\ Finish(r)
    /\ UNCHANGED <<clock, grants, codes, refreshTokens, refused, confirmed>>

InsertRefreshToken(r, x, now) ==
    /\ req[r].pc = "rt.insert"
    /\ refreshTokens[x] = Null
    /\ refreshTokens' = [refreshTokens EXCEPT ![x] =
          [grantId |-> req[r].grant, clientId |-> req[r].client,
           scope |-> req[r].scope, expiresAt |-> now + RefreshTokenTtl,
           revoked |-> FALSE]]
    /\ sent' = sent \cup {req[r].at, x}
    /\ Finish(r)
    /\ UNCHANGED <<clock, grants, codes, accessTokens, refused, confirmed>>

-----------------------------------------------------------------------------
(* The revocation endpoint.  A foreign token, or one that no response      *)
(* carried, is answered 200 with no change, so only the owner's request is *)
(* a step.  An access token is looked up only by a server that knows the   *)
(* key it was signed with; any other server takes it for unknown.          *)

ResolveRefreshToken(r, x) ==
    /\ req[r] = Idle
    /\ x \in sent
    /\ req' = [req EXCEPT ![r] = [Idle EXCEPT !.pc = "rt.revoke", !.rt = x,
                   !.grant = refreshTokens[x].grantId]]
    /\ UNCHANGED <<clock, tables, replies>>

ResolveAccessToken(r, a) ==
    /\ req[r] = Idle
    /\ a \in sent
    /\ req' = [req EXCEPT ![r] = [Idle EXCEPT !.pc = "at.revoke", !.at = a,
                   !.grant = accessTokens[a].grantId]]
    /\ UNCHANGED <<clock, tables, replies>>

\* findAccessToken fails to verify the token with the keys that this server
\* loaded, and findRefreshToken does not find it either.
MissAccessToken(r, a) ==
    /\ req[r] = Idle
    /\ a \in sent
    /\ req' = [req EXCEPT ![r] = [Idle EXCEPT !.pc = "at.unknown", !.at = a]]
    /\ UNCHANGED <<clock, tables, replies>>

\* The owner is told 200 all the same, and nothing is revoked.
AnswerUnknown(r) ==
    /\ req[r].pc = "at.unknown"
    /\ Finish(r)
    /\ UNCHANGED <<clock, tables, replies>>

RevokeRefreshToken(r) ==
    /\ req[r].pc = "rt.revoke"
    /\ refreshTokens' = [refreshTokens EXCEPT ![req[r].rt].revoked = TRUE]
    /\ Goto(r, "at.cascade")
    /\ UNCHANGED <<clock, grants, codes, accessTokens, replies>>

CascadeToAccessTokens(r) ==
    /\ req[r].pc = "at.cascade"
    /\ accessTokens' = RevokeByGrant(accessTokens, req[r].grant)
    /\ confirmed' = confirmed \cup {req[r].rt}
    /\ Finish(r)
    /\ UNCHANGED <<clock, grants, codes, refreshTokens, sent, refused>>

RevokeAccessToken(r) ==
    /\ req[r].pc = "at.revoke"
    /\ accessTokens' = [accessTokens EXCEPT ![req[r].at].revoked = TRUE]
    /\ confirmed' = confirmed \cup {req[r].at}
    /\ Finish(r)
    /\ UNCHANGED <<clock, grants, codes, refreshTokens, sent, refused>>

-----------------------------------------------------------------------------
\* A storage call fails, signing fails or the process dies: the request ends
\* where it is and what it wrote stays.
Abort(r) ==
    /\ req[r] # Idle
    /\ Finish(r)
    /\ UNCHANGED <<clock, tables, replies>>

Tick ==
    /\ clock < MaxTime
    /\ clock' = clock + 1
    /\ UNCHANGED <<tables, req, replies>>

\* The scope of a grant is the one that was pushed or, if none was, the one
\* the client is registered for: never empty.
Issue(r) ==
    \/ \E g \in Grants, c \in Clients, s \in Subjects, sc \in SUBSET Scopes :
            sc # {} /\ InsertGrant(r, g, c, s, sc)
    \/ \E u \in RedirectUris, v \in Verifiers, k \in Keys \cup {Null}, now \in Captured :
            InsertCode(r, u, v, k, now)

Redeem(r) ==
    \/ \E g \in Grants, c \in Clients, u \in RedirectUris, v \in Verifiers,
           k \in Keys, now \in Captured :
            \/ RedeemOk(r, g, c, u, v, k, now)
            \/ RedeemBurned(r, g, c, u, v, k, now)
    \/ \E g \in Grants, now \in Captured : RedeemMiss(r, g, now)
    \/ SelectConsumed(r)
    \/ RevokeGrant(r) \/ RevokeAccessTokensByGrant(r) \/ RevokeRefreshTokensByGrant(r)

Mint(r) ==
    \/ \E x \in RefreshTokens, c \in Clients, k \in Keys, now \in Captured :
            FindRefreshToken(r, x, c, k, now)
    \/ FindGrantForCode(r)
    \/ \E requested \in SUBSET Scopes : FindGrantForRefresh(r, requested)
    \/ \E a \in AccessTokens, now \in Captured : InsertAccessToken(r, a, now)
    \/ \E x \in RefreshTokens, now \in Captured : InsertRefreshToken(r, x, now)

Revoke(r) ==
    \/ \E x \in RefreshTokens : ResolveRefreshToken(r, x)
    \/ \E a \in AccessTokens : ResolveAccessToken(r, a) \/ MissAccessToken(r, a)
    \/ AnswerUnknown(r)
    \/ RevokeRefreshToken(r) \/ CascadeToAccessTokens(r) \/ RevokeAccessToken(r)

Step(r) == Issue(r) \/ Redeem(r) \/ Mint(r) \/ Revoke(r) \/ Abort(r)

Next == Tick \/ \E r \in Requests : Step(r)

Spec == Init /\ [][Next]_vars

-----------------------------------------------------------------------------
(* Properties.                                                             *)

\* A request on its way from a passed credential check to a token insert.
Minting(r, g) == req[r].grant = g /\ req[r].pc \in MintSteps
Exchanging(r, g) == Minting(r, g) /\ req[r].rt = Null

Of(table, g) == {x \in DOMAIN table : table[x] # Null /\ table[x].grantId = g}
TokensOf(g) == <<Of(accessTokens, g), Of(refreshTokens, g)>>

\* redeemAuthorizationCode's single use, across replicas: however many
\* requests present a code, at most one of them is ever let through, so a
\* grant has one exchange in flight or one refresh token, never two of them.
SingleExchange ==
    \A g \in Grants :
        /\ \A r, q \in Requests : Exchanging(r, g) /\ Exchanging(q, g) => r = q
        /\ \A x, y \in Of(refreshTokens, g) : x = y
        /\ \A r \in Requests, x \in Of(refreshTokens, g) : ~Exchanging(r, g)

\* What issueTokenSet wrote, from values read several awaits earlier, is what
\* was authorized: the grant's client and subject, no scope beyond the
\* grant's, and only after the grant's own code was consumed.
TokensMatchGrant ==
    /\ \A a \in AccessTokens : accessTokens[a] # Null =>
        LET row == accessTokens[a]  g == row.grantId IN
        /\ codes[g] # Null /\ codes[g].consumed
        /\ row.clientId = grants[g].clientId
        /\ row.subject = grants[g].subject
        /\ row.scope \subseteq grants[g].scope
    /\ \A x \in RefreshTokens : refreshTokens[x] # Null =>
        LET row == refreshTokens[x]  g == row.grantId IN
        /\ row.clientId = grants[g].clientId
        /\ row.clientId \in RefreshClients
        /\ row.scope = grants[g].scope

\* DPOP-13: a code pushed with dpop_jkt yields a token for that key only.
\* Once a refresh token exists the client may refresh with another key.
PinnedKey ==
    \A a \in AccessTokens : accessTokens[a] # Null =>
        LET g == accessTokens[a].grantId IN
        \/ codes[g].dpopJkt \in {Null, accessTokens[a].cnfJkt}
        \/ Of(refreshTokens, g) # {}

\* What an answer said stays true: a token whose revocation was carried out
\* before the 200 is revoked (a 200 alone may come from AnswerUnknown), and the
\* grant of a refused replay is revoked, whatever the other requests in flight
\* go on to write.
AnswersHold ==
    /\ \A a \in AccessTokens \cap confirmed : accessTokens[a].revoked
    /\ \A x \in RefreshTokens \cap confirmed : refreshTokens[x].revoked
    /\ \A g \in refused : grants[g].revoked

\* What a request in flight holds agrees with the rows it was read from, at
\* every await, although other requests run in between.
RequestHolds(r) ==
    LET g == req[r].grant IN
    /\ req[r].pc = "codes.insert" =>
        /\ g \in Grants /\ grants[g] # Null /\ codes[g] = Null
        /\ req[r].client = grants[g].clientId
        /\ \A q \in Requests : req[q].pc = "codes.insert" /\ req[q].grant = g => q = r
    /\ req[r].pc \in ReplaySteps =>
        /\ g \in Grants /\ codes[g] # Null
        /\ req[r].pc # "codes.select" => codes[g].consumed
        /\ req[r].pc \in {"at.revokeByGrant", "rt.revokeByGrant"} => grants[g].revoked
    /\ req[r].pc \in MintSteps =>
        /\ g \in Grants /\ codes[g] # Null /\ codes[g].consumed
        /\ req[r].client = grants[g].clientId
        /\ req[r].jkt \in Keys
        /\ req[r].rt = Null => codes[g].dpopJkt \in {Null, req[r].jkt}
        /\ req[r].rt # Null => req[r].rt \in Of(refreshTokens, g)
        /\ req[r].pc # "grants.find" =>
            /\ req[r].subject = grants[g].subject
            /\ req[r].scope \subseteq grants[g].scope
            /\ req[r].rt = Null => req[r].scope = grants[g].scope
        /\ req[r].pc = "rt.insert" =>
            /\ req[r].client \in RefreshClients
            /\ req[r].rt = Null
            /\ req[r].at \in Of(accessTokens, g)
    /\ req[r].pc \in {"rt.revoke", "at.cascade"} => req[r].rt \in Of(refreshTokens, g)
    /\ req[r].pc = "at.cascade" => refreshTokens[req[r].rt].revoked
    /\ req[r].pc = "at.revoke" => req[r].at \in Of(accessTokens, g)

\* The tables reference one another as the foreign keys of the migrations say,
\* and only issued tokens are in responses.
RowsLinked ==
    /\ \A g \in Grants : codes[g] # Null =>
        grants[g] # Null /\ codes[g].clientId = grants[g].clientId
    /\ \A x \in RefreshTokens : refreshTokens[x] # Null =>
        LET g == refreshTokens[x].grantId IN codes[g] # Null /\ codes[g].consumed
    /\ \A a \in AccessTokens \cap (sent \cup confirmed) : accessTokens[a] # Null
    /\ \A x \in RefreshTokens \cap (sent \cup confirmed) : refreshTokens[x] # Null
    /\ \A g \in refused : grants[g] # Null

\* The inductive invariant of the token lifecycle.
LifecycleInv ==
    /\ TypeOK
    /\ RowsLinked
    /\ \A r \in Requests : RequestHolds(r)
    /\ SingleExchange
    /\ TokensMatchGrant
    /\ PinnedKey
    /\ AnswersHold

\* No step deletes a row, moves a token to another grant, client, subject,
\* scope or key, un-revokes anything or makes a spent code fresh again.
RowsPersist ==
    /\ \A g \in Grants : grants[g] # Null =>
        /\ grants'[g] # Null
        /\ grants'[g].clientId = grants[g].clientId
        /\ grants'[g].subject = grants[g].subject
        /\ grants'[g].scope = grants[g].scope
        /\ grants[g].revoked => grants'[g].revoked
    /\ \A g \in Grants : codes[g] # Null =>
        /\ codes'[g] # Null
        /\ codes'[g].clientId = codes[g].clientId
        /\ codes'[g].dpopJkt = codes[g].dpopJkt
        /\ codes[g].consumed => codes'[g].consumed
    /\ \A a \in AccessTokens : accessTokens[a] # Null =>
        /\ accessTokens'[a] # Null
        /\ accessTokens'[a].grantId = accessTokens[a].grantId
        /\ accessTokens'[a].clientId = accessTokens[a].clientId
        /\ accessTokens'[a].subject = accessTokens[a].subject
        /\ accessTokens'[a].scope = accessTokens[a].scope
        /\ accessTokens'[a].cnfJkt = accessTokens[a].cnfJkt
        /\ accessTokens[a].revoked => accessTokens'[a].revoked
    /\ \A x \in RefreshTokens : refreshTokens[x] # Null =>
        /\ refreshTokens'[x] # Null
        /\ refreshTokens'[x].grantId = refreshTokens[x].grantId
        /\ refreshTokens'[x].clientId = refreshTokens[x].clientId
        /\ refreshTokens'[x].scope = refreshTokens[x].scope
        /\ refreshTokens[x].revoked => refreshTokens'[x].revoked

\* A revoked grant with no request past its grants.find check.
Sealed(g) ==
    /\ grants[g] # Null /\ grants[g].revoked
    /\ \A r \in Requests :
         req[r].grant = g => req[r].pc \notin {"at.insert", "rt.insert"}

\* A spent code with nothing in flight and no refresh token left to use: the
\* redemption failed a check or died, or the refresh token was revoked.
Exhausted(g) ==
    /\ codes[g] # Null /\ codes[g].consumed
    /\ \A r \in Requests : ~Minting(r, g)
    /\ \A x \in Of(refreshTokens, g) : refreshTokens[x].revoked

\* Revocation is final once the requests already past the check are done: no
\* code, refresh token or retry mints a token of a sealed grant again.
SealedForever ==
    [][\A g \in Grants : Sealed(g) => Sealed(g)' /\ UNCHANGED TokensOf(g)]_vars

\* A code that was burned by a failed check or a crash, and a grant whose
\* refresh token was revoked at the revocation endpoint (which leaves the
\* grant itself valid), never mint again.
ExhaustedForever ==
    [][\A g \in Grants : Exhausted(g) => Exhausted(g)' /\ UNCHANGED TokensOf(g)]_vars

\* The tokens of a grant that a response carried to the client.
DeliveredOf(g) == sent \cap (Of(accessTokens, g) \cup Of(refreshTokens, g))

\* Refinement mapping: the life of the code of a grant, as OneTimeUse sees it.
CodeStatus(g) ==
    IF codes[g] = Null THEN "none"
    ELSE IF ~codes[g].consumed THEN "usable"
    ELSE IF \E r \in Requests : Exchanging(r, g) THEN "claimed"
    ELSE IF DeliveredOf(g) # {} THEN "delivered"
    ELSE "spent"

CodeUse == INSTANCE OneTimeUse
    WITH Tickets <- Grants, status <- [g \in Grants |-> CodeStatus(g)]

\* redeemAuthorizationCode, the token endpoint and the inserts of
\* issueTokenSet, spread over many awaits and replicas, amount to a one-time
\* ticket: the code is claimed in one step by one request, whose response
\* either delivers tokens or is lost with the code, and nobody claims it again.
CodeIsOneTime == CodeUse!Spec

\* RFC 6749 10.5 as the comment in redeemAuthorizationCode puts it: reuse of
\* a code revokes every token minted from that grant.
ReplayRevokesEveryToken ==
    \A g \in refused :
        /\ \A a \in Of(accessTokens, g) : ~ActiveToken(accessTokens, a)
        /\ \A x \in Of(refreshTokens, g) : ~ActiveToken(refreshTokens, x)

\* RFC 7009 2.2 as the comment in the revocation endpoint puts it: revoking a
\* refresh token cascades to the grant's access tokens.
RevocationCascades ==
    \A x \in RefreshTokens \cap confirmed :
        \A a \in Of(accessTokens, refreshTokens[x].grantId) :
            ~ActiveToken(accessTokens, a)

=============================================================================
