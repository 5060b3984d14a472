------------------------ MODULE TokenLifecycleProofs ------------------------
(***************************************************************************)
(* Proofs that the token lifecycle keeps its invariant for any number of   *)
(* grants, tokens, clients and requests in flight, and any TTLs.           *)
(***************************************************************************)
EXTENDS TokenLifecycle, TLAPS

\* A request slot that serves nothing is well typed.
LEMMA IdleIsRequest == Idle \in Request
  BY DEF Idle, Request, Steps

\* Revoking by grant keeps a table of token rows a table of token rows.
LEMMA RevokeByGrantType ==
    ASSUME NEW g, TypeOK
    PROVE  /\ RevokeByGrant(accessTokens, g)
                \in [AccessTokens -> AccessTokenRow \cup {Null}]
           /\ RevokeByGrant(refreshTokens, g)
                \in [RefreshTokens -> RefreshTokenRow \cup {Null}]
  <1>1. ASSUME accessTokens \in [AccessTokens -> AccessTokenRow \cup {Null}]
        PROVE  RevokeByGrant(accessTokens, g)
                    \in [AccessTokens -> AccessTokenRow \cup {Null}]
    BY <1>1 DEF RevokeByGrant, AccessTokenRow
  <1>2. ASSUME refreshTokens \in [RefreshTokens -> RefreshTokenRow \cup {Null}]
        PROVE  RevokeByGrant(refreshTokens, g)
                    \in [RefreshTokens -> RefreshTokenRow \cup {Null}]
    BY <1>2 DEF RevokeByGrant, RefreshTokenRow
  <1>3. QED BY <1>1, <1>2 DEF TypeOK

-----------------------------------------------------------------------------
\* What the invariant says of the rows a request is about to use.
LEMMA MintFacts ==
    ASSUME TypeOK, RowsLinked, NEW r \in Requests, RequestHolds(r),
           req[r].pc \in MintSteps
    PROVE  /\ req[r].grant \in Grants
           /\ grants[req[r].grant] \in GrantRow
           /\ codes[req[r].grant] \in CodeRow
           /\ codes[req[r].grant].consumed
           /\ req[r].client = grants[req[r].grant].clientId
           /\ req[r].client \in Clients
           /\ req[r].jkt \in Keys
           /\ req[r].rt # Null => /\ req[r].rt \in RefreshTokens
                                 /\ refreshTokens[req[r].rt] \in RefreshTokenRow
                                 /\ refreshTokens[req[r].rt].grantId = req[r].grant
           /\ req[r].pc # "grants.find" =>
                 /\ req[r].subject = grants[req[r].grant].subject
                 /\ req[r].subject \in Subjects
                 /\ req[r].scope \subseteq grants[req[r].grant].scope
                 /\ req[r].scope \in SUBSET Scopes
  <1>1. /\ req[r].grant \in Grants
        /\ codes[req[r].grant] # Null
        /\ codes[req[r].grant].consumed
        /\ req[r].client = grants[req[r].grant].clientId
        /\ req[r].jkt \in Keys
        /\ req[r].rt # Null => req[r].rt \in Of(refreshTokens, req[r].grant)
        /\ req[r].pc # "grants.find" =>
              /\ req[r].subject = grants[req[r].grant].subject
              /\ req[r].scope \subseteq grants[req[r].grant].scope
    BY DEF RequestHolds
  <1>2. grants[req[r].grant] \in GrantRow /\ codes[req[r].grant] \in CodeRow
    BY <1>1 DEF RowsLinked, TypeOK
  <1>3. ASSUME req[r].rt # Null
        PROVE  /\ req[r].rt \in RefreshTokens
               /\ refreshTokens[req[r].rt] \in RefreshTokenRow
               /\ refreshTokens[req[r].rt].grantId = req[r].grant
    BY <1>1, <1>3 DEF Of, TypeOK
  <1>4. /\ grants[req[r].grant].clientId \in Clients
        /\ grants[req[r].grant].subject \in Subjects
        /\ grants[req[r].grant].scope \in SUBSET Scopes
    BY <1>2 DEF GrantRow
  <1>5. QED BY <1>1, <1>2, <1>3, <1>4

\* The type invariant is preserved, given the facts of the inductive invariant
\* about the request that takes the step.
LEMMA TypeStep ==
    ASSUME TypeOK, RowsLinked, \A r \in Requests : RequestHolds(r), [Next]_vars
    PROVE  TypeOK'
  <1> USE DEF replies, tables
  <1>0. CASE UNCHANGED vars
    BY <1>0 DEF TypeOK, vars
  <1>1. CASE Tick
    BY <1>1 DEF Tick, TypeOK
  <1>2. ASSUME NEW r \in Requests, Step(r) PROVE TypeOK'
    <2>r. req[r] \in Request /\ RequestHolds(r) /\ Idle \in Request
      BY IdleIsRequest DEF TypeOK
    <2>1. ASSUME NEW g \in Grants, NEW c \in Clients, NEW s \in Subjects,
                 NEW sc \in SUBSET Scopes, InsertGrant(r, g, c, s, sc)
          PROVE  TypeOK'
      <3>1. [Idle EXCEPT !.pc = "codes.insert", !.grant = g, !.client = c] \in Request
        BY DEF Idle, Request, Steps, IssueSteps
      <3>2. [clientId |-> c, subject |-> s, scope |-> sc, revoked |-> FALSE] \in GrantRow
        BY DEF GrantRow
      <3>3. QED BY <2>1, <3>1, <3>2 DEF InsertGrant, TypeOK
    <2>2. ASSUME NEW u \in RedirectUris, NEW v \in Verifiers, NEW k \in Keys \cup {Null},
                 NEW now \in Captured, InsertCode(r, u, v, k, now)
          PROVE  TypeOK'
      <3>1. /\ req[r].grant \in Grants /\ grants[req[r].grant] # Null
            /\ req[r].client = grants[req[r].grant].clientId
        BY <2>2, <2>r DEF InsertCode, RequestHolds
      <3>2. req[r].client \in Clients
        BY <3>1 DEF TypeOK, GrantRow
      <3>3. [clientId |-> req[r].client, redirectUri |-> u, codeChallenge |-> S256(v),
             dpopJkt |-> k, expiresAt |-> now + AuthCodeTtl, consumed |-> FALSE] \in CodeRow
        BY <3>2, ConstantsOK DEF CodeRow, Captured
      <3>4. QED BY <2>2, <2>r, <3>1, <3>3 DEF InsertCode, Finish, TypeOK
    <2>3. ASSUME NEW g \in Grants, NEW c \in Clients, NEW u \in RedirectUris,
                 NEW v \in Verifiers, NEW k \in Keys, NEW now \in Captured,
                 RedeemOk(r, g, c, u, v, k, now)
          PROVE  TypeOK'
      <3>1. [Idle EXCEPT !.pc = "grants.find", !.grant = g, !.client = c, !.jkt = k]
                \in Request
        BY DEF Idle, Request, Steps, MintSteps
      <3>2. [codes[g] EXCEPT !.consumed = TRUE] \in CodeRow
        BY <2>3 DEF RedeemOk, TypeOK, CodeRow
      <3>3. QED BY <2>3, <3>1, <3>2 DEF RedeemOk, TypeOK
    <2>4. ASSUME NEW g \in Grants, NEW c \in Clients, NEW u \in RedirectUris,
                 NEW v \in Verifiers, NEW k \in Keys, NEW now \in Captured,
                 RedeemBurned(r, g, c, u, v, k, now)
          PROVE  TypeOK'
      <3>1. [codes[g] EXCEPT !.consumed = TRUE] \in CodeRow
        BY <2>4 DEF RedeemBurned, TypeOK, CodeRow
      <3>2. QED BY <2>4, <3>1 DEF RedeemBurned, TypeOK
    <2>5. ASSUME NEW g \in Grants, NEW now \in Captured, RedeemMiss(r, g, now)
          PROVE  TypeOK'
      <3>1. [Idle EXCEPT !.pc = "codes.select", !.grant = g] \in Request
        BY DEF Idle, Request, Steps, ReplaySteps
      <3>2. QED BY <2>5, <3>1 DEF RedeemMiss, TypeOK
    <2>6. CASE SelectConsumed(r)
      <3>1. [req[r] EXCEPT !.pc = "grants.revoke"] \in Request
        BY <2>r DEF Request, Steps, ReplaySteps
      <3>2. QED BY <2>6, <2>r, <3>1 DEF SelectConsumed, Finish, Goto, TypeOK
    <2>7. CASE RevokeGrant(r)
      <3>1. [req[r] EXCEPT !.pc = "at.revokeByGrant"] \in Request
        BY <2>r DEF Request, Steps, ReplaySteps
      <3>2. req[r].grant \in Grants /\ codes[req[r].grant] # Null
        BY <2>7, <2>r DEF RevokeGrant, RequestHolds, ReplaySteps
      <3>3. [grants[req[r].grant] EXCEPT !.revoked = TRUE] \in GrantRow
        BY <3>2 DEF RowsLinked, TypeOK, GrantRow
      <3>4. QED BY <2>7, <3>1, <3>2, <3>3 DEF RevokeGrant, Goto, TypeOK
    <2>8. CASE RevokeAccessTokensByGrant(r)
      <3>1. [req[r] EXCEPT !.pc = "rt.revokeByGrant"] \in Request
        BY <2>r DEF Request, Steps, ReplaySteps
      <3>2. QED BY <2>8, <3>1, RevokeByGrantType DEF RevokeAccessTokensByGrant, Goto, TypeOK
    <2>9. CASE RevokeRefreshTokensByGrant(r)
      <3>1. req[r].grant \in Grants
        BY <2>9, <2>r DEF RevokeRefreshTokensByGrant, RequestHolds, ReplaySteps
      <3>2. QED BY <2>9, <2>r, <3>1, RevokeByGrantType
                DEF RevokeRefreshTokensByGrant, Finish, TypeOK
    <2>10. ASSUME NEW x \in RefreshTokens, NEW c \in Clients, NEW k \in Keys,
                 NEW now \in Captured, FindRefreshToken(r, x, c, k, now)
          PROVE  TypeOK'
      <3>1. refreshTokens[x].grantId \in Grants
        BY <2>10 DEF FindRefreshToken, RowsLinked, TypeOK, RefreshTokenRow
      <3>2. [Idle EXCEPT !.pc = "grants.find", !.grant = refreshTokens[x].grantId,
                         !.client = c, !.jkt = k, !.rt = x] \in Request
        BY <3>1 DEF Idle, Request, Steps, MintSteps
      <3>3. QED BY <2>10, <3>2 DEF FindRefreshToken, TypeOK
    <2>11. CASE FindGrantForCode(r)
      <3>1. grants[req[r].grant] \in GrantRow
        BY <2>11, <2>r, MintFacts DEF FindGrantForCode, MintSteps
      <3>2. [req[r] EXCEPT !.pc = "at.insert", !.subject = grants[req[r].grant].subject,
                           !.scope = grants[req[r].grant].scope] \in Request
        BY <2>r, <3>1 DEF Request, GrantRow, Steps, MintSteps
      <3>3. QED BY <2>11, <2>r, <3>2 DEF FindGrantForCode, Finish, TypeOK
    <2>12. ASSUME NEW requested \in SUBSET Scopes, FindGrantForRefresh(r, requested)
           PROVE  TypeOK'
      <3>1. /\ grants[req[r].grant] \in GrantRow
            /\ refreshTokens[req[r].rt] \in RefreshTokenRow
        BY <2>12, <2>r, MintFacts DEF FindGrantForRefresh, MintSteps
      <3>2. RequestedScope(requested, refreshTokens[req[r].rt].scope) \in SUBSET Scopes
        BY <3>1 DEF RefreshTokenRow, RequestedScope
      <3>3. [req[r] EXCEPT !.pc = "at.insert", !.subject = grants[req[r].grant].subject,
                           !.scope = RequestedScope(requested, refreshTokens[req[r].rt].scope)]
                \in Request
        BY <2>r, <3>1, <3>2 DEF Request, GrantRow, Steps, MintSteps
      <3>4. QED BY <2>12, <2>r, <3>3 DEF FindGrantForRefresh, Finish, TypeOK
    <2>13. ASSUME NEW a \in AccessTokens, NEW now \in Captured, InsertAccessToken(r, a, now)
           PROVE  TypeOK'
      <3>1. req[r].pc = "at.insert"
        BY <2>13 DEF InsertAccessToken
      <3>2. /\ req[r].grant \in Grants /\ req[r].client \in Clients /\ req[r].jkt \in Keys
            /\ req[r].subject \in Subjects /\ req[r].scope \in SUBSET Scopes
        BY <3>1, <2>r, MintFacts DEF MintSteps
      <3>3. [grantId |-> req[r].grant, clientId |-> req[r].client,
             subject |-> req[r].subject, scope |-> req[r].scope,
             cnfJkt |-> req[r].jkt, expiresAt |-> now + AccessTokenTtl,
             revoked |-> FALSE] \in AccessTokenRow
        BY <3>2, ConstantsOK DEF AccessTokenRow, Captured
      <3>4. [req[r] EXCEPT !.pc = "rt.insert", !.at = a] \in Request
        BY <2>r DEF Request, Steps, MintSteps
      <3>5. QED BY <2>13, <2>r, <3>3, <3>4 DEF InsertAccessToken, Finish, TypeOK
    <2>14. ASSUME NEW x \in RefreshTokens, NEW now \in Captured, InsertRefreshToken(r, x, now)
           PROVE  TypeOK'
      <3>1. req[r].pc = "rt.insert"
        BY <2>14 DEF InsertRefreshToken
      <3>2. /\ req[r].grant \in Grants /\ req[r].client \in Clients
            /\ req[r].scope \in SUBSET Scopes
        BY <3>1, <2>r, MintFacts DEF MintSteps
      <3>3. req[r].at \in AccessTokens
        BY <3>1, <2>r DEF RequestHolds, MintSteps, Of, TypeOK
      <3>4. [grantId |-> req[r].grant, clientId |-> req[r].client,
             scope |-> req[r].scope, expiresAt |-> now + RefreshTokenTtl,
             revoked |-> FALSE] \in RefreshTokenRow
        BY <3>2, ConstantsOK DEF RefreshTokenRow, Captured
      <3>5. QED BY <2>14, <2>r, <3>3, <3>4 DEF InsertRefreshToken, Finish, TypeOK
    <2>15. ASSUME NEW x \in RefreshTokens, ResolveRefreshToken(r, x) PROVE TypeOK'
      <3>1. refreshTokens[x].grantId \in Grants
        BY <2>15 DEF ResolveRefreshToken, RowsLinked, TypeOK, RefreshTokenRow
      <3>2. [Idle EXCEPT !.pc = "rt.revoke", !.rt = x, !.grant = refreshTokens[x].grantId]
                \in Request
        BY <3>1 DEF Idle, Request, Steps, RevokeSteps
      <3>3. QED BY <2>15, <3>2 DEF ResolveRefreshToken, TypeOK
    <2>16. ASSUME NEW a \in AccessTokens, ResolveAccessToken(r, a) PROVE TypeOK'
      <3>1. accessTokens[a].grantId \in Grants
        BY <2>16 DEF ResolveAccessToken, RowsLinked, TypeOK, AccessTokenRow
      <3>2. [Idle EXCEPT !.pc = "at.revoke", !.at = a, !.grant = accessTokens[a].grantId]
                \in Request
        BY <3>1 DEF Idle, Request, Steps, RevokeSteps
      <3>3. QED BY <2>16, <3>2 DEF ResolveAccessToken, TypeOK
    <2>17. CASE RevokeRefreshToken(r)
      <3>1. [req[r] EXCEPT !.pc = "at.cascade"] \in Request
        BY <2>r DEF Request, Steps, RevokeSteps
      <3>2. req[r].rt \in RefreshTokens /\ refreshTokens[req[r].rt] # Null
        BY <2>17, <2>r DEF RevokeRefreshToken, RequestHolds, TypeOK, Of
      <3>3. [refreshTokens[req[r].rt] EXCEPT !.revoked = TRUE] \in RefreshTokenRow
        BY <3>2 DEF TypeOK, RefreshTokenRow
      <3>4. QED BY <2>17, <3>1, <3>2, <3>3 DEF RevokeRefreshToken, Goto, TypeOK
    <2>18. CASE CascadeToAccessTokens(r)
      <3>1. req[r].rt \in RefreshTokens
        BY <2>18, <2>r DEF CascadeToAccessTokens, RequestHolds, TypeOK, Of
      <3>2. QED BY <2>18, <2>r, <3>1, RevokeByGrantType
                DEF CascadeToAccessTokens, Finish, TypeOK
    <2>19. CASE RevokeAccessToken(r)
      <3>1. req[r].at \in AccessTokens /\ accessTokens[req[r].at] # Null
        BY <2>19, <2>r DEF RevokeAccessToken, RequestHolds, TypeOK, Of
      <3>2. [accessTokens[req[r].at] EXCEPT !.revoked = TRUE] \in AccessTokenRow
        BY <3>1 DEF TypeOK, AccessTokenRow
      <3>3. QED BY <2>19, <2>r, <3>1, <3>2 DEF RevokeAccessToken, Finish, TypeOK
    <2>20. CASE Abort(r) \/ AnswerUnknown(r)
      BY <2>20, <2>r DEF Abort, AnswerUnknown, Finish, TypeOK
    <2>21. ASSUME NEW a \in AccessTokens, MissAccessToken(r, a) PROVE TypeOK'
      <3>1. [Idle EXCEPT !.pc = "at.unknown", !.at = a] \in Request
        BY DEF Idle, Request, Steps, RevokeSteps
      <3>2. QED BY <2>21, <3>1 DEF MissAccessToken, TypeOK
    <2>22. QED
      BY <1>2, <2>1, <2>2, <2>3, <2>4, <2>5, <2>6, <2>7, <2>8, <2>9, <2>10, <2>11, <2>12,
         <2>13, <2>14, <2>15, <2>16, <2>17, <2>18, <2>19, <2>20, <2>21
      DEF Step, Issue, Redeem, Mint, Revoke
  <1>3. QED BY <1>0, <1>1, <1>2 DEF Next

-----------------------------------------------------------------------------
\* Revoking by grant touches the revoked flag of that grant's rows only.
LEMMA RevokeByGrantRows ==
    ASSUME NEW g, TypeOK
    PROVE  /\ \A a \in AccessTokens :
                LET row == RevokeByGrant(accessTokens, g)[a] IN
                /\ accessTokens[a] = Null => row = Null
                /\ accessTokens[a] # Null =>
                     /\ row # Null
                     /\ row.grantId = accessTokens[a].grantId
                     /\ row.clientId = accessTokens[a].clientId
                     /\ row.subject = accessTokens[a].subject
                     /\ row.scope = accessTokens[a].scope
                     /\ row.cnfJkt = accessTokens[a].cnfJkt
                     /\ accessTokens[a].revoked => row.revoked
           /\ \A x \in RefreshTokens :
                LET row == RevokeByGrant(refreshTokens, g)[x] IN
                /\ refreshTokens[x] = Null => row = Null
                /\ refreshTokens[x] # Null =>
                     /\ row # Null
                     /\ row.grantId = refreshTokens[x].grantId
                     /\ row.clientId = refreshTokens[x].clientId
                     /\ row.scope = refreshTokens[x].scope
                     /\ refreshTokens[x].revoked => row.revoked
  <1>1. ASSUME NEW a \in AccessTokens
        PROVE  LET row == RevokeByGrant(accessTokens, g)[a] IN
               /\ accessTokens[a] = Null => row = Null
               /\ accessTokens[a] # Null =>
                    /\ row # Null
                    /\ row.grantId = accessTokens[a].grantId
                    /\ row.clientId = accessTokens[a].clientId
                    /\ row.subject = accessTokens[a].subject
                    /\ row.scope = accessTokens[a].scope
                    /\ row.cnfJkt = accessTokens[a].cnfJkt
                    /\ accessTokens[a].revoked => row.revoked
    <2>1. CASE accessTokens[a] = Null
      BY <2>1 DEF RevokeByGrant, TypeOK
    <2>2. CASE accessTokens[a] # Null
      <3>1. accessTokens[a] \in AccessTokenRow
        BY <2>2 DEF TypeOK
      <3>2. /\ [accessTokens[a] EXCEPT !.revoked = TRUE] \in AccessTokenRow
            /\ LET row == [accessTokens[a] EXCEPT !.revoked = TRUE] IN
               /\ row.grantId = accessTokens[a].grantId
               /\ row.clientId = accessTokens[a].clientId
               /\ row.subject = accessTokens[a].subject
               /\ row.scope = accessTokens[a].scope
               /\ row.cnfJkt = accessTokens[a].cnfJkt
               /\ row.revoked
        BY <3>1 DEF AccessTokenRow
      <3>3. RevokeByGrant(accessTokens, g)[a]
                \in {accessTokens[a], [accessTokens[a] EXCEPT !.revoked = TRUE]}
        BY DEF RevokeByGrant, TypeOK
      <3>4. QED BY <2>2, <3>2, <3>3, NullIsNoRow
    <2>3. QED BY <2>1, <2>2
  <1>2. ASSUME NEW x \in RefreshTokens
        PROVE  LET row == RevokeByGrant(refreshTokens, g)[x] IN
               /\ refreshTokens[x] = Null => row = Null
               /\ refreshTokens[x] # Null =>
                    /\ row # Null
                    /\ row.grantId = refreshTokens[x].grantId
                    /\ row.clientId = refreshTokens[x].clientId
                    /\ row.scope = refreshTokens[x].scope
                    /\ refreshTokens[x].revoked => row.revoked
    <2>1. CASE refreshTokens[x] = Null
      BY <2>1 DEF RevokeByGrant, TypeOK
    <2>2. CASE refreshTokens[x] # Null
      <3>1. refreshTokens[x] \in RefreshTokenRow
        BY <2>2 DEF TypeOK
      <3>2. /\ [refreshTokens[x] EXCEPT !.revoked = TRUE] \in RefreshTokenRow
            /\ LET row == [refreshTokens[x] EXCEPT !.revoked = TRUE] IN
               /\ row.grantId = refreshTokens[x].grantId
               /\ row.clientId = refreshTokens[x].clientId
               /\ row.scope = refreshTokens[x].scope
               /\ row.revoked
        BY <3>1 DEF RefreshTokenRow
      <3>3. RevokeByGrant(refreshTokens, g)[x]
                \in {refreshTokens[x], [refreshTokens[x] EXCEPT !.revoked = TRUE]}
        BY DEF RevokeByGrant, TypeOK
      <3>4. QED BY <2>2, <3>2, <3>3, NullIsNoRow
    <2>3. QED BY <2>1, <2>2
  <1>3. QED BY <1>1, <1>2

-----------------------------------------------------------------------------
\* Every step keeps the rows there are.
LEMMA RowsPersistStep ==
    ASSUME TypeOK, TypeOK', RowsLinked, NEW r \in Requests, RequestHolds(r), Step(r)
    PROVE  RowsPersist
  <1>1. ASSUME NEW g \in Grants, NEW c \in Clients, NEW s \in Subjects,
                 NEW sc \in SUBSET Scopes,
                 InsertGrant(r, g, c, s, sc)
        PROVE  RowsPersist
    <2>1. \A h \in Grants : grants[h] # Null => grants'[h] = grants[h]
      BY <1>1 DEF InsertGrant, TypeOK
    <2>2. QED BY <1>1, <2>1 DEF InsertGrant, RowsPersist
  <1>2. ASSUME NEW u \in RedirectUris, NEW v \in Verifiers, NEW k \in Keys \cup {Null},
                 NEW now \in Captured,
                 InsertCode(r, u, v, k, now)
        PROVE  RowsPersist
    <2>1. codes[req[r].grant] = Null
      BY <1>2 DEF InsertCode, RequestHolds
    <2>2. \A h \in Grants : codes[h] # Null => codes'[h] = codes[h]
      BY <1>2, <2>1 DEF InsertCode, TypeOK
    <2>3. QED BY <1>2, <2>2 DEF InsertCode, RowsPersist
  <1>3. ASSUME NEW g \in Grants, NEW c \in Clients, NEW u \in RedirectUris,
                 NEW v \in Verifiers, NEW k \in Keys, NEW now \in Captured,
                 RedeemOk(r, g, c, u, v, k, now)
        PROVE  RowsPersist
    <2>1. codes[g] \in CodeRow
      BY <1>3 DEF RedeemOk, TypeOK
    <2>2. LET row == [codes[g] EXCEPT !.consumed = TRUE] IN
          /\ row \in CodeRow /\ row.clientId = codes[g].clientId
          /\ row.dpopJkt = codes[g].dpopJkt /\ row.consumed
      BY <2>1 DEF CodeRow
    <2>3. \A h \in Grants : codes'[h] =
              IF h = g THEN [codes[g] EXCEPT !.consumed = TRUE] ELSE codes[h]
      BY <1>3 DEF RedeemOk, TypeOK
    <2>4. QED BY <1>3, <2>2, <2>3, NullIsNoRow DEF RedeemOk, RowsPersist
  <1>4. ASSUME NEW g \in Grants, NEW c \in Clients, NEW u \in RedirectUris,
                 NEW v \in Verifiers, NEW k \in Keys, NEW now \in Captured,
                 RedeemBurned(r, g, c, u, v, k, now)
        PROVE  RowsPersist
    <2>1. codes[g] \in CodeRow
      BY <1>4 DEF RedeemBurned, TypeOK
    <2>2. LET row == [codes[g] EXCEPT !.consumed = TRUE] IN
          /\ row \in CodeRow /\ row.clientId = codes[g].clientId
          /\ row.dpopJkt = codes[g].dpopJkt /\ row.consumed
      BY <2>1 DEF CodeRow
    <2>3. \A h \in Grants : codes'[h] =
              IF h = g THEN [codes[g] EXCEPT !.consumed = TRUE] ELSE codes[h]
      BY <1>4 DEF RedeemBurned, TypeOK
    <2>4. QED BY <1>4, <2>2, <2>3, NullIsNoRow DEF RedeemBurned, RowsPersist
  <1>5. ASSUME NEW g \in Grants, NEW now \in Captured,
                 RedeemMiss(r, g, now)
        PROVE  RowsPersist
    BY <1>5 DEF RedeemMiss, RowsPersist, tables
  <1>6. CASE SelectConsumed(r)
    BY <1>6 DEF SelectConsumed, RowsPersist, tables
  <1>7. CASE RevokeGrant(r)
    <2>1. req[r].grant \in Grants /\ codes[req[r].grant] # Null
      BY <1>7 DEF RevokeGrant, RequestHolds, ReplaySteps
    <2>2. grants[req[r].grant] \in GrantRow
      BY <2>1 DEF RowsLinked, TypeOK
    <2>3. LET row == [grants[req[r].grant] EXCEPT !.revoked = TRUE] IN
          /\ row \in GrantRow /\ row.clientId = grants[req[r].grant].clientId
          /\ row.subject = grants[req[r].grant].subject
          /\ row.scope = grants[req[r].grant].scope /\ row.revoked
      BY <2>2 DEF GrantRow
    <2>4. \A h \in Grants : grants'[h] = IF h = req[r].grant
              THEN [grants[req[r].grant] EXCEPT !.revoked = TRUE] ELSE grants[h]
      BY <1>7 DEF RevokeGrant, TypeOK
    <2>5. QED BY <1>7, <2>3, <2>4, NullIsNoRow DEF RevokeGrant, RowsPersist
  <1>8. CASE RevokeAccessTokensByGrant(r)
    BY <1>8, RevokeByGrantRows DEF RevokeAccessTokensByGrant, RowsPersist
  <1>9. CASE RevokeRefreshTokensByGrant(r)
    BY <1>9, RevokeByGrantRows DEF RevokeRefreshTokensByGrant, RowsPersist
  <1>10. ASSUME NEW x \in RefreshTokens, NEW c \in Clients, NEW k \in Keys,
                 NEW now \in Captured,
                 FindRefreshToken(r, x, c, k, now)
        PROVE  RowsPersist
    BY <1>10 DEF FindRefreshToken, RowsPersist, tables
  <1>11. CASE FindGrantForCode(r)
    BY <1>11 DEF FindGrantForCode, RowsPersist, tables
  <1>12. ASSUME NEW requested \in SUBSET Scopes,
                 FindGrantForRefresh(r, requested)
        PROVE  RowsPersist
    BY <1>12 DEF FindGrantForRefresh, RowsPersist, tables
  <1>13. ASSUME NEW a \in AccessTokens, NEW now \in Captured,
                 InsertAccessToken(r, a, now)
        PROVE  RowsPersist
    <2>1. \A b \in AccessTokens : accessTokens[b] # Null => accessTokens'[b] = accessTokens[b]
      BY <1>13 DEF InsertAccessToken, TypeOK
    <2>2. QED BY <1>13, <2>1 DEF InsertAccessToken, RowsPersist
  <1>14. ASSUME NEW x \in RefreshTokens, NEW now \in Captured,
                 InsertRefreshToken(r, x, now)
        PROVE  RowsPersist
    <2>1. \A y \in RefreshTokens : refreshTokens[y] # Null => refreshTokens'[y] = refreshTokens[y]
      BY <1>14 DEF InsertRefreshToken, TypeOK
    <2>2. QED BY <1>14, <2>1 DEF InsertRefreshToken, RowsPersist
  <1>15. ASSUME NEW x \in RefreshTokens,
                 ResolveRefreshToken(r, x)
        PROVE  RowsPersist
    BY <1>15 DEF ResolveRefreshToken, RowsPersist, tables
  <1>16. ASSUME NEW a \in AccessTokens,
                 ResolveAccessToken(r, a) \/ MissAccessToken(r, a)
        PROVE  RowsPersist
    BY <1>16 DEF ResolveAccessToken, MissAccessToken, RowsPersist, tables
  <1>17. CASE RevokeRefreshToken(r)
    <2>1. req[r].rt \in RefreshTokens /\ refreshTokens[req[r].rt] \in RefreshTokenRow
      BY <1>17 DEF RevokeRefreshToken, RequestHolds, Of, TypeOK
    <2>2. LET row == [refreshTokens[req[r].rt] EXCEPT !.revoked = TRUE] IN
          /\ row \in RefreshTokenRow /\ row.grantId = refreshTokens[req[r].rt].grantId
          /\ row.clientId = refreshTokens[req[r].rt].clientId
          /\ row.scope = refreshTokens[req[r].rt].scope /\ row.revoked
      BY <2>1 DEF RefreshTokenRow
    <2>3. \A y \in RefreshTokens : refreshTokens'[y] = IF y = req[r].rt
              THEN [refreshTokens[req[r].rt] EXCEPT !.revoked = TRUE] ELSE refreshTokens[y]
      BY <1>17 DEF RevokeRefreshToken, TypeOK
    <2>4. QED BY <1>17, <2>2, <2>3, NullIsNoRow DEF RevokeRefreshToken, RowsPersist
  <1>18. CASE CascadeToAccessTokens(r)
    BY <1>18, RevokeByGrantRows DEF CascadeToAccessTokens, RowsPersist
  <1>19. CASE RevokeAccessToken(r)
    <2>1. req[r].at \in AccessTokens /\ accessTokens[req[r].at] \in AccessTokenRow
      BY <1>19 DEF RevokeAccessToken, RequestHolds, Of, TypeOK
    <2>2. LET row == [accessTokens[req[r].at] EXCEPT !.revoked = TRUE] IN
          /\ row \in AccessTokenRow /\ row.grantId = accessTokens[req[r].at].grantId
          /\ row.clientId = accessTokens[req[r].at].clientId
          /\ row.subject = accessTokens[req[r].at].subject
          /\ row.scope = accessTokens[req[r].at].scope
          /\ row.cnfJkt = accessTokens[req[r].at].cnfJkt /\ row.revoked
      BY <2>1 DEF AccessTokenRow
    <2>3. \A b \in AccessTokens : accessTokens'[b] = IF b = req[r].at
              THEN [accessTokens[req[r].at] EXCEPT !.revoked = TRUE] ELSE accessTokens[b]
      BY <1>19 DEF RevokeAccessToken, TypeOK
    <2>4. QED BY <1>19, <2>2, <2>3, NullIsNoRow DEF RevokeAccessToken, RowsPersist
  <1>20. CASE Abort(r) \/ AnswerUnknown(r)
    BY <1>20 DEF Abort, AnswerUnknown, RowsPersist, tables
  <1>21. QED
    BY <1>1, <1>2, <1>3, <1>4, <1>5, <1>6, <1>7, <1>8, <1>9, <1>10, <1>11,
       <1>12, <1>13, <1>14, <1>15, <1>16, <1>17, <1>18, <1>19, <1>20
    DEF Step, Issue, Redeem, Mint, Revoke

-----------------------------------------------------------------------------
\* Where a row that was not there before comes from.
NewRows(r) ==
    /\ \A g \in Grants : codes[g] = Null /\ codes'[g] # Null =>
        /\ req[r].pc = "codes.insert" /\ req[r].grant = g
        /\ codes'[g].clientId = req[r].client
    /\ \A a \in AccessTokens : accessTokens[a] = Null /\ accessTokens'[a] # Null =>
        /\ req[r].pc = "at.insert"
        /\ accessTokens'[a].grantId = req[r].grant
        /\ accessTokens'[a].clientId = req[r].client
        /\ accessTokens'[a].subject = req[r].subject
        /\ accessTokens'[a].scope = req[r].scope
        /\ accessTokens'[a].cnfJkt = req[r].jkt
    /\ \A x \in RefreshTokens : refreshTokens[x] = Null /\ refreshTokens'[x] # Null =>
        /\ req[r].pc = "rt.insert"
        /\ refreshTokens'[x].grantId = req[r].grant
        /\ refreshTokens'[x].clientId = req[r].client
        /\ refreshTokens'[x].scope = req[r].scope
        /\ req'[r] = Idle
        /\ \A y \in RefreshTokens : refreshTokens[y] = Null /\ refreshTokens'[y] # Null => y = x

\* A row that a step inserts comes from the request that takes the step.
LEMMA NewRowsStep ==
    ASSUME TypeOK, NEW r \in Requests, RequestHolds(r), Step(r)
    PROVE  NewRows(r)
  <1>1. ASSUME NEW g \in Grants, NEW c \in Clients, NEW s \in Subjects,
                 NEW sc \in SUBSET Scopes,
                 InsertGrant(r, g, c, s, sc)
        PROVE  NewRows(r)
    BY <1>1, NullIsNoRow DEF InsertGrant, NewRows, tables, replies
  <1>2. ASSUME NEW u \in RedirectUris, NEW v \in Verifiers, NEW k \in Keys \cup {Null},
                 NEW now \in Captured,
                 InsertCode(r, u, v, k, now)
        PROVE  NewRows(r)
    <2>1. \A h \in Grants : h # req[r].grant => codes'[h] = codes[h]
      BY <1>2 DEF InsertCode, TypeOK
    <2>2. codes[req[r].grant] = Null /\ req[r].grant \in Grants
      BY <1>2 DEF InsertCode, RequestHolds
    <2>3. codes'[req[r].grant].clientId = req[r].client
      BY <1>2, <2>2 DEF InsertCode, TypeOK
    <2>4. QED BY <1>2, <2>1, <2>3 DEF InsertCode, NewRows, replies
  <1>3. ASSUME NEW g \in Grants, NEW c \in Clients, NEW u \in RedirectUris,
                 NEW v \in Verifiers, NEW k \in Keys, NEW now \in Captured,
                 RedeemOk(r, g, c, u, v, k, now)
        PROVE  NewRows(r)
    <2>1. \A h \in Grants : codes[h] = Null => codes'[h] = Null
      BY <1>3 DEF RedeemOk, TypeOK
    <2>2. QED BY <1>3, <2>1 DEF RedeemOk, NewRows, replies
  <1>4. ASSUME NEW g \in Grants, NEW c \in Clients, NEW u \in RedirectUris,
                 NEW v \in Verifiers, NEW k \in Keys, NEW now \in Captured,
                 RedeemBurned(r, g, c, u, v, k, now)
        PROVE  NewRows(r)
    <2>1. \A h \in Grants : codes[h] = Null => codes'[h] = Null
      BY <1>4 DEF RedeemBurned, TypeOK
    <2>2. QED BY <1>4, <2>1 DEF RedeemBurned, NewRows, replies
  <1>5. ASSUME NEW g \in Grants, NEW now \in Captured,
                 RedeemMiss(r, g, now)
        PROVE  NewRows(r)
    BY <1>5, NullIsNoRow DEF RedeemMiss, NewRows, tables, replies
  <1>6. CASE SelectConsumed(r)
    BY <1>6, NullIsNoRow DEF SelectConsumed, NewRows, tables, replies
  <1>7. CASE RevokeGrant(r)
    BY <1>7, NullIsNoRow DEF RevokeGrant, NewRows, tables, replies
  <1>8. CASE RevokeAccessTokensByGrant(r)
    BY <1>8, RevokeByGrantRows DEF RevokeAccessTokensByGrant, NewRows, replies
  <1>9. CASE RevokeRefreshTokensByGrant(r)
    BY <1>9, RevokeByGrantRows DEF RevokeRefreshTokensByGrant, NewRows, replies
  <1>10. ASSUME NEW x \in RefreshTokens, NEW c \in Clients, NEW k \in Keys,
                 NEW now \in Captured,
                 FindRefreshToken(r, x, c, k, now)
        PROVE  NewRows(r)
    BY <1>10, NullIsNoRow DEF FindRefreshToken, NewRows, tables, replies
  <1>11. CASE FindGrantForCode(r)
    BY <1>11, NullIsNoRow DEF FindGrantForCode, NewRows, tables, replies
  <1>12. ASSUME NEW requested \in SUBSET Scopes,
                 FindGrantForRefresh(r, requested)
        PROVE  NewRows(r)
    BY <1>12, NullIsNoRow DEF FindGrantForRefresh, NewRows, tables, replies
  <1>13. ASSUME NEW a \in AccessTokens, NEW now \in Captured,
                 InsertAccessToken(r, a, now)
        PROVE  NewRows(r)
    <2>1. \A b \in AccessTokens : b # a => accessTokens'[b] = accessTokens[b]
      BY <1>13 DEF InsertAccessToken, TypeOK
    <2>2. /\ accessTokens'[a].grantId = req[r].grant
          /\ accessTokens'[a].clientId = req[r].client
          /\ accessTokens'[a].subject = req[r].subject
          /\ accessTokens'[a].scope = req[r].scope
          /\ accessTokens'[a].cnfJkt = req[r].jkt
      BY <1>13 DEF InsertAccessToken, TypeOK
    <2>3. QED BY <1>13, <2>1, <2>2 DEF InsertAccessToken, NewRows
  <1>14. ASSUME NEW x \in RefreshTokens, NEW now \in Captured,
                 InsertRefreshToken(r, x, now)
        PROVE  NewRows(r)
    <2>1. \A y \in RefreshTokens : y # x => refreshTokens'[y] = refreshTokens[y]
      BY <1>14 DEF InsertRefreshToken, TypeOK
    <2>2. /\ refreshTokens'[x].grantId = req[r].grant
          /\ refreshTokens'[x].clientId = req[r].client
          /\ refreshTokens'[x].scope = req[r].scope
      BY <1>14 DEF InsertRefreshToken, TypeOK
    <2>3. req'[r] = Idle
      BY <1>14 DEF InsertRefreshToken, Finish, TypeOK
    <2>4. QED BY <1>14, <2>1, <2>2, <2>3 DEF InsertRefreshToken, NewRows
  <1>15. ASSUME NEW x \in RefreshTokens,
                 ResolveRefreshToken(r, x)
        PROVE  NewRows(r)
    BY <1>15, NullIsNoRow DEF ResolveRefreshToken, NewRows, tables, replies
  <1>16. ASSUME NEW a \in AccessTokens,
                 ResolveAccessToken(r, a) \/ MissAccessToken(r, a)
        PROVE  NewRows(r)
    BY <1>16, NullIsNoRow DEF ResolveAccessToken, MissAccessToken, NewRows, tables, replies
  <1>17. CASE RevokeRefreshToken(r)
    <2>1. \A y \in RefreshTokens : refreshTokens[y] = Null => refreshTokens'[y] = Null
      <3>1. req[r].rt \in RefreshTokens /\ refreshTokens[req[r].rt] # Null
        BY <1>17 DEF RevokeRefreshToken, RequestHolds, Of, TypeOK
      <3>2. QED BY <1>17, <3>1 DEF RevokeRefreshToken, TypeOK
    <2>2. QED BY <1>17, <2>1 DEF RevokeRefreshToken, NewRows, replies
  <1>18. CASE CascadeToAccessTokens(r)
    BY <1>18, RevokeByGrantRows DEF CascadeToAccessTokens, NewRows, replies
  <1>19. CASE RevokeAccessToken(r)
    <2>1. \A b \in AccessTokens : accessTokens[b] = Null => accessTokens'[b] = Null
      <3>1. req[r].at \in AccessTokens /\ accessTokens[req[r].at] # Null
        BY <1>19 DEF RevokeAccessToken, RequestHolds, Of, TypeOK
      <3>2. QED BY <1>19, <3>1 DEF RevokeAccessToken, TypeOK
    <2>2. QED BY <1>19, <2>1 DEF RevokeAccessToken, NewRows
  <1>20. CASE Abort(r) \/ AnswerUnknown(r)
    BY <1>20, NullIsNoRow DEF Abort, AnswerUnknown, NewRows, tables, replies
  <1>21. QED
    BY <1>1, <1>2, <1>3, <1>4, <1>5, <1>6, <1>7, <1>8, <1>9, <1>10, <1>11,
       <1>12, <1>13, <1>14, <1>15, <1>16, <1>17, <1>18, <1>19, <1>20
    DEF Step, Issue, Redeem, Mint, Revoke

-----------------------------------------------------------------------------
\* A step moves one request only; a request that starts an issuance uses a
\* fresh grant, and one that starts an exchange found its code unspent.
NewPosition(r) ==
    /\ \A q \in Requests : q # r => req'[q] = req[q]
    /\ req'[r].pc = "codes.insert" => grants[req'[r].grant] = Null
    /\ req'[r].pc \in MintSteps /\ req'[r].rt = Null =>
        \/ req[r].pc \in MintSteps /\ req[r].rt = Null /\ req[r].grant = req'[r].grant
        \/ codes[req'[r].grant] # Null /\ ~codes[req'[r].grant].consumed

\* A request that enters a minting step passed its credential check there.
LEMMA NewPositionStep ==
    ASSUME TypeOK, NEW r \in Requests, Step(r)
    PROVE  NewPosition(r)
  <1>1. ASSUME NEW g \in Grants, NEW c \in Clients, NEW s \in Subjects,
                 NEW sc \in SUBSET Scopes,
                 InsertGrant(r, g, c, s, sc)
        PROVE  NewPosition(r)
    BY <1>1 DEF InsertGrant, NewPosition, Finish, Goto, TypeOK, Idle, MintSteps
  <1>2. ASSUME NEW u \in RedirectUris, NEW v \in Verifiers, NEW k \in Keys \cup {Null},
                 NEW now \in Captured,
                 InsertCode(r, u, v, k, now)
        PROVE  NewPosition(r)
    BY <1>2 DEF InsertCode, NewPosition, Finish, Goto, TypeOK, Idle, MintSteps
  <1>3. ASSUME NEW g \in Grants, NEW c \in Clients, NEW u \in RedirectUris,
                 NEW v \in Verifiers, NEW k \in Keys, NEW now \in Captured,
                 RedeemOk(r, g, c, u, v, k, now)
        PROVE  NewPosition(r)
    <2>1. req'[r] = [Idle EXCEPT !.pc = "grants.find", !.grant = g, !.client = c, !.jkt = k]
      BY <1>3 DEF RedeemOk, TypeOK
    <2>2. req'[r].pc = "grants.find" /\ req'[r].grant = g
      BY <2>1 DEF Idle
    <2>3. QED BY <1>3, <2>2 DEF RedeemOk, NewPosition, Redeemable, TypeOK
  <1>4. ASSUME NEW g \in Grants, NEW c \in Clients, NEW u \in RedirectUris,
                 NEW v \in Verifiers, NEW k \in Keys, NEW now \in Captured,
                 RedeemBurned(r, g, c, u, v, k, now)
        PROVE  NewPosition(r)
    BY <1>4 DEF RedeemBurned, NewPosition, Finish, Goto, TypeOK, Idle, MintSteps
  <1>5. ASSUME NEW g \in Grants, NEW now \in Captured,
                 RedeemMiss(r, g, now)
        PROVE  NewPosition(r)
    BY <1>5 DEF RedeemMiss, NewPosition, Finish, Goto, TypeOK, Idle, MintSteps
  <1>6. CASE SelectConsumed(r)
    <2>1. req'[r] \in {Idle, [req[r] EXCEPT !.pc = "grants.revoke"]}
      BY <1>6 DEF SelectConsumed, Finish, Goto, TypeOK
    <2>2. req'[r].pc \in {"idle", "grants.revoke"}
      BY <2>1 DEF Idle, TypeOK, Request
    <2>3. QED BY <1>6, <2>2 DEF SelectConsumed, NewPosition, Finish, Goto, TypeOK, MintSteps
  <1>7. CASE RevokeGrant(r)
    BY <1>7 DEF RevokeGrant, NewPosition, Finish, Goto, TypeOK, Idle, MintSteps
  <1>8. CASE RevokeAccessTokensByGrant(r)
    BY <1>8 DEF RevokeAccessTokensByGrant, NewPosition, Finish, Goto, TypeOK, Idle, MintSteps
  <1>9. CASE RevokeRefreshTokensByGrant(r)
    BY <1>9 DEF RevokeRefreshTokensByGrant, NewPosition, Finish, Goto, TypeOK, Idle, MintSteps
  <1>10. ASSUME NEW x \in RefreshTokens, NEW c \in Clients, NEW k \in Keys,
                 NEW now \in Captured,
                 FindRefreshToken(r, x, c, k, now)
        PROVE  NewPosition(r)
    <2>1. req'[r] = [Idle EXCEPT !.pc = "grants.find", !.grant = refreshTokens[x].grantId,
                                 !.client = c, !.jkt = k, !.rt = x]
      BY <1>10 DEF FindRefreshToken, TypeOK
    <2>2. req'[r].pc = "grants.find" /\ req'[r].rt # Null
      BY <2>1, ConstantsOK DEF Idle
    <2>3. QED BY <1>10, <2>2 DEF FindRefreshToken, NewPosition, TypeOK
  <1>11. CASE FindGrantForCode(r)
    <2>1. req[r] \in Request /\ req[r].pc \in MintSteps /\ req[r].rt = Null
      BY <1>11 DEF FindGrantForCode, TypeOK, MintSteps
    <2>2. req'[r] \in {Idle, [req[r] EXCEPT !.pc = "at.insert",
                  !.subject = grants[req[r].grant].subject,
                  !.scope = grants[req[r].grant].scope]}
      BY <1>11 DEF FindGrantForCode, Finish, TypeOK
    <2>3. LET n == [req[r] EXCEPT !.pc = "at.insert",
                      !.subject = grants[req[r].grant].subject,
                      !.scope = grants[req[r].grant].scope]
          IN  n.pc = "at.insert" /\ n.grant = req[r].grant
      BY <2>1 DEF Request
    <2>4. Idle.pc = "idle"
      BY DEF Idle
    <2>5. QED BY <1>11, <2>1, <2>2, <2>3, <2>4 DEF FindGrantForCode, NewPosition, Finish, TypeOK, MintSteps
  <1>12. ASSUME NEW requested \in SUBSET Scopes,
                 FindGrantForRefresh(r, requested)
        PROVE  NewPosition(r)
    <2>1. req[r] \in Request /\ req[r].rt # Null
      BY <1>12 DEF FindGrantForRefresh, TypeOK
    <2>2. req'[r] \in {Idle, [req[r] EXCEPT !.pc = "at.insert",
                  !.subject = grants[req[r].grant].subject,
                  !.scope = RequestedScope(requested, refreshTokens[req[r].rt].scope)]}
      BY <1>12 DEF FindGrantForRefresh, Finish, TypeOK
    <2>3. LET n == [req[r] EXCEPT !.pc = "at.insert",
                      !.subject = grants[req[r].grant].subject,
                      !.scope = RequestedScope(requested, refreshTokens[req[r].rt].scope)]
          IN  n.pc = "at.insert" /\ n.rt = req[r].rt
      BY <2>1 DEF Request
    <2>4. Idle.pc = "idle"
      BY DEF Idle
    <2>5. QED BY <1>12, <2>1, <2>2, <2>3, <2>4 DEF FindGrantForRefresh, NewPosition, Finish, TypeOK, MintSteps
  <1>13. ASSUME NEW a \in AccessTokens, NEW now \in Captured,
                 InsertAccessToken(r, a, now)
        PROVE  NewPosition(r)
    <2>1. req[r] \in Request /\ req[r].pc \in MintSteps
      BY <1>13 DEF InsertAccessToken, TypeOK, MintSteps
    <2>2. req'[r] \in {Idle, [req[r] EXCEPT !.pc = "rt.insert", !.at = a]}
      BY <1>13 DEF InsertAccessToken, Finish, TypeOK
    <2>3. LET n == [req[r] EXCEPT !.pc = "rt.insert", !.at = a]
          IN  n.pc = "rt.insert" /\ n.rt = req[r].rt /\ n.grant = req[r].grant
      BY <2>1 DEF Request
    <2>4. Idle.pc = "idle"
      BY DEF Idle
    <2>5. QED BY <1>13, <2>1, <2>2, <2>3, <2>4 DEF InsertAccessToken, NewPosition, Finish, TypeOK, MintSteps
  <1>14. ASSUME NEW x \in RefreshTokens, NEW now \in Captured,
                 InsertRefreshToken(r, x, now)
        PROVE  NewPosition(r)
    BY <1>14 DEF InsertRefreshToken, NewPosition, Finish, Goto, TypeOK, Idle, MintSteps
  <1>15. ASSUME NEW x \in RefreshTokens,
                 ResolveRefreshToken(r, x)
        PROVE  NewPosition(r)
    BY <1>15 DEF ResolveRefreshToken, NewPosition, Finish, Goto, TypeOK, Idle, MintSteps
  <1>16. ASSUME NEW a \in AccessTokens,
                 ResolveAccessToken(r, a) \/ MissAccessToken(r, a)
        PROVE  NewPosition(r)
    <2>1. CASE ResolveAccessToken(r, a)
      BY <2>1 DEF ResolveAccessToken, NewPosition, TypeOK, Idle, MintSteps
    <2>2. CASE MissAccessToken(r, a)
      BY <2>2 DEF MissAccessToken, NewPosition, TypeOK, Idle, MintSteps
    <2>3. QED BY <1>16, <2>1, <2>2
  <1>17. CASE RevokeRefreshToken(r)
    BY <1>17 DEF RevokeRefreshToken, NewPosition, Finish, Goto, TypeOK, Idle, MintSteps
  <1>18. CASE CascadeToAccessTokens(r)
    BY <1>18 DEF CascadeToAccessTokens, NewPosition, Finish, Goto, TypeOK, Idle, MintSteps
  <1>19. CASE RevokeAccessToken(r)
    BY <1>19 DEF RevokeAccessToken, NewPosition, Finish, Goto, TypeOK, Idle, MintSteps
  <1>20. CASE Abort(r) \/ AnswerUnknown(r)
    BY <1>20 DEF Abort, AnswerUnknown, NewPosition, Finish, Goto, TypeOK, Idle, MintSteps
  <1>21. QED
    BY <1>1, <1>2, <1>3, <1>4, <1>5, <1>6, <1>7, <1>8, <1>9, <1>10, <1>11,
       <1>12, <1>13, <1>14, <1>15, <1>16, <1>17, <1>18, <1>19, <1>20
    DEF Step, Issue, Redeem, Mint, Revoke

-----------------------------------------------------------------------------
\* A request that does not move still holds what it held: no other request
\* takes back the rows it relies on, and its new grant stays its own.
LEMMA OtherRequestsStep ==
    ASSUME TypeOK, TypeOK', RowsLinked, NEW r \in Requests, NEW q \in Requests, q # r,
           RequestHolds(q), RowsPersist, NewRows(r), NewPosition(r)
    PROVE  RequestHolds(q)'
  <1>1. req'[q] = req[q]
    BY DEF NewPosition
  <1>2. ASSUME req[q].pc = "codes.insert"
        PROVE  LET g == req[q].grant IN
               /\ g \in Grants /\ grants'[g] # Null /\ codes'[g] = Null
               /\ req[q].client = grants'[g].clientId
               /\ \A p \in Requests : req'[p].pc = "codes.insert" /\ req'[p].grant = g => p = q
    <2> DEFINE g == req[q].grant
    <2>1. /\ g \in Grants /\ grants[g] # Null /\ codes[g] = Null
          /\ req[q].client = grants[g].clientId
          /\ \A p \in Requests : req[p].pc = "codes.insert" /\ req[p].grant = g => p = q
      BY <1>2 DEF RequestHolds
    <2>2. codes'[g] = Null
      BY <2>1 DEF NewRows
    <2>3. grants'[g] # Null /\ grants'[g].clientId = grants[g].clientId
      BY <2>1 DEF RowsPersist
    <2>4. \A p \in Requests : req'[p].pc = "codes.insert" /\ req'[p].grant = g => p = q
      BY <2>1 DEF NewPosition
    <2>5. QED BY <2>1, <2>2, <2>3, <2>4
  <1>3. ASSUME req[q].pc \in ReplaySteps
        PROVE  LET g == req[q].grant IN
               /\ g \in Grants /\ codes'[g] # Null
               /\ req[q].pc # "codes.select" => codes'[g].consumed
               /\ req[q].pc \in {"at.revokeByGrant", "rt.revokeByGrant"} => grants'[g].revoked
    BY <1>3 DEF RequestHolds, RowsPersist, RowsLinked
  <1>4. ASSUME req[q].pc \in MintSteps
        PROVE  LET g == req[q].grant IN
               /\ g \in Grants /\ codes'[g] # Null /\ codes'[g].consumed
               /\ codes'[g].dpopJkt = codes[g].dpopJkt
               /\ grants'[g].clientId = grants[g].clientId
               /\ grants'[g].subject = grants[g].subject
               /\ grants'[g].scope = grants[g].scope
    BY <1>4 DEF RequestHolds, RowsPersist, RowsLinked
  <1>5. \A g \in Grants : /\ Of(refreshTokens, g) \subseteq Of(refreshTokens', g)
                          /\ Of(accessTokens, g) \subseteq Of(accessTokens', g)
    BY DEF Of, RowsPersist, TypeOK
  <1>6. ASSUME req[q].pc \in {"rt.revoke", "at.cascade", "at.revoke"}
        PROVE  /\ req[q].pc \in {"rt.revoke", "at.cascade"} =>
                    req[q].rt \in Of(refreshTokens', req[q].grant)
               /\ req[q].pc = "at.cascade" => refreshTokens'[req[q].rt].revoked
               /\ req[q].pc = "at.revoke" => req[q].at \in Of(accessTokens', req[q].grant)
    BY <1>6 DEF RequestHolds, RowsPersist, Of, TypeOK
  <1>7. ASSUME req[q].pc \in MintSteps
        PROVE  LET g == req[q].grant IN
               /\ g \in Grants /\ codes'[g] # Null /\ codes'[g].consumed
               /\ req[q].client = grants'[g].clientId
               /\ req[q].jkt \in Keys
               /\ req[q].rt = Null => codes'[g].dpopJkt \in {Null, req[q].jkt}
               /\ req[q].rt # Null => req[q].rt \in Of(refreshTokens', g)
               /\ req[q].pc # "grants.find" =>
                    /\ req[q].subject = grants'[g].subject
                    /\ req[q].scope \subseteq grants'[g].scope
                    /\ req[q].rt = Null => req[q].scope = grants'[g].scope
               /\ req[q].pc = "rt.insert" =>
                    /\ req[q].client \in RefreshClients
                    /\ req[q].rt = Null
                    /\ req[q].at \in Of(accessTokens', g)
    <2> DEFINE g == req[q].grant
    <2>1. /\ req[q].client = grants[g].clientId
          /\ req[q].jkt \in Keys
          /\ req[q].rt = Null => codes[g].dpopJkt \in {Null, req[q].jkt}
          /\ req[q].rt # Null => req[q].rt \in Of(refreshTokens, g)
          /\ req[q].pc # "grants.find" =>
               /\ req[q].subject = grants[g].subject
               /\ req[q].scope \subseteq grants[g].scope
               /\ req[q].rt = Null => req[q].scope = grants[g].scope
          /\ req[q].pc = "rt.insert" =>
               /\ req[q].client \in RefreshClients
               /\ req[q].rt = Null
               /\ req[q].at \in Of(accessTokens, g)
      BY <1>7 DEF RequestHolds
    <2>2. /\ g \in Grants /\ codes'[g] # Null /\ codes'[g].consumed
          /\ codes'[g].dpopJkt = codes[g].dpopJkt
          /\ grants'[g].clientId = grants[g].clientId
          /\ grants'[g].subject = grants[g].subject
          /\ grants'[g].scope = grants[g].scope
      BY <1>4, <1>7
    <2>3. /\ req[q].rt # Null => req[q].rt \in Of(refreshTokens', g)
          /\ req[q].pc = "rt.insert" => req[q].at \in Of(accessTokens', g)
      BY <1>5, <2>1, <2>2
    <2>4. QED BY <2>1, <2>2, <2>3
  <1>8. QED BY <1>1, <1>2, <1>3, <1>6, <1>7 DEF RequestHolds

\* The request that moves holds, at its next storage call, what it just read.
LEMMA OwnRequestStep ==
    ASSUME TypeOK, TypeOK', RowsLinked, TokensMatchGrant, NEW r \in Requests,
           \A q \in Requests : RequestHolds(q), RowsPersist, NewPosition(r), Step(r)
    PROVE  RequestHolds(r)'
  <1>1. ASSUME NEW g \in Grants, NEW c \in Clients, NEW s \in Subjects,
                 NEW sc \in SUBSET Scopes,
                 InsertGrant(r, g, c, s, sc)
        PROVE  RequestHolds(r)'
    <2>1. req'[r] = [Idle EXCEPT !.pc = "codes.insert", !.grant = g, !.client = c]
      BY <1>1 DEF InsertGrant, TypeOK
    <2>2. req'[r].pc = "codes.insert" /\ req'[r].grant = g /\ req'[r].client = c
      BY <2>1 DEF Idle
    <2>3. grants'[g] # Null /\ grants'[g].clientId = c
      <3>1. grants'[g] = [clientId |-> c, subject |-> s, scope |-> sc, revoked |-> FALSE]
        BY <1>1 DEF InsertGrant, TypeOK
      <3>2. grants'[g] \in GrantRow
        BY <3>1 DEF GrantRow
      <3>3. grants'[g] # Null
        BY <3>2, NullIsNoRow
      <3>4. grants'[g].clientId = c
        BY <3>1
      <3>5. QED BY <3>3, <3>4
    <2>4. grants[g] = Null /\ codes'[g] = Null
      BY <1>1 DEF InsertGrant, RowsLinked
    <2>5. ASSUME NEW q \in Requests, req'[q].pc = "codes.insert", req'[q].grant = g
          PROVE  q = r
      <3>1. CASE q # r
        <4>1. req[q].pc = "codes.insert" /\ req[q].grant = g
          BY <2>5, <3>1 DEF NewPosition
        <4>2. grants[g] # Null
          BY <4>1 DEF RequestHolds
        <4>3. QED BY <4>2, <2>4
      <3>2. QED BY <3>1
    <2>6. QED BY <2>2, <2>3, <2>4, <2>5 DEF RequestHolds, ReplaySteps, MintSteps
  <1>2. ASSUME NEW u \in RedirectUris, NEW v \in Verifiers, NEW k \in Keys \cup {Null},
                 NEW now \in Captured,
                 InsertCode(r, u, v, k, now)
        PROVE  RequestHolds(r)'
    <2>1. req'[r].pc = "idle"
      BY <1>2 DEF InsertCode, Finish, TypeOK, Idle
    <2>2. QED BY <2>1 DEF RequestHolds, ReplaySteps, MintSteps
  <1>3. ASSUME NEW g \in Grants, NEW c \in Clients, NEW u \in RedirectUris,
                 NEW v \in Verifiers, NEW k \in Keys, NEW now \in Captured,
                 RedeemOk(r, g, c, u, v, k, now)
        PROVE  RequestHolds(r)'
    <2>1. req'[r] = [Idle EXCEPT !.pc = "grants.find", !.grant = g, !.client = c, !.jkt = k]
      BY <1>3 DEF RedeemOk, TypeOK
    <2>2. /\ req'[r].pc = "grants.find" /\ req'[r].grant = g /\ req'[r].client = c
          /\ req'[r].jkt = k /\ req'[r].rt = Null
      BY <2>1 DEF Idle
    <2>3. /\ codes[g] \in CodeRow /\ grants[g] # Null
          /\ codes[g].clientId = c /\ codes[g].clientId = grants[g].clientId
          /\ codes[g].dpopJkt \in {Null, k}
      BY <1>3 DEF RedeemOk, Matches, RowsLinked, TypeOK
    <2>4. codes'[g].consumed
      BY <1>3, <2>3 DEF RedeemOk, TypeOK, CodeRow
    <2>5. QED BY <1>3, <2>2, <2>3, <2>4, NullIsNoRow
              DEF RequestHolds, ReplaySteps, MintSteps, RowsPersist
  <1>4. ASSUME NEW g \in Grants, NEW c \in Clients, NEW u \in RedirectUris,
                 NEW v \in Verifiers, NEW k \in Keys, NEW now \in Captured,
                 RedeemBurned(r, g, c, u, v, k, now)
        PROVE  RequestHolds(r)'
    <2>1. req'[r].pc = "idle"
      BY <1>4 DEF RedeemBurned, Idle
    <2>2. QED BY <2>1 DEF RequestHolds, ReplaySteps, MintSteps
  <1>5. ASSUME NEW g \in Grants, NEW now \in Captured,
                 RedeemMiss(r, g, now)
        PROVE  RequestHolds(r)'
    <2>1. req'[r] = [Idle EXCEPT !.pc = "codes.select", !.grant = g]
      BY <1>5 DEF RedeemMiss, TypeOK
    <2>2. req'[r].pc = "codes.select" /\ req'[r].grant = g
      BY <2>1 DEF Idle
    <2>3. codes'[g] # Null
      BY <1>5 DEF RedeemMiss, tables
    <2>4. QED BY <1>5, <2>2, <2>3 DEF RequestHolds, ReplaySteps, MintSteps
  <1>6. CASE SelectConsumed(r)
    <2>1. req[r] \in Request /\ req[r].grant \in Grants /\ codes[req[r].grant] # Null
      BY <1>6 DEF SelectConsumed, TypeOK, RequestHolds, ReplaySteps
    <2>2. CASE codes[req[r].grant].consumed
      <3>1. req'[r] = [req[r] EXCEPT !.pc = "grants.revoke"]
        BY <1>6, <2>2 DEF SelectConsumed, Goto, TypeOK
      <3>2. req'[r].pc = "grants.revoke" /\ req'[r].grant = req[r].grant
        BY <3>1, <2>1 DEF Request
      <3>3. QED BY <1>6, <2>1, <2>2, <3>2 DEF SelectConsumed, tables, RequestHolds, ReplaySteps, MintSteps
    <2>3. CASE ~codes[req[r].grant].consumed
      <3>1. req'[r].pc = "idle"
        BY <1>6, <2>3 DEF SelectConsumed, Finish, TypeOK, Idle
      <3>2. QED BY <3>1 DEF RequestHolds, ReplaySteps, MintSteps
    <2>4. QED BY <2>2, <2>3
  <1>7. CASE RevokeGrant(r)
    <2>1. /\ req[r] \in Request /\ req[r].grant \in Grants
          /\ codes[req[r].grant] # Null /\ codes[req[r].grant].consumed
      BY <1>7 DEF RevokeGrant, TypeOK, RequestHolds, ReplaySteps
    <2>2. req'[r] = [req[r] EXCEPT !.pc = "at.revokeByGrant"]
      BY <1>7 DEF RevokeGrant, Goto, TypeOK
    <2>3. req'[r].pc = "at.revokeByGrant" /\ req'[r].grant = req[r].grant
      BY <2>2, <2>1 DEF Request
    <2>4. grants[req[r].grant] \in GrantRow
      BY <2>1 DEF RowsLinked, TypeOK
    <2>5. grants'[req[r].grant].revoked
      BY <1>7, <2>1, <2>4 DEF RevokeGrant, TypeOK, GrantRow
    <2>6. QED BY <1>7, <2>1, <2>3, <2>5 DEF RevokeGrant, RequestHolds, ReplaySteps, MintSteps
  <1>8. CASE RevokeAccessTokensByGrant(r)
    <2>1. /\ req[r] \in Request /\ req[r].grant \in Grants
          /\ codes[req[r].grant] # Null /\ codes[req[r].grant].consumed
          /\ grants[req[r].grant].revoked
      BY <1>8 DEF RevokeAccessTokensByGrant, TypeOK, RequestHolds, ReplaySteps
    <2>2. req'[r] = [req[r] EXCEPT !.pc = "rt.revokeByGrant"]
      BY <1>8 DEF RevokeAccessTokensByGrant, Goto, TypeOK
    <2>3. req'[r].pc = "rt.revokeByGrant" /\ req'[r].grant = req[r].grant
      BY <2>2, <2>1 DEF Request
    <2>4. QED BY <1>8, <2>1, <2>3 DEF RevokeAccessTokensByGrant, RequestHolds, ReplaySteps, MintSteps
  <1>9. CASE RevokeRefreshTokensByGrant(r)
    <2>1. req'[r].pc = "idle"
      BY <1>9 DEF RevokeRefreshTokensByGrant, Finish, TypeOK, Idle
    <2>2. QED BY <2>1 DEF RequestHolds, ReplaySteps, MintSteps
  <1>10. ASSUME NEW x \in RefreshTokens, NEW c \in Clients, NEW k \in Keys,
                 NEW now \in Captured,
                 FindRefreshToken(r, x, c, k, now)
        PROVE  RequestHolds(r)'
    <2>1. req'[r] = [Idle EXCEPT !.pc = "grants.find", !.grant = refreshTokens[x].grantId,
                                 !.client = c, !.jkt = k, !.rt = x]
      BY <1>10 DEF FindRefreshToken, TypeOK
    <2>2. /\ req'[r].pc = "grants.find" /\ req'[r].grant = refreshTokens[x].grantId
          /\ req'[r].client = c /\ req'[r].jkt = k /\ req'[r].rt = x /\ x # Null
      BY <2>1, ConstantsOK DEF Idle
    <2>3. /\ refreshTokens[x] # Null /\ refreshTokens[x].clientId = c
          /\ codes[refreshTokens[x].grantId] # Null /\ codes[refreshTokens[x].grantId].consumed
          /\ refreshTokens[x].clientId = grants[refreshTokens[x].grantId].clientId
      BY <1>10 DEF FindRefreshToken, Refreshable, RowsLinked, TokensMatchGrant
    <2>4. refreshTokens[x].grantId \in Grants
      BY <2>3 DEF TypeOK, RefreshTokenRow
    <2>5. x \in Of(refreshTokens, refreshTokens[x].grantId)
      BY <2>3 DEF Of, TypeOK
    <2>6. UNCHANGED <<grants, codes, refreshTokens>>
      BY <1>10 DEF FindRefreshToken, tables
    <2>7. QED BY <2>2, <2>3, <2>4, <2>5, <2>6 DEF RequestHolds, ReplaySteps, MintSteps
  <1>11. CASE FindGrantForCode(r)
    <2>1. /\ req[r] \in Request /\ req[r].pc = "grants.find"
          /\ req[r].grant \in Grants /\ codes[req[r].grant] # Null
          /\ codes[req[r].grant].consumed
          /\ req[r].client = grants[req[r].grant].clientId /\ req[r].jkt \in Keys
          /\ req[r].rt = Null => codes[req[r].grant].dpopJkt \in {Null, req[r].jkt}
          /\ req[r].rt # Null => req[r].rt \in Of(refreshTokens, req[r].grant)
      BY <1>11 DEF FindGrantForCode, TypeOK, RequestHolds, MintSteps
    <2>2. UNCHANGED <<grants, codes, refreshTokens>>
      BY <1>11 DEF FindGrantForCode, tables
    <2>3. CASE req'[r] = Idle
      <3>1. req'[r].pc = "idle"
        BY <2>3 DEF Idle
      <3>2. QED BY <3>1 DEF RequestHolds, ReplaySteps, MintSteps
    <2>4. CASE req'[r] = [req[r] EXCEPT !.pc = "at.insert",
                  !.subject = grants[req[r].grant].subject,
                  !.scope = grants[req[r].grant].scope]
      <3>1. /\ req'[r].pc = "at.insert" /\ req'[r].grant = req[r].grant
            /\ req'[r].client = req[r].client /\ req'[r].jkt = req[r].jkt
            /\ req'[r].rt = req[r].rt /\ req'[r].subject = grants[req[r].grant].subject
            /\ req'[r].scope = grants[req[r].grant].scope
        BY <2>1, <2>4 DEF Request
      <3>2. QED BY <2>1, <2>2, <3>1 DEF RequestHolds, ReplaySteps, MintSteps
    <2>5. QED BY <1>11, <2>3, <2>4 DEF FindGrantForCode, Finish, TypeOK
  <1>12. ASSUME NEW requested \in SUBSET Scopes,
                 FindGrantForRefresh(r, requested)
        PROVE  RequestHolds(r)'
    <2>1. /\ req[r] \in Request /\ req[r].pc = "grants.find"
          /\ req[r].grant \in Grants /\ codes[req[r].grant] # Null
          /\ codes[req[r].grant].consumed
          /\ req[r].client = grants[req[r].grant].clientId /\ req[r].jkt \in Keys
          /\ req[r].rt = Null => codes[req[r].grant].dpopJkt \in {Null, req[r].jkt}
          /\ req[r].rt # Null => req[r].rt \in Of(refreshTokens, req[r].grant)
      BY <1>12 DEF FindGrantForRefresh, TypeOK, RequestHolds, MintSteps
    <2>2. UNCHANGED <<grants, codes, refreshTokens>>
      BY <1>12 DEF FindGrantForRefresh, tables
    <2>3. CASE req'[r] = Idle
      <3>1. req'[r].pc = "idle"
        BY <2>3 DEF Idle
      <3>2. QED BY <3>1 DEF RequestHolds, ReplaySteps, MintSteps
    <2>4. CASE req'[r] = [req[r] EXCEPT !.pc = "at.insert",
                  !.subject = grants[req[r].grant].subject,
                  !.scope = RequestedScope(requested, refreshTokens[req[r].rt].scope)]
      <3>1. /\ req'[r].pc = "at.insert" /\ req'[r].grant = req[r].grant
            /\ req'[r].client = req[r].client /\ req'[r].jkt = req[r].jkt
            /\ req'[r].rt = req[r].rt /\ req'[r].subject = grants[req[r].grant].subject
            /\ req'[r].scope = RequestedScope(requested, refreshTokens[req[r].rt].scope)
        BY <2>1, <2>4 DEF Request
      <3>2. req[r].rt # Null /\ req[r].rt \in RefreshTokens
        BY <1>12, <2>1 DEF FindGrantForRefresh, Of, TypeOK
      <3>3. refreshTokens[req[r].rt].scope = grants[req[r].grant].scope
        BY <2>1, <3>2 DEF Of, TokensMatchGrant
      <3>4. CASE requested \subseteq refreshTokens[req[r].rt].scope
        <4>1. req'[r].scope \subseteq grants[req[r].grant].scope
          BY <3>1, <3>3, <3>4 DEF RequestedScope
        <4>2. QED BY <2>1, <2>2, <3>1, <3>2, <4>1 DEF RequestHolds, ReplaySteps, MintSteps
      <3>5. CASE ~(requested \subseteq refreshTokens[req[r].rt].scope)
        <4>1. req'[r].pc = "idle"
          BY <1>12, <3>5 DEF FindGrantForRefresh, Finish, TypeOK, Idle
        <4>2. QED BY <3>1, <4>1
      <3>6. QED BY <3>4, <3>5
    <2>5. QED BY <1>12, <2>3, <2>4 DEF FindGrantForRefresh, Finish, TypeOK
  <1>13. ASSUME NEW a \in AccessTokens, NEW now \in Captured,
                 InsertAccessToken(r, a, now)
        PROVE  RequestHolds(r)'
    <2>1. /\ req[r] \in Request /\ req[r].pc = "at.insert"
          /\ req[r].grant \in Grants /\ codes[req[r].grant] # Null
          /\ codes[req[r].grant].consumed
          /\ req[r].client = grants[req[r].grant].clientId /\ req[r].jkt \in Keys
          /\ req[r].rt = Null => codes[req[r].grant].dpopJkt \in {Null, req[r].jkt}
          /\ req[r].rt # Null => req[r].rt \in Of(refreshTokens, req[r].grant)
          /\ req[r].subject = grants[req[r].grant].subject
          /\ req[r].scope \subseteq grants[req[r].grant].scope
          /\ req[r].rt = Null => req[r].scope = grants[req[r].grant].scope
      BY <1>13 DEF InsertAccessToken, TypeOK, RequestHolds, MintSteps
    <2>2. UNCHANGED <<grants, codes, refreshTokens>>
      BY <1>13 DEF InsertAccessToken
    <2>3. CASE ~WithRefreshToken(r)
      <3>1. req'[r].pc = "idle"
        BY <1>13, <2>3 DEF InsertAccessToken, Finish, TypeOK, Idle
      <3>2. QED BY <3>1 DEF RequestHolds, ReplaySteps, MintSteps
    <2>4. CASE WithRefreshToken(r)
      <3>1. req'[r] = [req[r] EXCEPT !.pc = "rt.insert", !.at = a]
        BY <1>13, <2>4 DEF InsertAccessToken, TypeOK
      <3>2. /\ req'[r].pc = "rt.insert" /\ req'[r].grant = req[r].grant
            /\ req'[r].client = req[r].client /\ req'[r].jkt = req[r].jkt
            /\ req'[r].rt = req[r].rt /\ req'[r].subject = req[r].subject
            /\ req'[r].scope = req[r].scope /\ req'[r].at = a
        BY <2>1, <3>1 DEF Request
      <3>3. req[r].rt = Null /\ req[r].client \in RefreshClients
        BY <2>4 DEF WithRefreshToken
      <3>4. accessTokens'[a].grantId = req[r].grant /\ accessTokens'[a] # Null
        <4>1. accessTokens'[a] = [grantId |-> req[r].grant, clientId |-> req[r].client,
                subject |-> req[r].subject, scope |-> req[r].scope, cnfJkt |-> req[r].jkt,
                expiresAt |-> now + AccessTokenTtl, revoked |-> FALSE]
          BY <1>13 DEF InsertAccessToken, TypeOK
        <4>2. req[r].client \in Clients /\ req[r].subject \in Subjects /\ req[r].scope \in SUBSET Scopes
          BY <2>1, MintFacts DEF MintSteps
        <4>3. accessTokens'[a] \in AccessTokenRow
          BY <2>1, <4>1, <4>2, ConstantsOK DEF AccessTokenRow, Captured, TypeOK
        <4>4. accessTokens'[a] # Null
          BY <4>3, NullIsNoRow
        <4>5. accessTokens'[a].grantId = req[r].grant
          BY <4>1
        <4>6. QED BY <4>4, <4>5
      <3>5. a \in Of(accessTokens', req[r].grant)
        BY <3>4 DEF Of, TypeOK
      <3>6. QED BY <2>1, <2>2, <3>2, <3>3, <3>5 DEF RequestHolds, ReplaySteps, MintSteps
    <2>5. QED BY <2>3, <2>4
  <1>14. ASSUME NEW x \in RefreshTokens, NEW now \in Captured,
                 InsertRefreshToken(r, x, now)
        PROVE  RequestHolds(r)'
    <2>1. req'[r].pc = "idle"
      BY <1>14 DEF InsertRefreshToken, Finish, TypeOK, Idle
    <2>2. QED BY <2>1 DEF RequestHolds, ReplaySteps, MintSteps
  <1>15. ASSUME NEW x \in RefreshTokens,
                 ResolveRefreshToken(r, x)
        PROVE  RequestHolds(r)'
    <2>1. req'[r] = [Idle EXCEPT !.pc = "rt.revoke", !.rt = x, !.grant = refreshTokens[x].grantId]
      BY <1>15 DEF ResolveRefreshToken, TypeOK
    <2>2. req'[r].pc = "rt.revoke" /\ req'[r].grant = refreshTokens[x].grantId /\ req'[r].rt = x
      BY <2>1 DEF Idle
    <2>3. refreshTokens' = refreshTokens /\ refreshTokens[x] # Null
      BY <1>15 DEF ResolveRefreshToken, tables, RowsLinked
    <2>4. x \in Of(refreshTokens, refreshTokens[x].grantId)
      BY <2>3 DEF Of, TypeOK
    <2>5. QED BY <2>2, <2>3, <2>4 DEF RequestHolds, ReplaySteps, MintSteps
  <1>16. ASSUME NEW a \in AccessTokens,
                 ResolveAccessToken(r, a)
        PROVE  RequestHolds(r)'
    <2>1. req'[r] = [Idle EXCEPT !.pc = "at.revoke", !.at = a, !.grant = accessTokens[a].grantId]
      BY <1>16 DEF ResolveAccessToken, TypeOK
    <2>2. req'[r].pc = "at.revoke" /\ req'[r].grant = accessTokens[a].grantId /\ req'[r].at = a
      BY <2>1 DEF Idle
    <2>3. accessTokens' = accessTokens /\ accessTokens[a] # Null
      BY <1>16 DEF ResolveAccessToken, tables, RowsLinked
    <2>4. a \in Of(accessTokens, accessTokens[a].grantId)
      BY <2>3 DEF Of, TypeOK
    <2>5. QED BY <2>2, <2>3, <2>4 DEF RequestHolds, ReplaySteps, MintSteps
  <1>17. CASE RevokeRefreshToken(r)
    <2>1. req[r] \in Request /\ req[r].rt \in Of(refreshTokens, req[r].grant)
      BY <1>17 DEF RevokeRefreshToken, TypeOK, RequestHolds
    <2>2. req'[r] = [req[r] EXCEPT !.pc = "at.cascade"]
      BY <1>17 DEF RevokeRefreshToken, Goto, TypeOK
    <2>3. req'[r].pc = "at.cascade" /\ req'[r].grant = req[r].grant /\ req'[r].rt = req[r].rt
      BY <2>2, <2>1 DEF Request
    <2>4. /\ req[r].rt \in RefreshTokens /\ refreshTokens[req[r].rt] \in RefreshTokenRow
          /\ refreshTokens[req[r].rt] # Null /\ refreshTokens[req[r].rt].grantId = req[r].grant
      BY <2>1 DEF Of, TypeOK
    <2>5. refreshTokens'[req[r].rt].revoked
      BY <1>17, <2>4 DEF RevokeRefreshToken, TypeOK, RefreshTokenRow
    <2>6. req[r].rt \in Of(refreshTokens', req[r].grant)
      BY <2>4 DEF RowsPersist, Of, TypeOK
    <2>7. QED BY <2>3, <2>5, <2>6 DEF RequestHolds, ReplaySteps, MintSteps
  <1>18. CASE CascadeToAccessTokens(r)
    <2>1. req'[r].pc = "idle"
      BY <1>18 DEF CascadeToAccessTokens, Finish, TypeOK, Idle
    <2>2. QED BY <2>1 DEF RequestHolds, ReplaySteps, MintSteps
  <1>19. CASE RevokeAccessToken(r)
    <2>1. req'[r].pc = "idle"
      BY <1>19 DEF RevokeAccessToken, Finish, TypeOK, Idle
    <2>2. QED BY <2>1 DEF RequestHolds, ReplaySteps, MintSteps
  <1>20. CASE Abort(r) \/ AnswerUnknown(r)
    <2>1. req'[r].pc = "idle"
      BY <1>20 DEF Abort, AnswerUnknown, Finish, TypeOK, Idle
    <2>2. QED BY <2>1 DEF RequestHolds, ReplaySteps, MintSteps
  <1>21. ASSUME NEW a \in AccessTokens,
                 MissAccessToken(r, a)
        PROVE  RequestHolds(r)'
    <2>1. req'[r] = [Idle EXCEPT !.pc = "at.unknown", !.at = a]
      BY <1>21 DEF MissAccessToken, TypeOK
    <2>2. req'[r].pc = "at.unknown"
      BY <2>1 DEF Idle
    <2>3. QED BY <2>2 DEF RequestHolds, ReplaySteps, MintSteps
  <1>22. QED
    BY <1>1, <1>2, <1>3, <1>4, <1>5, <1>6, <1>7, <1>8, <1>9, <1>10, <1>11,
       <1>12, <1>13, <1>14, <1>15, <1>16, <1>17, <1>18, <1>19, <1>20, <1>21
    DEF Step, Issue, Redeem, Mint, Revoke

-----------------------------------------------------------------------------
\* What a step adds to the responses names rows that exist, and are revoked
\* where the response says so.
NewReplies ==
    /\ \A a \in AccessTokens : a \in sent' => a \in sent \/ accessTokens'[a] # Null
    /\ \A x \in RefreshTokens : x \in sent' => x \in sent \/ refreshTokens'[x] # Null
    /\ \A a \in AccessTokens : a \in confirmed' =>
        a \in confirmed \/ (accessTokens'[a] # Null /\ accessTokens'[a].revoked)
    /\ \A x \in RefreshTokens : x \in confirmed' =>
        x \in confirmed \/ (refreshTokens'[x] # Null /\ refreshTokens'[x].revoked)
    /\ \A g \in Grants : g \in refused' =>
        g \in refused \/ (grants'[g] # Null /\ grants'[g].revoked)

\* A response names only rows that exist and are revoked as it says.
LEMMA NewRepliesStep ==
    ASSUME TypeOK, TypeOK', RowsLinked, NEW r \in Requests, RequestHolds(r), Step(r)
    PROVE  NewReplies
  <1>1. ASSUME NEW g \in Grants, NEW c \in Clients, NEW s \in Subjects,
                 NEW sc \in SUBSET Scopes,
                 InsertGrant(r, g, c, s, sc)
        PROVE  NewReplies
    BY <1>1 DEF InsertGrant, NewReplies, tables, replies
  <1>2. ASSUME NEW u \in RedirectUris, NEW v \in Verifiers, NEW k \in Keys \cup {Null},
                 NEW now \in Captured,
                 InsertCode(r, u, v, k, now)
        PROVE  NewReplies
    BY <1>2 DEF InsertCode, NewReplies, tables, replies
  <1>3. ASSUME NEW g \in Grants, NEW c \in Clients, NEW u \in RedirectUris,
                 NEW v \in Verifiers, NEW k \in Keys, NEW now \in Captured,
                 RedeemOk(r, g, c, u, v, k, now)
        PROVE  NewReplies
    BY <1>3 DEF RedeemOk, NewReplies, tables, replies
  <1>4. ASSUME NEW g \in Grants, NEW c \in Clients, NEW u \in RedirectUris,
                 NEW v \in Verifiers, NEW k \in Keys, NEW now \in Captured,
                 RedeemBurned(r, g, c, u, v, k, now)
        PROVE  NewReplies
    BY <1>4 DEF RedeemBurned, NewReplies, tables, replies
  <1>5. ASSUME NEW g \in Grants, NEW now \in Captured,
                 RedeemMiss(r, g, now)
        PROVE  NewReplies
    BY <1>5 DEF RedeemMiss, NewReplies, tables, replies
  <1>6. CASE SelectConsumed(r)
    BY <1>6 DEF SelectConsumed, NewReplies, tables, replies
  <1>7. CASE RevokeGrant(r)
    BY <1>7 DEF RevokeGrant, NewReplies, tables, replies
  <1>8. CASE RevokeAccessTokensByGrant(r)
    BY <1>8 DEF RevokeAccessTokensByGrant, NewReplies, tables, replies
  <1>9. CASE RevokeRefreshTokensByGrant(r)
    <2>1. req[r].grant \in Grants /\ codes[req[r].grant] # Null /\ grants[req[r].grant].revoked
      BY <1>9 DEF RevokeRefreshTokensByGrant, RequestHolds, ReplaySteps
    <2>2. grants[req[r].grant] # Null
      BY <2>1 DEF RowsLinked
    <2>3. QED BY <1>9, <2>1, <2>2 DEF RevokeRefreshTokensByGrant, NewReplies
  <1>10. ASSUME NEW x \in RefreshTokens, NEW c \in Clients, NEW k \in Keys,
                 NEW now \in Captured,
                 FindRefreshToken(r, x, c, k, now)
        PROVE  NewReplies
    BY <1>10 DEF FindRefreshToken, NewReplies, tables, replies
  <1>11. CASE FindGrantForCode(r)
    BY <1>11 DEF FindGrantForCode, NewReplies, tables, replies
  <1>12. ASSUME NEW requested \in SUBSET Scopes,
                 FindGrantForRefresh(r, requested)
        PROVE  NewReplies
    BY <1>12 DEF FindGrantForRefresh, NewReplies, tables, replies
  <1>13. ASSUME NEW a \in AccessTokens, NEW now \in Captured,
                 InsertAccessToken(r, a, now)
        PROVE  NewReplies
    <2>1. accessTokens'[a] # Null
      <3>1. accessTokens'[a] = [grantId |-> req[r].grant, clientId |-> req[r].client,
              subject |-> req[r].subject, scope |-> req[r].scope, cnfJkt |-> req[r].jkt,
              expiresAt |-> now + AccessTokenTtl, revoked |-> FALSE]
        BY <1>13 DEF InsertAccessToken, TypeOK
      <3>2. req[r].pc \in MintSteps /\ req[r].pc # "grants.find"
        BY <1>13 DEF InsertAccessToken, MintSteps
      <3>3. /\ req[r].grant \in Grants /\ req[r].client \in Clients /\ req[r].jkt \in Keys
            /\ req[r].subject \in Subjects /\ req[r].scope \in SUBSET Scopes
        BY <3>2, MintFacts
      <3>4. accessTokens'[a] \in AccessTokenRow
        BY <3>1, <3>3, ConstantsOK DEF AccessTokenRow, Captured, TypeOK
      <3>5. QED BY <3>4, NullIsNoRow
    <2>2. sent' \subseteq sent \cup {a}
      BY <1>13 DEF InsertAccessToken
    <2>3. a \notin RefreshTokens
      BY ConstantsOK
    <2>4. UNCHANGED <<confirmed, refused>>
      BY <1>13 DEF InsertAccessToken
    <2>5. QED BY <2>1, <2>2, <2>3, <2>4 DEF NewReplies
  <1>14. ASSUME NEW x \in RefreshTokens, NEW now \in Captured,
                 InsertRefreshToken(r, x, now)
        PROVE  NewReplies
    <2>1. refreshTokens'[x] # Null
      <3>1. refreshTokens'[x] = [grantId |-> req[r].grant, clientId |-> req[r].client,
              scope |-> req[r].scope, expiresAt |-> now + RefreshTokenTtl, revoked |-> FALSE]
        BY <1>14 DEF InsertRefreshToken, TypeOK
      <3>2. req[r].pc \in MintSteps /\ req[r].pc # "grants.find"
        BY <1>14 DEF InsertRefreshToken, MintSteps
      <3>3. /\ req[r].grant \in Grants /\ req[r].client \in Clients
            /\ req[r].scope \in SUBSET Scopes
        BY <3>2, MintFacts
      <3>4. refreshTokens'[x] \in RefreshTokenRow
        BY <3>1, <3>3, ConstantsOK DEF RefreshTokenRow, Captured, TypeOK
      <3>5. QED BY <3>4, NullIsNoRow
    <2>2. req[r].at \in AccessTokens /\ accessTokens[req[r].at] # Null
      BY <1>14 DEF InsertRefreshToken, RequestHolds, MintSteps, Of, TypeOK
    <2>3. sent' = sent \cup {req[r].at, x} /\ UNCHANGED <<accessTokens, confirmed, refused>>
      BY <1>14 DEF InsertRefreshToken
    <2>4. x \notin AccessTokens /\ req[r].at \notin RefreshTokens
      BY <2>2, ConstantsOK
    <2>5. QED BY <2>1, <2>2, <2>3, <2>4 DEF NewReplies
  <1>15. ASSUME NEW x \in RefreshTokens,
                 ResolveRefreshToken(r, x)
        PROVE  NewReplies
    BY <1>15 DEF ResolveRefreshToken, NewReplies, tables, replies
  <1>16. ASSUME NEW a \in AccessTokens,
                 ResolveAccessToken(r, a) \/ MissAccessToken(r, a)
        PROVE  NewReplies
    BY <1>16 DEF ResolveAccessToken, MissAccessToken, NewReplies, tables, replies
  <1>17. CASE RevokeRefreshToken(r)
    BY <1>17 DEF RevokeRefreshToken, NewReplies, tables, replies
  <1>18. CASE CascadeToAccessTokens(r)
    <2>1. /\ req[r].rt \in RefreshTokens /\ refreshTokens[req[r].rt] # Null
          /\ refreshTokens[req[r].rt].revoked
      BY <1>18 DEF CascadeToAccessTokens, RequestHolds, Of, TypeOK
    <2>2. /\ confirmed' = confirmed \cup {req[r].rt}
          /\ UNCHANGED <<refreshTokens, sent, refused>>
      BY <1>18 DEF CascadeToAccessTokens
    <2>3. req[r].rt \notin AccessTokens
      BY <2>1, ConstantsOK
    <2>4. QED BY <2>1, <2>2, <2>3 DEF NewReplies
  <1>19. CASE RevokeAccessToken(r)
    <2>1. req[r].at \in AccessTokens /\ accessTokens[req[r].at] # Null
      BY <1>19 DEF RevokeAccessToken, RequestHolds, Of, TypeOK
    <2>2. accessTokens[req[r].at] \in AccessTokenRow
      BY <2>1 DEF TypeOK
    <2>3. accessTokens'[req[r].at] = [accessTokens[req[r].at] EXCEPT !.revoked = TRUE]
      BY <1>19, <2>1 DEF RevokeAccessToken, TypeOK
    <2>4. accessTokens'[req[r].at].revoked /\ accessTokens'[req[r].at] # Null
      <3>1. accessTokens'[req[r].at] \in AccessTokenRow
        BY <2>2, <2>3 DEF AccessTokenRow
      <3>2. accessTokens'[req[r].at].revoked
        BY <2>2, <2>3 DEF AccessTokenRow
      <3>3. accessTokens'[req[r].at] # Null
        BY <3>1, NullIsNoRow
      <3>4. QED BY <3>2, <3>3
    <2>5. /\ confirmed' = confirmed \cup {req[r].at}
          /\ UNCHANGED <<refreshTokens, sent, refused>>
      BY <1>19 DEF RevokeAccessToken
    <2>6. req[r].at \notin RefreshTokens
      BY <2>1, ConstantsOK
    <2>7. QED BY <2>1, <2>4, <2>5, <2>6 DEF NewReplies
  <1>20. CASE Abort(r) \/ AnswerUnknown(r)
    BY <1>20 DEF Abort, AnswerUnknown, NewReplies, tables, replies
  <1>21. QED
    BY <1>1, <1>2, <1>3, <1>4, <1>5, <1>6, <1>7, <1>8, <1>9, <1>10, <1>11,
       <1>12, <1>13, <1>14, <1>15, <1>16, <1>17, <1>18, <1>19, <1>20
    DEF Step, Issue, Redeem, Mint, Revoke

-----------------------------------------------------------------------------
(* Each conjunct of the invariant from what the steps above establish.     *)

\* Every step keeps the tables linked as the foreign keys say.
LEMMA RowsLinkedStep ==
    ASSUME TypeOK, TypeOK', RowsLinked, NEW r \in Requests, RequestHolds(r),
           RowsPersist, NewRows(r), NewReplies
    PROVE  RowsLinked'
  <1>1. ASSUME NEW g \in Grants, codes'[g] # Null
        PROVE  grants'[g] # Null /\ codes'[g].clientId = grants'[g].clientId
    <2>1. CASE codes[g] # Null
      BY <2>1 DEF RowsLinked, RowsPersist
    <2>2. CASE codes[g] = Null
      <3>1. req[r].pc = "codes.insert" /\ req[r].grant = g /\ codes'[g].clientId = req[r].client
        BY <1>1, <2>2 DEF NewRows
      <3>2. grants[g] # Null /\ req[r].client = grants[g].clientId
        BY <3>1 DEF RequestHolds
      <3>3. QED BY <3>1, <3>2 DEF RowsPersist
    <2>3. QED BY <2>1, <2>2
  <1>2. ASSUME NEW x \in RefreshTokens, refreshTokens'[x] # Null
        PROVE  /\ codes'[refreshTokens'[x].grantId] # Null
               /\ codes'[refreshTokens'[x].grantId].consumed
    <2> DEFINE g == refreshTokens'[x].grantId
    <2>1. g \in Grants
      <3>1. refreshTokens'[x] \in RefreshTokenRow
        BY <1>2 DEF TypeOK
      <3>2. QED BY <3>1 DEF RefreshTokenRow
    <2>2. codes[g] # Null /\ codes[g].consumed
      <3>1. CASE refreshTokens[x] # Null
        BY <3>1 DEF RowsLinked, RowsPersist
      <3>2. CASE refreshTokens[x] = Null
        <4>1. req[r].pc = "rt.insert" /\ req[r].grant = g
          BY <1>2, <3>2 DEF NewRows
        <4>2. QED BY <4>1 DEF RequestHolds, MintSteps
      <3>3. QED BY <3>1, <3>2
    <2>3. QED BY <2>1, <2>2 DEF RowsPersist
  <1>3. ASSUME NEW a \in AccessTokens, a \in sent' \cup confirmed'
        PROVE  accessTokens'[a] # Null
    BY <1>3 DEF RowsLinked, RowsPersist, NewReplies
  <1>4. ASSUME NEW x \in RefreshTokens, x \in sent' \cup confirmed'
        PROVE  refreshTokens'[x] # Null
    BY <1>4 DEF RowsLinked, RowsPersist, NewReplies
  <1>5. ASSUME NEW g \in refused'
        PROVE  grants'[g] # Null
    BY <1>5 DEF RowsLinked, RowsPersist, NewReplies, TypeOK
  <1>6. QED BY <1>1, <1>2, <1>3, <1>4, <1>5 DEF RowsLinked

\* A refresh token that a step inserts ends the exchange of its own grant.
LEMMA NewRefreshToken ==
    ASSUME NEW r \in Requests, RequestHolds(r), NewRows(r), NEW x \in RefreshTokens,
           refreshTokens[x] = Null, refreshTokens'[x] # Null
    PROVE  /\ Exchanging(r, refreshTokens'[x].grantId)
           /\ req'[r] = Idle
  <1>1. req[r].pc = "rt.insert" /\ refreshTokens'[x].grantId = req[r].grant /\ req'[r] = Idle
    BY DEF NewRows
  <1>2. req[r].rt = Null
    BY <1>1 DEF RequestHolds, MintSteps
  <1>3. QED BY <1>1, <1>2 DEF Exchanging, Minting, MintSteps

\* No step lets a second exchange of the same code through.
LEMMA SingleExchangeStep ==
    ASSUME TypeOK, TypeOK', RowsLinked, SingleExchange, NEW r \in Requests,
           \A q \in Requests : RequestHolds(q),
           RowsPersist, NewRows(r), NewPosition(r)
    PROVE  SingleExchange'
  <1> DEFINE Ex(q, g) == req'[q].grant = g /\ req'[q].pc \in MintSteps /\ req'[q].rt = Null
             New(x) == refreshTokens[x] = Null /\ refreshTokens'[x] # Null
  <1>1. ASSUME NEW g \in Grants, NEW q \in Requests, q # r, Ex(q, g)
        PROVE  Exchanging(q, g)
    BY <1>1 DEF NewPosition, Exchanging, Minting
  <1>2. ASSUME NEW g \in Grants, Ex(r, g)
        PROVE  Exchanging(r, g) \/ (codes[g] # Null /\ ~codes[g].consumed)
    BY <1>2 DEF NewPosition, Exchanging, Minting
  <1>3. ASSUME NEW g \in Grants, NEW q \in Requests, Exchanging(q, g)
        PROVE  codes[g].consumed
    BY <1>3 DEF RequestHolds, Exchanging, Minting
  <1>4. ASSUME NEW g \in Grants, NEW x \in RefreshTokens, x \in Of(refreshTokens', g)
        PROVE  x \in Of(refreshTokens, g) \/ (New(x) /\ refreshTokens'[x].grantId = g)
    BY <1>4 DEF Of, RowsPersist, TypeOK
  <1>5. ASSUME NEW g \in Grants, NEW x \in Of(refreshTokens, g)
        PROVE  codes[g].consumed
    BY <1>5 DEF Of, RowsLinked, TypeOK
  <1>6. \A g \in Grants : Of(refreshTokens', g) \subseteq RefreshTokens
    BY DEF Of, TypeOK
  <1>7. ASSUME NEW g \in Grants, NEW p \in Requests, NEW q \in Requests, Ex(p, g), Ex(q, g)
        PROVE  p = q
    <2>1. CASE p # r /\ q # r
      BY <1>1, <1>7, <2>1 DEF SingleExchange
    <2>2. CASE p = r /\ q # r
      BY <1>1, <1>2, <1>3, <1>7, <2>2 DEF SingleExchange
    <2>3. CASE q = r /\ p # r
      BY <1>1, <1>2, <1>3, <1>7, <2>3 DEF SingleExchange
    <2>4. QED BY <2>1, <2>2, <2>3
  <1>8. ASSUME NEW g \in Grants, NEW x \in RefreshTokens, New(x), refreshTokens'[x].grantId = g
        PROVE  Exchanging(r, g) /\ req'[r] = Idle
    BY <1>8, NewRefreshToken
  <1>9. ASSUME NEW g \in Grants, NEW x \in Of(refreshTokens', g), NEW y \in Of(refreshTokens', g)
        PROVE  x = y
    <2>1. x \in RefreshTokens /\ y \in RefreshTokens
      BY <1>6
    <2>2. CASE x \in Of(refreshTokens, g) /\ y \in Of(refreshTokens, g)
      BY <2>2 DEF SingleExchange
    <2>3. CASE New(x) /\ refreshTokens'[x].grantId = g
      <3>1. Exchanging(r, g)
        BY <1>8, <2>1, <2>3
      <3>2. y \notin Of(refreshTokens, g)
        BY <3>1 DEF SingleExchange
      <3>3. New(y)
        BY <1>4, <2>1, <3>2
      <3>4. QED BY <2>1, <2>3, <3>3 DEF NewRows
    <2>4. CASE New(y) /\ refreshTokens'[y].grantId = g
      <3>1. Exchanging(r, g)
        BY <1>8, <2>1, <2>4
      <3>2. x \notin Of(refreshTokens, g)
        BY <3>1 DEF SingleExchange
      <3>3. New(x)
        BY <1>4, <2>1, <3>2
      <3>4. QED BY <2>1, <2>4, <3>3 DEF NewRows
    <2>5. QED BY <1>4, <2>1, <2>2, <2>3, <2>4
  <1>10. ASSUME NEW g \in Grants, NEW q \in Requests, Ex(q, g), NEW x \in Of(refreshTokens', g)
         PROVE  FALSE
    <2>1. x \in RefreshTokens
      BY <1>6
    <2>2. CASE x \in Of(refreshTokens, g)
      <3>1. ~Exchanging(q, g) /\ codes[g].consumed
        BY <1>5, <2>2 DEF SingleExchange
      <3>2. QED BY <1>1, <1>2, <1>10, <3>1
    <2>3. CASE New(x) /\ refreshTokens'[x].grantId = g
      <3>1. Exchanging(r, g) /\ req'[r] = Idle
        BY <1>8, <2>1, <2>3
      <3>2. q # r
        BY <1>10, <3>1 DEF Idle, MintSteps
      <3>3. Exchanging(q, g)
        BY <1>1, <1>10, <3>2
      <3>4. QED BY <3>1, <3>2, <3>3 DEF SingleExchange
    <2>4. QED BY <1>4, <2>1, <2>2, <2>3
  <1>11. QED BY <1>7, <1>9, <1>10 DEF SingleExchange, Exchanging, Minting

\* No step stores a token beyond what its grant authorizes.
LEMMA TokensMatchGrantStep ==
    ASSUME TypeOK, TypeOK', RowsLinked, TokensMatchGrant, NEW r \in Requests,
           RequestHolds(r), RowsPersist, NewRows(r)
    PROVE  TokensMatchGrant'
  <1>1. ASSUME NEW a \in AccessTokens, accessTokens'[a] # Null
        PROVE  LET row == accessTokens'[a]  g == row.grantId IN
               /\ codes'[g] # Null /\ codes'[g].consumed
               /\ row.clientId = grants'[g].clientId
               /\ row.subject = grants'[g].subject
               /\ row.scope \subseteq grants'[g].scope
    <2> DEFINE row == accessTokens'[a]  g == row.grantId
    <2>1. g \in Grants
      <3>1. row \in AccessTokenRow
        BY <1>1 DEF TypeOK
      <3>2. QED BY <3>1 DEF AccessTokenRow
    <2>2. /\ codes[g] # Null /\ codes[g].consumed
          /\ row.clientId = grants[g].clientId
          /\ row.subject = grants[g].subject
          /\ row.scope \subseteq grants[g].scope
      <3>1. CASE accessTokens[a] # Null
        BY <3>1 DEF TokensMatchGrant, RowsPersist
      <3>2. CASE accessTokens[a] = Null
        <4>1. /\ req[r].pc = "at.insert" /\ g = req[r].grant /\ row.clientId = req[r].client
              /\ row.subject = req[r].subject /\ row.scope = req[r].scope
          BY <1>1, <3>2 DEF NewRows
        <4>2. QED BY <4>1 DEF RequestHolds, MintSteps
      <3>3. QED BY <3>1, <3>2
    <2>3. grants[g] # Null
      BY <2>1, <2>2 DEF RowsLinked
    <2>4. QED BY <2>1, <2>2, <2>3 DEF RowsPersist
  <1>2. ASSUME NEW x \in RefreshTokens, refreshTokens'[x] # Null
        PROVE  LET row == refreshTokens'[x]  g == row.grantId IN
               /\ row.clientId = grants'[g].clientId
               /\ row.clientId \in RefreshClients
               /\ row.scope = grants'[g].scope
    <2> DEFINE row == refreshTokens'[x]  g == row.grantId
    <2>1. g \in Grants
      <3>1. row \in RefreshTokenRow
        BY <1>2 DEF TypeOK
      <3>2. QED BY <3>1 DEF RefreshTokenRow
    <2>2. /\ codes[g] # Null
          /\ row.clientId = grants[g].clientId
          /\ row.clientId \in RefreshClients
          /\ row.scope = grants[g].scope
      <3>1. CASE refreshTokens[x] # Null
        BY <3>1 DEF TokensMatchGrant, RowsLinked, RowsPersist
      <3>2. CASE refreshTokens[x] = Null
        <4>1. /\ req[r].pc = "rt.insert" /\ g = req[r].grant /\ row.clientId = req[r].client
              /\ row.scope = req[r].scope
          BY <1>2, <3>2 DEF NewRows
        <4>2. QED BY <4>1 DEF RequestHolds, MintSteps
      <3>3. QED BY <3>1, <3>2
    <2>3. grants[g] # Null
      BY <2>1, <2>2 DEF RowsLinked
    <2>4. QED BY <2>1, <2>2, <2>3 DEF RowsPersist
  <1>3. QED BY <1>1, <1>2 DEF TokensMatchGrant

\* No step stores a token of a pinned code for another key.
LEMMA PinnedKeyStep ==
    ASSUME TypeOK, TypeOK', TokensMatchGrant, PinnedKey, NEW r \in Requests,
           RequestHolds(r), RowsPersist, NewRows(r)
    PROVE  PinnedKey'
  <1>1. ASSUME NEW a \in AccessTokens, accessTokens'[a] # Null
        PROVE  \/ codes'[accessTokens'[a].grantId].dpopJkt \in {Null, accessTokens'[a].cnfJkt}
               \/ Of(refreshTokens', accessTokens'[a].grantId) # {}
    <2> DEFINE g == accessTokens'[a].grantId
    <2>1. g \in Grants
      <3>1. accessTokens'[a] \in AccessTokenRow
        BY <1>1 DEF TypeOK
      <3>2. QED BY <3>1 DEF AccessTokenRow
    <2>2. /\ codes[g] # Null
          /\ codes[g].dpopJkt \in {Null, accessTokens'[a].cnfJkt} \/ Of(refreshTokens, g) # {}
      <3>1. CASE accessTokens[a] # Null
        BY <3>1 DEF PinnedKey, TokensMatchGrant, RowsPersist
      <3>2. CASE accessTokens[a] = Null
        <4>1. req[r].pc = "at.insert" /\ g = req[r].grant /\ accessTokens'[a].cnfJkt = req[r].jkt
          BY <1>1, <3>2 DEF NewRows
        <4>2. QED BY <4>1 DEF RequestHolds, MintSteps
      <3>3. QED BY <3>1, <3>2
    <2>3. Of(refreshTokens, g) \subseteq Of(refreshTokens', g)
      BY <2>1 DEF Of, RowsPersist, TypeOK
    <2>4. codes'[g].dpopJkt = codes[g].dpopJkt
      BY <2>1, <2>2 DEF RowsPersist
    <2>5. QED BY <2>2, <2>3, <2>4
  <1>2. QED BY <1>1 DEF PinnedKey

\* No step takes back what an answer has said.
LEMMA AnswersHoldStep ==
    ASSUME TypeOK, TypeOK', RowsLinked, AnswersHold, RowsPersist, NewReplies
    PROVE  AnswersHold'
  <1>1. ASSUME NEW a \in AccessTokens, a \in confirmed'
        PROVE  accessTokens'[a].revoked
    BY <1>1 DEF AnswersHold, RowsLinked, RowsPersist, NewReplies
  <1>2. ASSUME NEW x \in RefreshTokens, x \in confirmed'
        PROVE  refreshTokens'[x].revoked
    BY <1>2 DEF AnswersHold, RowsLinked, RowsPersist, NewReplies
  <1>3. ASSUME NEW g \in refused'
        PROVE  grants'[g].revoked
    BY <1>3 DEF AnswersHold, RowsLinked, RowsPersist, NewReplies, TypeOK
  <1>4. QED BY <1>1, <1>2, <1>3 DEF AnswersHold

-----------------------------------------------------------------------------
(* The invariant, for every instance.                                      *)

\* The invariant reads the tables, the requests and the responses only.
LEMMA FrameStep ==
    ASSUME LifecycleInv, TypeOK', UNCHANGED <<tables, req, replies>>
    PROVE  LifecycleInv'
  <1>1. /\ UNCHANGED <<grants, codes, accessTokens, refreshTokens>>
        /\ UNCHANGED <<req, sent, refused, confirmed>>
    BY DEF tables, replies
  <1>2. RowsLinked' /\ AnswersHold'
    BY <1>1 DEF LifecycleInv, RowsLinked, AnswersHold
  <1>3. ASSUME NEW r \in Requests PROVE RequestHolds(r)'
    <2>1. RequestHolds(r)
      BY DEF LifecycleInv
    <2>2. QED BY <1>1, <2>1 DEF RequestHolds, Of
  <1>4. SingleExchange'
    BY <1>1 DEF LifecycleInv, SingleExchange, Exchanging, Minting, Of
  <1>5. TokensMatchGrant' /\ PinnedKey'
    BY <1>1 DEF LifecycleInv, TokensMatchGrant, PinnedKey, Of
  <1>6. QED BY <1>2, <1>3, <1>4, <1>5 DEF LifecycleInv

\* The empty tables satisfy the invariant.
LEMMA InvariantInit == Init => LifecycleInv
  <1> SUFFICES ASSUME Init PROVE LifecycleInv
    OBVIOUS
  <1>1. TypeOK
    BY IdleIsRequest DEF Init, TypeOK
  <1>2. \A r \in Requests : req[r].pc = "idle"
    BY DEF Init, Idle
  <1>3. \A r \in Requests : RequestHolds(r)
    BY <1>2 DEF RequestHolds, ReplaySteps, MintSteps
  <1>4. RowsLinked /\ AnswersHold /\ TokensMatchGrant /\ PinnedKey
    BY DEF Init, RowsLinked, AnswersHold, TokensMatchGrant, PinnedKey
  <1>5. SingleExchange
    BY <1>2 DEF Init, SingleExchange, Exchanging, Minting, Of, MintSteps
  <1>6. QED BY <1>1, <1>3, <1>4, <1>5 DEF LifecycleInv

\* A step of a request establishes every predicate above.
LEMMA StepFacts ==
    ASSUME LifecycleInv, NEW r \in Requests, Step(r)
    PROVE  /\ TypeOK' /\ RowsPersist /\ NewReplies
           /\ NewRows(r) /\ NewPosition(r)
  <1>1. TypeOK /\ RowsLinked /\ \A q \in Requests : RequestHolds(q)
    BY DEF LifecycleInv
  <1>2. TypeOK'
    BY <1>1, TypeStep DEF Next
  <1>3. RowsPersist
    BY <1>1, <1>2, RowsPersistStep
  <1>4. NewReplies
    BY <1>1, <1>2, NewRepliesStep
  <1>5. NewRows(r) /\ NewPosition(r)
    BY <1>1, NewRowsStep, NewPositionStep
  <1>6. QED BY <1>2, <1>3, <1>4, <1>5

\* Every step, of any request or of the clock, preserves the invariant.
LEMMA InvariantStep ==
    ASSUME LifecycleInv, [Next]_vars
    PROVE  LifecycleInv'
  <1>1. CASE Tick \/ UNCHANGED vars
    <2>1. TypeOK'
      BY TypeStep DEF LifecycleInv
    <2>2. UNCHANGED <<tables, req, replies>>
      BY <1>1 DEF Tick, vars
    <2>3. QED BY <2>1, <2>2, FrameStep
  <1>2. ASSUME NEW r \in Requests, Step(r)
        PROVE  LifecycleInv'
    <2>1. /\ TypeOK /\ RowsLinked /\ SingleExchange /\ TokensMatchGrant
          /\ PinnedKey /\ AnswersHold /\ \A q \in Requests : RequestHolds(q)
      BY DEF LifecycleInv
    <2>2. /\ TypeOK' /\ RowsPersist /\ NewReplies
          /\ NewRows(r) /\ NewPosition(r)
      BY <1>2, StepFacts
    <2>3. RowsLinked'
      BY <2>1, <2>2, RowsLinkedStep
    <2>4. ASSUME NEW q \in Requests PROVE RequestHolds(q)'
      <3>1. CASE q = r
        BY <1>2, <2>1, <2>2, <3>1, OwnRequestStep
      <3>2. CASE q # r
        BY <2>1, <2>2, <3>2, OtherRequestsStep
      <3>3. QED BY <3>1, <3>2
    <2>5. SingleExchange'
      BY <2>1, <2>2, SingleExchangeStep
    <2>6. TokensMatchGrant'
      BY <2>1, <2>2, TokensMatchGrantStep
    <2>7. PinnedKey'
      BY <2>1, <2>2, PinnedKeyStep
    <2>8. AnswersHold'
      BY <2>1, <2>2, AnswersHoldStep
    <2>9. QED BY <2>2, <2>3, <2>4, <2>5, <2>6, <2>7, <2>8 DEF LifecycleInv
  <1>3. QED BY <1>1, <1>2 DEF Next

\* The inductive invariant holds in every behaviour of the token endpoint, the
\* revocation endpoint and code issuance, for any number of requests in flight.
THEOREM LifecycleInvariant == Spec => []LifecycleInv
  <1>1. Init => LifecycleInv
    BY InvariantInit
  <1>2. LifecycleInv /\ [Next]_vars => LifecycleInv'
    BY InvariantStep
  <1>3. QED BY <1>1, <1>2, PTL DEF Spec

\* The four tables and the requests in flight keep their types.
THEOREM TypeCorrect == Spec => []TypeOK
  <1>1. LifecycleInv => TypeOK
    BY DEF LifecycleInv
  <1>2. QED BY <1>1, LifecycleInvariant, PTL

\* redeemAuthorizationCode lets one request through per code, across replicas.
THEOREM CodeExchangedOnce == Spec => []SingleExchange
  <1>1. LifecycleInv => SingleExchange
    BY DEF LifecycleInv
  <1>2. QED BY <1>1, LifecycleInvariant, PTL

\* issueTokenSet writes only what the grant authorizes.
THEOREM TokensAuthorized == Spec => []TokensMatchGrant
  <1>1. LifecycleInv => TokensMatchGrant
    BY DEF LifecycleInv
  <1>2. QED BY <1>1, LifecycleInvariant, PTL

\* A code pushed with dpop_jkt is exchanged for a token of that key.
THEOREM CodeBoundToKey == Spec => []PinnedKey
  <1>1. LifecycleInv => PinnedKey
    BY DEF LifecycleInv
  <1>2. QED BY <1>1, LifecycleInvariant, PTL

\* Confirmed revocations and refused replays stay in force.
THEOREM RevocationsKept == Spec => []AnswersHold
  <1>1. LifecycleInv => AnswersHold
    BY DEF LifecycleInv
  <1>2. QED BY <1>1, LifecycleInvariant, PTL

\* The redeeming, minting and revoking operations start no issuance.
LEMMA OnlyIssueInserts ==
    ASSUME TypeOK, NEW r \in Requests, Redeem(r) \/ Mint(r) \/ Revoke(r) \/ Abort(r),
           req[r].pc # "codes.insert"
    PROVE  req'[r].pc # "codes.insert"
  <1>a. req \in [Requests -> Request] /\ req[r] \in Request /\ Idle.pc = "idle"
    BY DEF TypeOK, Idle
  <1>b. Finish(r) => req'[r].pc # "codes.insert"
    BY <1>a DEF Finish
  <1>c. ASSUME NEW pc, pc # "codes.insert", Goto(r, pc) PROVE req'[r].pc # "codes.insert"
    BY <1>a, <1>c DEF Goto, Request
  <1>1. CASE Redeem(r)
    <2>1. ASSUME NEW g \in Grants, NEW c \in Clients, NEW u \in RedirectUris,
                 NEW v \in Verifiers, NEW k \in Keys, NEW now \in Captured,
                 RedeemOk(r, g, c, u, v, k, now) \/ RedeemBurned(r, g, c, u, v, k, now)
          PROVE  req'[r].pc # "codes.insert"
      <3>1. CASE RedeemOk(r, g, c, u, v, k, now)
        <4>1. req'[r] = [Idle EXCEPT !.pc = "grants.find", !.grant = g, !.client = c, !.jkt = k]
          BY <1>a, <3>1 DEF RedeemOk
        <4>2. QED BY <4>1 DEF Idle
      <3>2. CASE RedeemBurned(r, g, c, u, v, k, now)
        BY <3>2 DEF RedeemBurned
      <3>3. QED BY <2>1, <3>1, <3>2
    <2>2. ASSUME NEW g \in Grants, NEW now \in Captured, RedeemMiss(r, g, now)
          PROVE  req'[r].pc # "codes.insert"
      <3>1. req'[r] = [Idle EXCEPT !.pc = "codes.select", !.grant = g]
        BY <1>a, <2>2 DEF RedeemMiss
      <3>2. QED BY <3>1 DEF Idle
    <2>3. CASE SelectConsumed(r) \/ RevokeGrant(r) \/ RevokeAccessTokensByGrant(r) \/ RevokeRefreshTokensByGrant(r)
      BY <2>3, <1>b, <1>c DEF SelectConsumed, RevokeGrant, RevokeAccessTokensByGrant, RevokeRefreshTokensByGrant
    <2>4. QED BY <1>1, <2>1, <2>2, <2>3 DEF Redeem
  <1>2. CASE Mint(r)
    <2>1. ASSUME NEW x \in RefreshTokens, NEW c \in Clients, NEW k \in Keys, NEW now \in Captured,
                 FindRefreshToken(r, x, c, k, now)
          PROVE  req'[r].pc # "codes.insert"
      <3>1. req'[r] = [Idle EXCEPT !.pc = "grants.find", !.grant = refreshTokens[x].grantId,
                                   !.client = c, !.jkt = k, !.rt = x]
        BY <1>a, <2>1 DEF FindRefreshToken
      <3>2. QED BY <3>1 DEF Idle
    <2>2. CASE FindGrantForCode(r)
      <3>1. \/ Finish(r)
            \/ req'[r] = [req[r] EXCEPT !.pc = "at.insert", !.subject = grants[req[r].grant].subject,
                                        !.scope = grants[req[r].grant].scope]
        BY <1>a, <2>2 DEF FindGrantForCode
      <3>2. QED BY <1>a, <1>b, <3>1 DEF Request
    <2>3. ASSUME NEW requested \in SUBSET Scopes, FindGrantForRefresh(r, requested)
          PROVE  req'[r].pc # "codes.insert"
      <3>1. \/ Finish(r)
            \/ req'[r] = [req[r] EXCEPT !.pc = "at.insert", !.subject = grants[req[r].grant].subject,
                                        !.scope = RequestedScope(requested, refreshTokens[req[r].rt].scope)]
        BY <1>a, <2>3 DEF FindGrantForRefresh
      <3>2. QED BY <1>a, <1>b, <3>1 DEF Request
    <2>4. ASSUME NEW a \in AccessTokens, NEW now \in Captured, InsertAccessToken(r, a, now)
          PROVE  req'[r].pc # "codes.insert"
      <3>1. \/ Finish(r)
            \/ req'[r] = [req[r] EXCEPT !.pc = "rt.insert", !.at = a]
        BY <1>a, <2>4 DEF InsertAccessToken
      <3>2. QED BY <1>a, <1>b, <3>1 DEF Request
    <2>5. ASSUME NEW x \in RefreshTokens, NEW now \in Captured, InsertRefreshToken(r, x, now)
          PROVE  req'[r].pc # "codes.insert"
      BY <1>b, <2>5 DEF InsertRefreshToken
    <2>6. QED BY <1>2, <2>1, <2>2, <2>3, <2>4, <2>5 DEF Mint
  <1>3. CASE Revoke(r)
    <2>1. ASSUME NEW x \in RefreshTokens, ResolveRefreshToken(r, x)
          PROVE  req'[r].pc # "codes.insert"
      <3>1. req'[r] = [Idle EXCEPT !.pc = "rt.revoke", !.rt = x, !.grant = refreshTokens[x].grantId]
        BY <1>a, <2>1 DEF ResolveRefreshToken
      <3>2. QED BY <3>1 DEF Idle
    <2>2. ASSUME NEW a \in AccessTokens, ResolveAccessToken(r, a)
          PROVE  req'[r].pc # "codes.insert"
      <3>1. req'[r] = [Idle EXCEPT !.pc = "at.revoke", !.at = a, !.grant = accessTokens[a].grantId]
        BY <1>a, <2>2 DEF ResolveAccessToken
      <3>2. QED BY <3>1 DEF Idle
    <2>3. ASSUME NEW a \in AccessTokens, MissAccessToken(r, a)
          PROVE  req'[r].pc # "codes.insert"
      <3>1. req'[r] = [Idle EXCEPT !.pc = "at.unknown", !.at = a]
        BY <1>a, <2>3 DEF MissAccessToken
      <3>2. QED BY <3>1 DEF Idle
    <2>4. CASE \/ RevokeRefreshToken(r) \/ CascadeToAccessTokens(r)
               \/ RevokeAccessToken(r) \/ AnswerUnknown(r)
      BY <2>4, <1>b, <1>c DEF RevokeRefreshToken, CascadeToAccessTokens, RevokeAccessToken, AnswerUnknown
    <2>5. QED BY <1>3, <2>1, <2>2, <2>3, <2>4 DEF Revoke
  <1>4. CASE Abort(r)
    BY <1>4, <1>b DEF Abort
  <1>5. QED BY <1>1, <1>2, <1>3, <1>4

-----------------------------------------------------------------------------
(* The action properties: when a grant can mint no more.                   *)

\* How a request comes to hold a passed grants.find check, and a passed
\* credential check.
NewMint(r) ==
    /\ req'[r].pc \in {"at.insert", "rt.insert"} =>
        /\ req[r].grant = req'[r].grant
        /\ \/ req[r].pc = "at.insert"
           \/ req[r].pc = "grants.find" /\ ~grants[req[r].grant].revoked
    /\ req'[r].pc \in MintSteps =>
        \/ req[r].pc \in MintSteps /\ req[r].grant = req'[r].grant
        \/ ~codes[req'[r].grant].consumed
        \/ \E x \in RefreshTokens :
             /\ refreshTokens[x] # Null /\ refreshTokens[x].grantId = req'[r].grant
             /\ ~refreshTokens[x].revoked

\* A step that starts minting for a grant had a fresh code or a live refresh token.
LEMMA NewMintStep ==
    ASSUME TypeOK, RowsLinked, NEW r \in Requests, Step(r)
    PROVE  NewMint(r)
  <1>1. ASSUME NEW g \in Grants, NEW c \in Clients, NEW s \in Subjects,
                 NEW sc \in SUBSET Scopes,
                 InsertGrant(r, g, c, s, sc)
        PROVE  NewMint(r)
    BY <1>1 DEF InsertGrant, NewMint, Finish, Goto, TypeOK, Idle, MintSteps
  <1>2. ASSUME NEW u \in RedirectUris, NEW v \in Verifiers, NEW k \in Keys \cup {Null},
                 NEW now \in Captured,
                 InsertCode(r, u, v, k, now)
        PROVE  NewMint(r)
    BY <1>2 DEF InsertCode, NewMint, Finish, Goto, TypeOK, Idle, MintSteps
  <1>3. ASSUME NEW g \in Grants, NEW c \in Clients, NEW u \in RedirectUris,
                 NEW v \in Verifiers, NEW k \in Keys, NEW now \in Captured,
                 RedeemOk(r, g, c, u, v, k, now)
        PROVE  NewMint(r)
    <2>1. req'[r] = [Idle EXCEPT !.pc = "grants.find", !.grant = g, !.client = c, !.jkt = k]
      BY <1>3 DEF RedeemOk, TypeOK
    <2>2. req'[r].pc = "grants.find" /\ req'[r].grant = g
      BY <2>1 DEF Idle
    <2>3. QED BY <1>3, <2>2 DEF RedeemOk, Redeemable, NewMint
  <1>4. ASSUME NEW g \in Grants, NEW c \in Clients, NEW u \in RedirectUris,
                 NEW v \in Verifiers, NEW k \in Keys, NEW now \in Captured,
                 RedeemBurned(r, g, c, u, v, k, now)
        PROVE  NewMint(r)
    BY <1>4 DEF RedeemBurned, NewMint, Finish, Goto, TypeOK, Idle, MintSteps
  <1>5. ASSUME NEW g \in Grants, NEW now \in Captured,
                 RedeemMiss(r, g, now)
        PROVE  NewMint(r)
    BY <1>5 DEF RedeemMiss, NewMint, Finish, Goto, TypeOK, Idle, MintSteps
  <1>6. CASE SelectConsumed(r)
    <2>1. req[r] \in Request
      BY DEF TypeOK
    <2>2. req'[r] \in {Idle, [req[r] EXCEPT !.pc = "grants.revoke"]}
      BY <1>6 DEF SelectConsumed, Finish, Goto, TypeOK
    <2>3. req'[r].pc \in {"idle", "grants.revoke"}
      BY <2>1, <2>2 DEF Idle, Request
    <2>4. QED BY <2>3 DEF NewMint, MintSteps
  <1>7. CASE RevokeGrant(r)
    BY <1>7 DEF RevokeGrant, NewMint, Finish, Goto, TypeOK, Idle, MintSteps
  <1>8. CASE RevokeAccessTokensByGrant(r)
    BY <1>8 DEF RevokeAccessTokensByGrant, NewMint, Finish, Goto, TypeOK, Idle, MintSteps
  <1>9. CASE RevokeRefreshTokensByGrant(r)
    BY <1>9 DEF RevokeRefreshTokensByGrant, NewMint, Finish, Goto, TypeOK, Idle, MintSteps
  <1>10. ASSUME NEW x \in RefreshTokens, NEW c \in Clients, NEW k \in Keys,
                 NEW now \in Captured,
                 FindRefreshToken(r, x, c, k, now)
        PROVE  NewMint(r)
    <2>1. req'[r] = [Idle EXCEPT !.pc = "grants.find", !.grant = refreshTokens[x].grantId,
                                 !.client = c, !.jkt = k, !.rt = x]
      BY <1>10 DEF FindRefreshToken, TypeOK
    <2>2. req'[r].pc = "grants.find" /\ req'[r].grant = refreshTokens[x].grantId
      BY <2>1 DEF Idle
    <2>3. refreshTokens[x] # Null /\ ~refreshTokens[x].revoked
      BY <1>10 DEF FindRefreshToken, RowsLinked, Refreshable
    <2>4. QED BY <2>2, <2>3 DEF NewMint
  <1>11. CASE FindGrantForCode(r)
    <2>1. req[r] \in Request /\ req[r].pc = "grants.find"
      BY <1>11 DEF FindGrantForCode, TypeOK
    <2>2. CASE grants[req[r].grant].revoked
      <3>1. req'[r].pc = "idle"
        BY <1>11, <2>2 DEF FindGrantForCode, Finish, TypeOK, Idle
      <3>2. QED BY <3>1 DEF NewMint, MintSteps
    <2>3. CASE ~grants[req[r].grant].revoked
      <3>1. req'[r] = [req[r] EXCEPT !.pc = "at.insert", !.subject = grants[req[r].grant].subject,
                                     !.scope = grants[req[r].grant].scope]
        BY <1>11, <2>3 DEF FindGrantForCode, TypeOK
      <3>2. req'[r].grant = req[r].grant
        BY <2>1, <3>1 DEF Request
      <3>3. QED BY <2>1, <2>3, <3>2 DEF NewMint, MintSteps
    <2>4. QED BY <2>2, <2>3
  <1>12. ASSUME NEW requested \in SUBSET Scopes,
                 FindGrantForRefresh(r, requested)
        PROVE  NewMint(r)
    <2>1. req[r] \in Request /\ req[r].pc = "grants.find"
      BY <1>12 DEF FindGrantForRefresh, TypeOK
    <2> DEFINE granted == refreshTokens[req[r].rt].scope
               stops == grants[req[r].grant].revoked \/ ~(requested \subseteq granted)
    <2>2. CASE stops
      <3>1. req'[r].pc = "idle"
        BY <1>12, <2>2 DEF FindGrantForRefresh, Finish, TypeOK, Idle
      <3>2. QED BY <3>1 DEF NewMint, MintSteps
    <2>3. CASE ~stops
      <3>1. req'[r] = [req[r] EXCEPT !.pc = "at.insert", !.subject = grants[req[r].grant].subject,
                                     !.scope = RequestedScope(requested, granted)]
        BY <1>12, <2>3 DEF FindGrantForRefresh, TypeOK
      <3>2. req'[r].grant = req[r].grant
        BY <2>1, <3>1 DEF Request
      <3>3. QED BY <2>1, <2>3, <3>2 DEF NewMint, MintSteps
    <2>4. QED BY <2>2, <2>3
  <1>13. ASSUME NEW a \in AccessTokens, NEW now \in Captured,
                 InsertAccessToken(r, a, now)
        PROVE  NewMint(r)
    <2>1. req[r] \in Request /\ req[r].pc = "at.insert"
      BY <1>13 DEF InsertAccessToken, TypeOK
    <2>2. CASE ~WithRefreshToken(r)
      <3>1. req'[r].pc = "idle"
        BY <1>13, <2>2 DEF InsertAccessToken, Finish, TypeOK, Idle
      <3>2. QED BY <3>1 DEF NewMint, MintSteps
    <2>3. CASE WithRefreshToken(r)
      <3>1. req'[r] = [req[r] EXCEPT !.pc = "rt.insert", !.at = a]
        BY <1>13, <2>3 DEF InsertAccessToken, TypeOK
      <3>2. req'[r].grant = req[r].grant
        BY <2>1, <3>1 DEF Request
      <3>3. QED BY <2>1, <3>2 DEF NewMint, MintSteps
    <2>4. QED BY <2>2, <2>3
  <1>14. ASSUME NEW x \in RefreshTokens, NEW now \in Captured,
                 InsertRefreshToken(r, x, now)
        PROVE  NewMint(r)
    BY <1>14 DEF InsertRefreshToken, NewMint, Finish, Goto, TypeOK, Idle, MintSteps
  <1>15. ASSUME NEW x \in RefreshTokens,
                 ResolveRefreshToken(r, x)
        PROVE  NewMint(r)
    BY <1>15 DEF ResolveRefreshToken, NewMint, Finish, Goto, TypeOK, Idle, MintSteps
  <1>16. ASSUME NEW a \in AccessTokens,
                 ResolveAccessToken(r, a) \/ MissAccessToken(r, a)
        PROVE  NewMint(r)
    <2>1. CASE ResolveAccessToken(r, a)
      BY <2>1 DEF ResolveAccessToken, NewMint, TypeOK, Idle, MintSteps
    <2>2. CASE MissAccessToken(r, a)
      BY <2>2 DEF MissAccessToken, NewMint, TypeOK, Idle, MintSteps
    <2>3. QED BY <1>16, <2>1, <2>2
  <1>17. CASE RevokeRefreshToken(r)
    BY <1>17 DEF RevokeRefreshToken, NewMint, Finish, Goto, TypeOK, Idle, MintSteps
  <1>18. CASE CascadeToAccessTokens(r)
    BY <1>18 DEF CascadeToAccessTokens, NewMint, Finish, Goto, TypeOK, Idle, MintSteps
  <1>19. CASE RevokeAccessToken(r)
    BY <1>19 DEF RevokeAccessToken, NewMint, Finish, Goto, TypeOK, Idle, MintSteps
  <1>20. CASE Abort(r) \/ AnswerUnknown(r)
    BY <1>20 DEF Abort, AnswerUnknown, NewMint, Finish, Goto, TypeOK, Idle, MintSteps
  <1>21. QED
    BY <1>1, <1>2, <1>3, <1>4, <1>5, <1>6, <1>7, <1>8, <1>9, <1>10, <1>11,
       <1>12, <1>13, <1>14, <1>15, <1>16, <1>17, <1>18, <1>19, <1>20
    DEF Step, Issue, Redeem, Mint, Revoke

\* The tokens of a grant stay the same unless the request that moves is about
\* to insert one of them.
LEMMA TokensOfStep ==
    ASSUME TypeOK, TypeOK', RowsPersist, NEW r \in Requests, NewRows(r), NEW g \in Grants,
           ~(req[r].grant = g /\ req[r].pc \in {"at.insert", "rt.insert"})
    PROVE  UNCHANGED TokensOf(g)
  <1>1. ASSUME NEW a \in AccessTokens
        PROVE  a \in Of(accessTokens, g) <=> a \in Of(accessTokens', g)
    BY DEF Of, TypeOK, RowsPersist, NewRows
  <1>2. ASSUME NEW x \in RefreshTokens
        PROVE  x \in Of(refreshTokens, g) <=> x \in Of(refreshTokens', g)
    BY DEF Of, TypeOK, RowsPersist, NewRows
  <1>3. /\ Of(accessTokens, g) \subseteq AccessTokens /\ Of(accessTokens', g) \subseteq AccessTokens
        /\ Of(refreshTokens, g) \subseteq RefreshTokens
        /\ Of(refreshTokens', g) \subseteq RefreshTokens
    BY DEF Of, TypeOK
  <1>4. Of(accessTokens, g) = Of(accessTokens', g) /\ Of(refreshTokens, g) = Of(refreshTokens', g)
    BY <1>1, <1>2, <1>3
  <1>5. QED BY <1>4 DEF TokensOf, Of

\* No step unseals a grant or gives it a token.
LEMMA SealedKept ==
    ASSUME LifecycleInv, [Next]_vars, NEW g \in Grants, Sealed(g)
    PROVE  Sealed(g)' /\ UNCHANGED TokensOf(g)
  <1>1. CASE Tick \/ UNCHANGED vars
    BY <1>1 DEF Tick, Sealed, TokensOf, Of, tables, vars
  <1>2. ASSUME NEW r \in Requests, Step(r)
        PROVE  Sealed(g)' /\ UNCHANGED TokensOf(g)
    <2>1. /\ TypeOK /\ TypeOK' /\ RowsLinked /\ RowsPersist
          /\ NewRows(r) /\ NewPosition(r)
      BY <1>2, StepFacts DEF LifecycleInv
    <2>2. NewMint(r)
      BY <1>2, <2>1, NewMintStep
    <2>3. grants'[g] # Null /\ grants'[g].revoked
      BY <2>1 DEF Sealed, RowsPersist
    <2>4. ASSUME NEW q \in Requests, req'[q].grant = g
          PROVE  req'[q].pc \notin {"at.insert", "rt.insert"}
      BY <2>1, <2>2, <2>4 DEF Sealed, NewPosition, NewMint
    <2>5. UNCHANGED TokensOf(g)
      BY <1>2, <2>1, TokensOfStep DEF Sealed
    <2>6. QED BY <2>3, <2>4, <2>5 DEF Sealed
  <1>3. QED BY <1>1, <1>2 DEF Next

\* Once a grant is revoked and no request is past its grants.find check, no
\* request ever mints a token of it.
THEOREM SealedStaysSealed == Spec => SealedForever
  <1>1. LifecycleInv /\ [Next]_vars =>
          [\A g \in Grants : Sealed(g) => Sealed(g)' /\ UNCHANGED TokensOf(g)]_vars
    BY SealedKept
  <1>2. QED BY <1>1, LifecycleInvariant, PTL DEF Spec, SealedForever

\* Once a code is spent, nothing of its grant is in flight and its refresh
\* tokens are revoked, no request ever mints a token of it.
THEOREM ExhaustedStaysExhausted == Spec => ExhaustedForever
  <1> DEFINE A == \A g \in Grants : Exhausted(g) => Exhausted(g)' /\ UNCHANGED TokensOf(g)
  <1>1. ASSUME LifecycleInv, [Next]_vars
        PROVE  [A]_vars
    <2>1. CASE UNCHANGED vars
      BY <2>1
    <2>2. CASE Tick
      BY <2>2 DEF Tick, Exhausted, Minting, TokensOf, Of, tables
    <2>3. ASSUME NEW r \in Requests, Step(r), NEW g \in Grants, Exhausted(g)
          PROVE  Exhausted(g)' /\ UNCHANGED TokensOf(g)
      <3>1. /\ TypeOK /\ TypeOK' /\ RowsLinked /\ RowsPersist
            /\ NewRows(r) /\ NewPosition(r)
        BY <1>1, <2>3, StepFacts DEF LifecycleInv
      <3>2. NewMint(r)
        BY <2>3, <3>1, NewMintStep
      <3>3. /\ codes[g] # Null /\ codes[g].consumed
            /\ \A q \in Requests : req[q].grant = g => req[q].pc \notin MintSteps
            /\ \A x \in Of(refreshTokens, g) : refreshTokens[x].revoked
        BY <2>3 DEF Exhausted, Minting
      <3>4. codes'[g] # Null /\ codes'[g].consumed
        BY <3>1, <3>3 DEF RowsPersist
      <3>5. ASSUME NEW q \in Requests, req'[q].grant = g, req'[q].pc \in MintSteps
            PROVE  FALSE
        <4>1. CASE q # r
          BY <3>1, <3>3, <3>5, <4>1 DEF NewPosition
        <4>2. CASE q = r
          <5>1. PICK x \in RefreshTokens : /\ refreshTokens[x] # Null
                                           /\ refreshTokens[x].grantId = g
                                           /\ ~refreshTokens[x].revoked
            BY <3>2, <3>3, <3>5, <4>2 DEF NewMint
          <5>2. x \in Of(refreshTokens, g)
            BY <3>1, <5>1 DEF Of, TypeOK
          <5>3. QED BY <3>3, <5>1, <5>2
        <4>3. QED BY <4>1, <4>2
      <3>6. UNCHANGED TokensOf(g)
        BY <3>1, <3>3, TokensOfStep DEF MintSteps
      <3>7. Of(refreshTokens', g) = Of(refreshTokens, g)
        BY <3>6 DEF TokensOf
      <3>8. ASSUME NEW x \in Of(refreshTokens, g)
            PROVE  refreshTokens'[x].revoked
        BY <3>1, <3>3 DEF RowsPersist, Of, TypeOK
      <3>9. QED BY <3>4, <3>5, <3>6, <3>7, <3>8 DEF Exhausted, Minting
    <2>4. QED BY <1>1, <2>1, <2>2, <2>3 DEF Next
  <1>2. QED BY <1>1, LifecycleInvariant, PTL DEF Spec, ExhaustedForever

=============================================================================
