--------------------------- MODULE CodeOnceProofs ---------------------------
(***************************************************************************)
(* TokenLifecycle implements OneTimeUse: an authorization code is claimed  *)
(* by one request, whose response delivers tokens or is lost with it.      *)
(*                                                                         *)
(* Beyond LifecycleInv the proof needs that nothing of a grant has reached *)
(* the client while the exchange of its code is in flight, and that a      *)
(* refresh token in use has (DeliveryInv).  A step is one of six kinds,    *)
(* named below, and each kind is a move of OneTimeUse or none.             *)
(***************************************************************************)
EXTENDS TokenLifecycleProofs

DeliveryInv ==
    /\ \A r \in Requests : req[r].pc \in MintSteps /\ req[r].rt # Null => req[r].rt \in sent
    /\ \A r \in Requests, g \in Grants : Exchanging(r, g) => DeliveredOf(g) = {}

\* The request's use of a refresh token, if it has one, is not new or the
\* token was delivered before.
Carries(r) ==
    req'[r].pc \in MintSteps /\ req'[r].rt # Null =>
        req'[r].rt \in sent \/ (req[r].pc \in MintSteps /\ req[r].rt = req'[r].rt)

\* The codes and what was sent stay, and the request is exchanging as before.
Quiet(r) ==
    /\ codes' = codes /\ sent' = sent /\ Carries(r)
    /\ \A g \in Grants : Exchanging(r, g)' <=> Exchanging(r, g)

\* The exchange ends without an answer.
Ends(r, g) == Exchanging(r, g) /\ req'[r] = Idle /\ codes' = codes /\ sent' = sent

\* An exchange or a refresh ends with tokens of g in its response.
Sends(r, g) ==
    /\ Minting(r, g) /\ req'[r] = Idle /\ codes' = codes /\ sent \subseteq sent'
    /\ \A x \in sent' \ sent : x \in Of(accessTokens', g) \cup Of(refreshTokens', g)
    /\ \E a \in AccessTokens : a \in sent' /\ a \in Of(accessTokens', g)

\* The code of g is stored; it is redeemed by a request that goes on; it is
\* redeemed by one that does not.
Makes(r, g) ==
    /\ codes[g] = Null /\ codes'[g] # Null /\ ~codes'[g].consumed
    /\ \A h \in Grants \ {g} : codes'[h] = codes[h]
    /\ sent' = sent /\ req[r].pc = "codes.insert" /\ req'[r] = Idle

Spends(g) ==
    /\ codes[g] # Null /\ ~codes[g].consumed /\ codes'[g] # Null /\ codes'[g].consumed
    /\ \A h \in Grants \ {g} : codes'[h] = codes[h]
    /\ sent' = sent

Claims(r, g) ==
    /\ Spends(g) /\ req[r] = Idle
    /\ req'[r].pc = "grants.find" /\ req'[r].grant = g /\ req'[r].rt = Null

Burns(r, g) == Spends(g) /\ req'[r] = req[r]

-----------------------------------------------------------------------------
\* A step that neither starts, ends nor follows an exchange.
LEMMA OutsideExchange ==
    ASSUME NEW r \in Requests, codes' = codes, sent' = sent, Carries(r),
           req[r].pc \notin MintSteps \/ req[r].rt # Null,
           req'[r].pc \notin MintSteps \/ req'[r].rt # Null
    PROVE  Quiet(r)
  BY DEF Quiet, Exchanging, Minting

\* The steps of issuance and redemption that keep the codes.
LEMMA RedeemKinds ==
    ASSUME TypeOK, NEW r \in Requests,
           \/ \E g \in Grants, c \in Clients, s \in Subjects, sc \in SUBSET Scopes : InsertGrant(r, g, c, s, sc)
           \/ \E g \in Grants, now \in Captured : RedeemMiss(r, g, now)
           \/ SelectConsumed(r) \/ RevokeGrant(r) \/ RevokeAccessTokensByGrant(r)
           \/ RevokeRefreshTokensByGrant(r)
    PROVE  Quiet(r)
  <1>a. req \in [Requests -> Request] /\ req[r] \in Request /\ Idle.pc = "idle" /\ "idle" \notin MintSteps
        /\ ReplaySteps \cap MintSteps = {} /\ "codes.insert" \notin MintSteps
    BY DEF TypeOK, Idle, MintSteps, ReplaySteps
  <1>1. CASE \E g \in Grants, c \in Clients, s \in Subjects, sc \in SUBSET Scopes : InsertGrant(r, g, c, s, sc)
    <2>1. codes' = codes /\ sent' = sent /\ req[r] = Idle /\ req'[r].pc = "codes.insert"
      BY <1>a, <1>1 DEF InsertGrant, replies, Idle
    <2>2. QED BY <1>a, <2>1, OutsideExchange DEF Carries
  <1>2. CASE \E g \in Grants, now \in Captured : RedeemMiss(r, g, now)
    <2>1. codes' = codes /\ sent' = sent /\ req[r] = Idle /\ req'[r].pc = "codes.select"
      BY <1>a, <1>2 DEF RedeemMiss, tables, replies, Idle
    <2>2. QED BY <1>a, <2>1, OutsideExchange DEF Carries, MintSteps
  <1>3. CASE SelectConsumed(r) \/ RevokeGrant(r) \/ RevokeAccessTokensByGrant(r) \/ RevokeRefreshTokensByGrant(r)
    <2>1. codes' = codes /\ sent' = sent /\ req[r].pc \in ReplaySteps
          /\ (Finish(r) \/ \E pc \in ReplaySteps : Goto(r, pc))
      BY <1>3 DEF SelectConsumed, RevokeGrant, RevokeAccessTokensByGrant, RevokeRefreshTokensByGrant,
                  tables, replies, ReplaySteps
    <2>2. req'[r].pc \in ReplaySteps \cup {"idle"}
      BY <1>a, <2>1 DEF Finish, Goto, Request
    <2>3. QED BY <1>a, <2>1, <2>2, OutsideExchange DEF Carries
  <1>4. QED BY <1>1, <1>2, <1>3

\* The steps of the revocation endpoint.
LEMMA RevokeKinds ==
    ASSUME TypeOK, NEW r \in Requests, Revoke(r)
    PROVE  Quiet(r)
  <1>a. req \in [Requests -> Request] /\ req[r] \in Request /\ Idle.pc = "idle" /\ "idle" \notin MintSteps
        /\ RevokeSteps \cap MintSteps = {}
    BY DEF TypeOK, Idle, MintSteps, RevokeSteps
  <1>1. codes' = codes /\ sent' = sent /\ req[r].pc \in RevokeSteps \cup {"idle"}
    BY <1>a DEF Revoke, ResolveRefreshToken, ResolveAccessToken, MissAccessToken, AnswerUnknown,
           RevokeRefreshToken, CascadeToAccessTokens, RevokeAccessToken, tables, replies, RevokeSteps
  <1>2. req'[r].pc \in RevokeSteps \cup {"idle"}
    <2>1. CASE \E x \in RefreshTokens : ResolveRefreshToken(r, x)
      BY <1>a, <2>1 DEF ResolveRefreshToken, Idle, RevokeSteps
    <2>2. CASE \E a \in AccessTokens : ResolveAccessToken(r, a)
      BY <1>a, <2>2 DEF ResolveAccessToken, Idle, RevokeSteps
    <2>3. CASE RevokeRefreshToken(r)
      BY <1>a, <2>3 DEF RevokeRefreshToken, Goto, Request, RevokeSteps
    <2>4. CASE CascadeToAccessTokens(r) \/ RevokeAccessToken(r) \/ AnswerUnknown(r)
      BY <1>a, <2>4 DEF CascadeToAccessTokens, RevokeAccessToken, AnswerUnknown, Finish
    <2>5. CASE \E a \in AccessTokens : MissAccessToken(r, a)
      BY <1>a, <2>5 DEF MissAccessToken, Idle, RevokeSteps
    <2>6. QED BY <2>1, <2>2, <2>3, <2>4, <2>5 DEF Revoke
  <1>3. QED BY <1>a, <1>1, <1>2, OutsideExchange DEF Carries

\* The token that issueTokenSet inserts is a row of the request's grant.
LEMMA AccessRowMade ==
    ASSUME TypeOK, RowsLinked, NEW r \in Requests, RequestHolds(r),
           NEW a \in AccessTokens, NEW now \in Captured, InsertAccessToken(r, a, now)
    PROVE  a \in Of(accessTokens', req[r].grant)
  <1> DEFINE row == [grantId |-> req[r].grant, clientId |-> req[r].client,
                     subject |-> req[r].subject, scope |-> req[r].scope, cnfJkt |-> req[r].jkt,
                     expiresAt |-> now + AccessTokenTtl, revoked |-> FALSE]
  <1>1. /\ req[r].grant \in Grants /\ req[r].client \in Clients /\ req[r].jkt \in Keys
        /\ req[r].subject \in Subjects /\ req[r].scope \in SUBSET Scopes
    BY MintFacts DEF InsertAccessToken, MintSteps
  <1>2. row \in AccessTokenRow /\ row.grantId = req[r].grant
    BY <1>1, ConstantsOK DEF AccessTokenRow, Captured
  <1>3. accessTokens' = [accessTokens EXCEPT ![a] = row] /\ accessTokens \in [AccessTokens -> AccessTokenRow \cup {Null}]
    BY DEF InsertAccessToken, TypeOK
  <1> HIDE DEF row
  <1>4. QED BY <1>2, <1>3, NullIsNoRow DEF Of

\* So is the refresh token.
LEMMA RefreshRowMade ==
    ASSUME TypeOK, RowsLinked, NEW r \in Requests, RequestHolds(r),
           NEW x \in RefreshTokens, NEW now \in Captured, InsertRefreshToken(r, x, now)
    PROVE  x \in Of(refreshTokens', req[r].grant)
  <1> DEFINE row == [grantId |-> req[r].grant, clientId |-> req[r].client, scope |-> req[r].scope,
                     expiresAt |-> now + RefreshTokenTtl, revoked |-> FALSE]
  <1>1. /\ req[r].grant \in Grants /\ req[r].client \in Clients /\ req[r].scope \in SUBSET Scopes
    BY MintFacts DEF InsertRefreshToken, MintSteps
  <1>2. row \in RefreshTokenRow /\ row.grantId = req[r].grant
    BY <1>1, ConstantsOK DEF RefreshTokenRow, Captured
  <1>3. refreshTokens' = [refreshTokens EXCEPT ![x] = row] /\ refreshTokens \in [RefreshTokens -> RefreshTokenRow \cup {Null}]
    BY DEF InsertRefreshToken, TypeOK
  <1> HIDE DEF row
  <1>4. QED BY <1>2, <1>3, NullIsNoRow DEF Of

\* The steps of the token endpoint past its credential check.
LEMMA MintKinds ==
    ASSUME LifecycleInv, TypeOK', NEW r \in Requests, Mint(r)
    PROVE  Quiet(r) \/ \E g \in Grants : Ends(r, g) \/ Sends(r, g)
  <1>a. /\ TypeOK /\ req \in [Requests -> Request] /\ req[r] \in Request /\ RequestHolds(r)
        /\ Idle.pc = "idle" /\ "idle" \notin MintSteps /\ RowsLinked
        /\ {"grants.find", "at.insert", "rt.insert"} = MintSteps
    BY DEF LifecycleInv, TypeOK, Idle, MintSteps
  <1>b. req[r].pc \in MintSteps => req[r].grant \in Grants
    BY <1>a DEF RequestHolds
  <1>1. ASSUME NEW x \in RefreshTokens, NEW c \in Clients, NEW k \in Keys, NEW now \in Captured,
               FindRefreshToken(r, x, c, k, now)
        PROVE  Quiet(r)
    <2>1. codes' = codes /\ sent' = sent /\ req[r] = Idle /\ req'[r].rt = x /\ x \in sent
      BY <1>a, <1>1 DEF FindRefreshToken, tables, replies, Idle
    <2>2. x # Null
      BY ConstantsOK
    <2>3. QED BY <1>a, <2>1, <2>2, OutsideExchange DEF Carries
  <1>2. CASE FindGrantForCode(r)
    <2>1. codes' = codes /\ sent' = sent /\ req[r].pc = "grants.find" /\ req[r].rt = Null
      BY <1>2 DEF FindGrantForCode, tables, replies
    <2>2. CASE Finish(r)
      <3>1. req'[r] = Idle /\ Exchanging(r, req[r].grant)
        BY <1>a, <2>1, <2>2 DEF Finish, Exchanging, Minting
      <3>2. QED BY <1>a, <1>b, <2>1, <3>1 DEF Ends
    <2>3. CASE ~Finish(r)
      <3>0. req'[r] = [req[r] EXCEPT !.pc = "at.insert", !.subject = grants[req[r].grant].subject,
                                     !.scope = grants[req[r].grant].scope]
        BY <1>2, <1>a, <2>3 DEF FindGrantForCode
      <3>1. req'[r].pc = "at.insert" /\ req'[r].grant = req[r].grant /\ req'[r].rt = Null
        BY <1>a, <2>1, <3>0 DEF Request
      <3>2. QED BY <1>a, <2>1, <3>1 DEF Quiet, Carries, Exchanging, Minting
    <2>4. QED BY <2>2, <2>3
  <1>3. ASSUME NEW requested \in SUBSET Scopes, FindGrantForRefresh(r, requested)
        PROVE  Quiet(r)
    <2>1. codes' = codes /\ sent' = sent /\ req[r].rt # Null
      BY <1>3 DEF FindGrantForRefresh, tables, replies
    <2>2. CASE Finish(r)
      BY <1>a, <2>1, <2>2, OutsideExchange DEF Carries, Finish
    <2>3. CASE ~Finish(r)
      <3>0. req[r].pc = "grants.find"
            /\ req'[r] = [req[r] EXCEPT !.pc = "at.insert", !.subject = grants[req[r].grant].subject,
                              !.scope = RequestedScope(requested, refreshTokens[req[r].rt].scope)]
        BY <1>3, <1>a, <2>3 DEF FindGrantForRefresh
      <3>1. req'[r].rt = req[r].rt
        BY <1>a, <3>0 DEF Request
      <3>2. QED BY <1>a, <2>1, <3>0, <3>1, OutsideExchange DEF Carries
    <2>4. QED BY <2>2, <2>3
  <1>4. ASSUME NEW a \in AccessTokens, NEW now \in Captured, InsertAccessToken(r, a, now)
        PROVE  Quiet(r) \/ \E g \in Grants : Sends(r, g)
    <2>1. codes' = codes /\ req[r].pc = "at.insert" /\ req[r].grant \in Grants
      BY <1>4, <1>a, <1>b DEF InsertAccessToken
    <2>2. CASE WithRefreshToken(r)
      <3>0. sent' = sent /\ req[r].rt = Null /\ req'[r] = [req[r] EXCEPT !.pc = "rt.insert", !.at = a]
        BY <1>4, <1>a, <2>2 DEF InsertAccessToken, WithRefreshToken
      <3>1. sent' = sent /\ req[r].rt = Null /\ req'[r].pc = "rt.insert"
            /\ req'[r].grant = req[r].grant /\ req'[r].rt = req[r].rt
        BY <1>a, <3>0 DEF Request
      <3>2. QED BY <1>a, <2>1, <3>1 DEF Quiet, Carries, Exchanging, Minting
    <2>3. CASE ~WithRefreshToken(r)
      <3>1. PICK g \in Grants : g = req[r].grant
        BY <2>1
      <3>2. sent' = sent \cup {a} /\ Minting(r, g) /\ req'[r] = Idle
        BY <1>4, <1>a, <2>1, <2>3, <3>1 DEF InsertAccessToken, Finish, Minting
      <3>4. a \in Of(accessTokens', g)
        BY <1>4, <1>a, <3>1, AccessRowMade
      <3>5. QED BY <2>1, <3>2, <3>4 DEF Sends
    <2>4. QED BY <2>2, <2>3
  <1>5. ASSUME NEW x \in RefreshTokens, NEW now \in Captured, InsertRefreshToken(r, x, now)
        PROVE  \E g \in Grants : Sends(r, g)
    <2>1. PICK g \in Grants : g = req[r].grant /\ req[r].pc = "rt.insert"
      BY <1>5, <1>a, <1>b DEF InsertRefreshToken
    <2>2. /\ codes' = codes /\ sent' = sent \cup {req[r].at, x} /\ Minting(r, g) /\ req'[r] = Idle
          /\ accessTokens' = accessTokens
      BY <1>5, <1>a, <2>1 DEF InsertRefreshToken, Finish, Minting
    <2>3. req[r].at \in Of(accessTokens', g) /\ req[r].at \in AccessTokens
      BY <1>a, <2>1, <2>2 DEF RequestHolds, Of, TypeOK
    <2>6. x \in Of(refreshTokens', g)
      BY <1>5, <1>a, <2>1, RefreshRowMade
    <2>7. QED BY <2>2, <2>3, <2>6 DEF Sends
  <1>6. QED BY <1>1, <1>2, <1>3, <1>4, <1>5 DEF Mint

\* Code issuance, the redeeming UPDATE and a death: the steps that touch a code.
LEMMA CodeKinds ==
    ASSUME LifecycleInv, TypeOK', NEW r \in Requests, Step(r), ~Mint(r), ~Revoke(r)
    PROVE  \/ Quiet(r)
           \/ \E g \in Grants : Ends(r, g) \/ Makes(r, g) \/ Claims(r, g) \/ Burns(r, g)
  <1>a. /\ TypeOK /\ req \in [Requests -> Request] /\ req[r] \in Request /\ RequestHolds(r)
        /\ Idle.pc = "idle" /\ "idle" \notin MintSteps /\ RowsLinked
        /\ codes \in [Grants -> CodeRow \cup {Null}] /\ Null \notin CodeRow
    BY NullIsNoRow DEF LifecycleInv, TypeOK, Idle, MintSteps
  <1>1. ASSUME NEW u \in RedirectUris, NEW v \in Verifiers, NEW k \in Keys \cup {Null},
               NEW now \in Captured, InsertCode(r, u, v, k, now)
        PROVE  \E g \in Grants : Makes(r, g)
    <2>1. req[r].grant \in Grants /\ codes[req[r].grant] = Null /\ grants[req[r].grant] # Null
          /\ req[r].client = grants[req[r].grant].clientId
      BY <1>1, <1>a DEF InsertCode, RequestHolds
    <2>2. PICK g \in Grants : g = req[r].grant
      BY <2>1
    <2> DEFINE row == [clientId |-> req[r].client, redirectUri |-> u, codeChallenge |-> S256(v),
                       dpopJkt |-> k, expiresAt |-> now + AuthCodeTtl, consumed |-> FALSE]
    <2>3. req[r].client \in Clients
      BY <1>a, <2>1 DEF TypeOK, GrantRow
    <2>4. row \in CodeRow /\ ~row.consumed
      BY <2>3, ConstantsOK DEF CodeRow, Captured
    <2>5. codes' = [codes EXCEPT ![g] = row] /\ sent' = sent /\ req[r].pc = "codes.insert" /\ req'[r] = Idle
      BY <1>1, <1>a, <2>2 DEF InsertCode, Finish, replies
    <2> HIDE DEF row
    <2>6. QED BY <1>a, <2>1, <2>2, <2>4, <2>5 DEF Makes
  <1>2. ASSUME NEW g \in Grants, NEW now, codes[g] # Null, Redeemable(codes[g], now), sent' = sent,
               codes' = [codes EXCEPT ![g].consumed = TRUE]
        PROVE  Spends(g)
    <2> DEFINE row == [codes[g] EXCEPT !.consumed = TRUE]
    <2>1. row \in CodeRow /\ row.consumed /\ ~codes[g].consumed
      BY <1>2, <1>a DEF CodeRow, Redeemable
    <2>2. codes' = [codes EXCEPT ![g] = row]
      BY <1>2
    <2> HIDE DEF row
    <2>3. QED BY <1>2, <1>a, <2>1, <2>2 DEF Spends
  <1>3. ASSUME NEW g \in Grants, NEW c \in Clients, NEW u \in RedirectUris, NEW v \in Verifiers,
               NEW k \in Keys, NEW now \in Captured, RedeemOk(r, g, c, u, v, k, now)
        PROVE  Claims(r, g)
    <2>1. Spends(g)
      BY <1>2, <1>3 DEF RedeemOk, replies
    <2>2. req'[r] = [Idle EXCEPT !.pc = "grants.find", !.grant = g, !.client = c, !.jkt = k] /\ req[r] = Idle
      BY <1>3, <1>a DEF RedeemOk
    <2>3. req'[r].pc = "grants.find" /\ req'[r].grant = g /\ req'[r].rt = Null
      BY <2>2 DEF Idle
    <2>4. QED BY <2>1, <2>2, <2>3 DEF Claims
  <1>4. ASSUME NEW g \in Grants, NEW c \in Clients, NEW u \in RedirectUris, NEW v \in Verifiers,
               NEW k \in Keys, NEW now \in Captured, RedeemBurned(r, g, c, u, v, k, now)
        PROVE  Burns(r, g)
    <2>1. Spends(g) /\ req' = req
      BY <1>2, <1>4 DEF RedeemBurned, replies
    <2>2. QED BY <2>1 DEF Burns
  <1>5. CASE Abort(r)
    <2>1. codes' = codes /\ sent' = sent /\ req'[r] = Idle
      BY <1>5, <1>a DEF Abort, Finish, tables, replies
    <2>2. CASE req[r].pc \in MintSteps /\ req[r].rt = Null
      <3>1. PICK g \in Grants : g = req[r].grant
        BY <1>a, <2>2 DEF RequestHolds
      <3>2. Ends(r, g)
        BY <2>1, <2>2, <3>1 DEF Ends, Exchanging, Minting
      <3>3. QED BY <3>2
    <2>3. CASE req[r].pc \notin MintSteps \/ req[r].rt # Null
      BY <1>a, <2>1, <2>3, OutsideExchange DEF Carries
    <2>4. QED BY <2>2, <2>3
  <1>6. QED BY <1>1, <1>3, <1>4, <1>5, RedeemKinds, <1>a DEF Step, Issue, Redeem

-----------------------------------------------------------------------------
(* What a step does to the tokens delivered and to the status of a code.   *)

\* What was delivered of a grant stays delivered, and more only with a response.
LEMMA DeliveredStays ==
    ASSUME LifecycleInv, TypeOK', RowsPersist, sent \subseteq sent', NEW g \in Grants,
           \A x \in sent' \ sent : x \notin Of(accessTokens', g) \cup Of(refreshTokens', g)
    PROVE  DeliveredOf(g)' = DeliveredOf(g)
  <1>a. /\ TypeOK /\ TypeOK' /\ sent \subseteq AccessTokens \cup RefreshTokens
        /\ \A a \in AccessTokens \cap sent : accessTokens[a] # Null
        /\ \A x \in RefreshTokens \cap sent : refreshTokens[x] # Null
    BY DEF LifecycleInv, RowsLinked, TypeOK
  <1>1. ASSUME NEW a \in AccessTokens \cap sent
        PROVE  a \in Of(accessTokens', g) <=> a \in Of(accessTokens, g)
    BY <1>a DEF RowsPersist, Of, TypeOK
  <1>2. ASSUME NEW x \in RefreshTokens \cap sent
        PROVE  x \in Of(refreshTokens', g) <=> x \in Of(refreshTokens, g)
    BY <1>a DEF RowsPersist, Of, TypeOK
  <1>3. /\ Of(accessTokens, g) \subseteq AccessTokens /\ Of(accessTokens', g) \subseteq AccessTokens
        /\ Of(refreshTokens, g) \subseteq RefreshTokens /\ Of(refreshTokens', g) \subseteq RefreshTokens
    BY <1>a DEF Of, TypeOK
  <1>4. \A x : x \in sent' /\ x \in Of(accessTokens', g) \cup Of(refreshTokens', g)
               <=> x \in sent /\ x \in Of(accessTokens, g) \cup Of(refreshTokens, g)
    BY <1>1, <1>2, <1>3
  <1>5. QED BY <1>4 DEF DeliveredOf, Of

\* A status is a function of the code's row, of who exchanges it and of whether
\* anything was delivered.
LEMMA StatusStays ==
    ASSUME NEW g \in Grants, codes'[g] = codes[g],
           (\E r \in Requests : Exchanging(r, g)') <=> \E r \in Requests : Exchanging(r, g),
           DeliveredOf(g)' = DeliveredOf(g)
    PROVE  CodeStatus(g)' = CodeStatus(g)
  BY DEF CodeStatus

CodeLives == [g \in Grants |-> CodeStatus(g)]

\* One code moves on and the others stay.
LEMMA OneCodeMoves ==
    ASSUME NEW g \in Grants, NEW from, NEW to, CodeStatus(g) = from, CodeStatus(g)' = to,
           \A h \in Grants \ {g} : CodeStatus(h)' = CodeStatus(h)
    PROVE  CodeLives[g] = from /\ CodeLives' = [CodeLives EXCEPT ![g] = to]
  BY DEF CodeLives

\* Nothing of a code that is not consumed was delivered or is being exchanged.
LEMMA FreshCode ==
    ASSUME LifecycleInv, NEW g \in Grants, codes[g] = Null \/ ~codes[g].consumed
    PROVE  DeliveredOf(g) = {} /\ \A r \in Requests : ~Exchanging(r, g)
  <1>1. Of(accessTokens, g) = {} /\ Of(refreshTokens, g) = {}
    BY DEF LifecycleInv, TokensMatchGrant, RowsLinked, TypeOK, Of
  <1>2. ASSUME NEW r \in Requests PROVE ~Exchanging(r, g)
    BY DEF LifecycleInv, RequestHolds, Exchanging, Minting
  <1>3. QED BY <1>1, <1>2 DEF DeliveredOf

\* Who exchanges which code, when one request moves.
LEMMA OthersExchange ==
    ASSUME NEW r \in Requests, \A q \in Requests : q # r => req'[q] = req[q],
           NEW q \in Requests, q # r, NEW g
    PROVE  Exchanging(q, g)' <=> Exchanging(q, g)
  BY DEF Exchanging, Minting

\* A request that ends exchanges nothing.
LEMMA IdleExchanges ==
    ASSUME NEW r \in Requests, NEW g, req'[r] = Idle
    PROVE  ~Exchanging(r, g)'
  BY DEF Exchanging, Minting, Idle, MintSteps

\* A response with tokens of g says nothing of another grant.
LEMMA SendsOther ==
    ASSUME LifecycleInv, TypeOK', NEW r \in Requests, NEW g \in Grants, Sends(r, g),
           NEW h \in Grants \ {g}
    PROVE  \A x \in sent' \ sent : x \notin Of(accessTokens', h) \cup Of(refreshTokens', h)
  <1>1. AccessTokens \cap RefreshTokens = {}
    BY ConstantsOK
  <1>2. \A x \in sent' \ sent : x \in Of(accessTokens', g) \cup Of(refreshTokens', g)
    BY DEF Sends
  <1>3. Of(accessTokens', h) \cap Of(accessTokens', g) = {} /\ Of(refreshTokens', h) \cap Of(refreshTokens', g) = {}
    BY DEF Of
  <1>4. /\ Of(accessTokens', g) \subseteq AccessTokens /\ Of(accessTokens', h) \subseteq AccessTokens
        /\ Of(refreshTokens', g) \subseteq RefreshTokens /\ Of(refreshTokens', h) \subseteq RefreshTokens
    BY DEF Of, TypeOK
  <1>5. QED BY <1>1, <1>2, <1>3, <1>4

\* The six kinds of step, for a request that moves alone.
Kinds(r) ==
    \/ Quiet(r)
    \/ \E g \in Grants : Ends(r, g) \/ Sends(r, g) \/ Makes(r, g) \/ Claims(r, g) \/ Burns(r, g)

LEMMA StepKinds ==
    ASSUME LifecycleInv, NEW r \in Requests, Step(r)
    PROVE  /\ Kinds(r) /\ TypeOK' /\ RowsPersist
           /\ \A q \in Requests : q # r => req'[q] = req[q]
  <1>1. TypeOK' /\ RowsPersist /\ NewPosition(r)
    BY StepFacts
  <1>2. Kinds(r)
    BY <1>1, MintKinds, RevokeKinds, CodeKinds DEF Kinds, LifecycleInv
  <1>3. QED BY <1>1, <1>2 DEF NewPosition


\* While a code is being exchanged nothing of its grant has been delivered, and
\* a refresh uses a delivered refresh token.
LEMMA DeliveryStep ==
    ASSUME LifecycleInv, LifecycleInv', DeliveryInv, [Next]_vars
    PROVE  DeliveryInv'
  <1>1. CASE Tick \/ UNCHANGED vars
    BY <1>1 DEF Tick, vars, tables, replies, DeliveryInv, Exchanging, Minting, DeliveredOf, Of
  <1>2. ASSUME NEW r \in Requests, Step(r)
        PROVE  DeliveryInv'
    <2>a. /\ Kinds(r) /\ TypeOK' /\ RowsPersist
          /\ \A q \in Requests : q # r => req'[q] = req[q]
      BY <1>2, StepKinds
    <2>b. /\ Idle.pc = "idle" /\ Idle.rt = Null /\ "idle" \notin MintSteps
          /\ \A q \in Requests : req[q].pc \in MintSteps /\ req[q].rt # Null => req[q].rt \in sent
          /\ \A q \in Requests, g \in Grants : Exchanging(q, g) => DeliveredOf(g) = {}
      BY DEF Idle, MintSteps, DeliveryInv
    <2>1. CASE Quiet(r)
      <3>1. \A g \in Grants : DeliveredOf(g)' = DeliveredOf(g)
        BY <2>a, <2>1, DeliveredStays DEF Quiet
      <3>2. \A q \in Requests, g \in Grants : Exchanging(q, g)' <=> Exchanging(q, g)
        BY <2>a, <2>1, OthersExchange DEF Quiet
      <3>3. \A q \in Requests : req'[q].pc \in MintSteps /\ req'[q].rt # Null => req'[q].rt \in sent'
        BY <2>a, <2>b, <2>1 DEF Quiet, Carries
      <3>4. QED BY <2>b, <3>1, <3>2, <3>3 DEF DeliveryInv
    <2>2. ASSUME NEW g \in Grants, Ends(r, g) \/ Makes(r, g)
          PROVE  DeliveryInv'
      <3>1. req'[r] = Idle /\ sent' = sent
        BY <2>2 DEF Ends, Makes
      <3>2. \A h \in Grants : DeliveredOf(h)' = DeliveredOf(h)
        BY <2>a, <3>1, DeliveredStays
      <3>3. \A q \in Requests, h \in Grants : Exchanging(q, h)' => Exchanging(q, h)
        BY <2>a, <3>1, OthersExchange, IdleExchanges
      <3>4. QED BY <2>a, <2>b, <3>1, <3>2, <3>3 DEF DeliveryInv
    <2>3. ASSUME NEW g \in Grants, Sends(r, g)
          PROVE  DeliveryInv'
      <3>1. req'[r] = Idle /\ sent \subseteq sent'
        BY <2>3 DEF Sends
      <3>2. \A h \in Grants \ {g} : DeliveredOf(h)' = DeliveredOf(h)
        BY <2>a, <2>3, <3>1, SendsOther, DeliveredStays
      <3>3. \A q \in Requests, h \in Grants : Exchanging(q, h)' => Exchanging(q, h) /\ q # r
        BY <2>a, <3>1, OthersExchange, IdleExchanges
      <3>4. \A q \in Requests : ~Exchanging(q, g)'
        <4>1. CASE req[r].rt = Null
          BY <2>3, <3>3, <4>1 DEF Sends, Exchanging, LifecycleInv, SingleExchange
        <4>2. CASE req[r].rt # Null
          <5>1. req[r].rt \in Of(refreshTokens, g)
            BY <2>3, <4>2 DEF Sends, Minting, LifecycleInv, RequestHolds
          <5>2. QED BY <3>3, <5>1 DEF LifecycleInv, SingleExchange
        <4>3. QED BY <4>1, <4>2
      <3>5. QED BY <2>a, <2>b, <3>1, <3>2, <3>3, <3>4 DEF DeliveryInv
    <2>4. ASSUME NEW g \in Grants, Claims(r, g)
          PROVE  DeliveryInv'
      <3>1. sent' = sent /\ req'[r].rt = Null
        BY <2>4 DEF Claims, Spends
      <3>2. \A h \in Grants : DeliveredOf(h)' = DeliveredOf(h)
        BY <2>a, <3>1, DeliveredStays
      <3>3. DeliveredOf(g) = {}
        BY <2>4, FreshCode DEF Claims, Spends
      <3>4. \A q \in Requests, h \in Grants \ {g} : Exchanging(q, h)' => Exchanging(q, h)
        BY <2>a, <2>4, OthersExchange DEF Claims, Exchanging, Minting
      <3>5. QED BY <2>a, <2>b, <3>1, <3>2, <3>3, <3>4 DEF DeliveryInv
    <2>5. ASSUME NEW g \in Grants, Burns(r, g)
          PROVE  DeliveryInv'
      <3>1. sent' = sent /\ \A q \in Requests : req'[q] = req[q]
        BY <2>a, <2>5 DEF Burns, Spends
      <3>2. \A h \in Grants : DeliveredOf(h)' = DeliveredOf(h)
        BY <2>a, <3>1, DeliveredStays
      <3>3. QED BY <2>b, <3>1, <3>2 DEF DeliveryInv, Exchanging, Minting
    <2>6. QED BY <2>a, <2>1, <2>2, <2>3, <2>4, <2>5 DEF Kinds
  <1>3. QED BY <1>1, <1>2 DEF Next

\* Every step of the lifecycle is a step of OneTimeUse, or none.
LEMMA CodeRefines ==
    ASSUME LifecycleInv, LifecycleInv', DeliveryInv, [Next]_vars
    PROVE  CodeUse!Next \/ CodeLives' = CodeLives
  <1>1. CASE Tick \/ UNCHANGED vars
    <2>1. codes' = codes /\ req' = req /\ sent' = sent /\ accessTokens' = accessTokens
          /\ refreshTokens' = refreshTokens
      BY <1>1 DEF Tick, vars, tables, replies
    <2>2. \A g \in Grants : CodeStatus(g)' = CodeStatus(g)
      BY <2>1 DEF CodeStatus, Exchanging, Minting, DeliveredOf, Of
    <2>3. QED BY <2>2 DEF CodeLives
  <1>2. ASSUME NEW r \in Requests, Step(r)
        PROVE  CodeUse!Next \/ CodeLives' = CodeLives
    <2>a. /\ Kinds(r) /\ TypeOK' /\ RowsPersist
          /\ \A q \in Requests : q # r => req'[q] = req[q]
      BY <1>2, StepKinds
    <2>1. CASE Quiet(r)
      <3>1. \A g \in Grants : DeliveredOf(g)' = DeliveredOf(g)
        BY <2>a, <2>1, DeliveredStays DEF Quiet
      <3>2. \A q \in Requests, g \in Grants : Exchanging(q, g)' <=> Exchanging(q, g)
        BY <2>a, <2>1, OthersExchange DEF Quiet
      <3>3. \A g \in Grants : CodeStatus(g)' = CodeStatus(g)
        BY <2>1, <3>1, <3>2, StatusStays DEF Quiet
      <3>4. QED BY <3>3 DEF CodeLives
    <2>2. ASSUME NEW g \in Grants, Ends(r, g)
          PROVE  CodeUse!Next
      <3>1. req'[r] = Idle /\ sent' = sent /\ codes' = codes /\ Exchanging(r, g)
        BY <2>2 DEF Ends
      <3>2. \A h \in Grants : DeliveredOf(h)' = DeliveredOf(h)
        BY <2>a, <3>1, DeliveredStays
      <3>3. \A q \in Requests, h \in Grants : Exchanging(q, h)' <=> Exchanging(q, h) /\ q # r
        BY <2>a, <3>1, OthersExchange, IdleExchanges
      <3>4. \A h \in Grants \ {g} : ~Exchanging(r, h)
        BY <3>1 DEF Exchanging, Minting
      <3>5. \A h \in Grants \ {g} : CodeStatus(h)' = CodeStatus(h)
        BY <3>1, <3>2, <3>3, <3>4, StatusStays
      <3>6. codes[g] # Null /\ codes[g].consumed /\ DeliveredOf(g) = {}
            /\ \A q \in Requests : Exchanging(q, g) => q = r
        BY <3>1 DEF DeliveryInv, LifecycleInv, SingleExchange, RequestHolds, Exchanging, Minting
      <3>7. CodeStatus(g) = "claimed"
        BY <3>1, <3>6 DEF CodeStatus
      <3>8. CodeStatus(g)' = "spent"
        BY <3>1, <3>2, <3>3, <3>6 DEF CodeStatus
      <3>9. QED BY <3>5, <3>7, <3>8, OneCodeMoves DEF CodeUse!Next, CodeUse!Lose, CodeUse!Move, CodeLives
    <2>3. ASSUME NEW g \in Grants, Sends(r, g)
          PROVE  CodeUse!Next \/ CodeLives' = CodeLives
      <3>1. req'[r] = Idle /\ sent \subseteq sent' /\ codes' = codes /\ Minting(r, g)
        BY <2>3 DEF Sends
      <3>2. \A h \in Grants \ {g} : DeliveredOf(h)' = DeliveredOf(h)
        BY <2>a, <2>3, <3>1, SendsOther, DeliveredStays
      <3>3. \A q \in Requests, h \in Grants : Exchanging(q, h)' <=> Exchanging(q, h) /\ q # r
        BY <2>a, <3>1, OthersExchange, IdleExchanges
      <3>4. \A h \in Grants \ {g} : ~Exchanging(r, h)
        BY <3>1 DEF Exchanging, Minting
      <3>5. \A h \in Grants \ {g} : CodeStatus(h)' = CodeStatus(h)
        BY <3>1, <3>2, <3>3, <3>4, StatusStays
      <3>6. codes[g] # Null /\ codes[g].consumed
        BY <3>1 DEF LifecycleInv, RequestHolds, Minting
      <3>7. DeliveredOf(g)' # {}
        BY <2>3 DEF Sends, DeliveredOf
      <3>8. CASE req[r].rt = Null
        <4>1. Exchanging(r, g) /\ \A q \in Requests : Exchanging(q, g) => q = r
          BY <3>1, <3>8 DEF Exchanging, LifecycleInv, SingleExchange
        <4>2. CodeStatus(g) = "claimed"
          BY <3>6, <4>1 DEF CodeStatus
        <4>3. CodeStatus(g)' = "delivered"
          BY <3>1, <3>3, <3>6, <3>7, <4>1 DEF CodeStatus
        <4>4. QED BY <3>5, <4>2, <4>3, OneCodeMoves
                  DEF CodeUse!Next, CodeUse!Deliver, CodeUse!Move, CodeLives
      <3>9. CASE req[r].rt # Null
        <4>1. req[r].rt \in Of(refreshTokens, g) /\ req[r].rt \in sent
          BY <3>1, <3>9 DEF Minting, LifecycleInv, RequestHolds, DeliveryInv
        <4>2. \A q \in Requests : ~Exchanging(q, g)
          BY <4>1 DEF LifecycleInv, SingleExchange
        <4>3. DeliveredOf(g) # {}
          BY <4>1 DEF DeliveredOf
        <4>4. CodeStatus(g) = "delivered" /\ CodeStatus(g)' = "delivered"
          BY <3>1, <3>3, <3>6, <3>7, <4>2, <4>3 DEF CodeStatus
        <4>5. QED BY <3>5, <4>4 DEF CodeLives
      <3>10. QED BY <3>8, <3>9
    <2>4. ASSUME NEW g \in Grants, Makes(r, g)
          PROVE  CodeUse!Next
      <3>1. req'[r] = Idle /\ sent' = sent /\ ~\E h \in Grants : Exchanging(r, h)
        BY <2>4 DEF Makes, Exchanging, Minting, MintSteps
      <3>2. \A h \in Grants : DeliveredOf(h)' = DeliveredOf(h)
        BY <2>a, <3>1, DeliveredStays
      <3>3. \A q \in Requests, h \in Grants : Exchanging(q, h)' <=> Exchanging(q, h)
        BY <2>a, <3>1, OthersExchange, IdleExchanges
      <3>4. \A h \in Grants \ {g} : CodeStatus(h)' = CodeStatus(h)
        BY <2>4, <3>2, <3>3, StatusStays DEF Makes
      <3>5. CodeStatus(g) = "none" /\ CodeStatus(g)' = "usable"
        BY <2>4 DEF Makes, CodeStatus
      <3>6. QED BY <3>4, <3>5, OneCodeMoves DEF CodeUse!Next, CodeUse!Offer, CodeUse!Move, CodeLives
    <2>5. ASSUME NEW g \in Grants, Claims(r, g)
          PROVE  CodeUse!Next
      <3>1. sent' = sent /\ Exchanging(r, g)' /\ ~\E h \in Grants : Exchanging(r, h)
        BY <2>5 DEF Claims, Spends, Exchanging, Minting, MintSteps, Idle
      <3>2. \A h \in Grants : DeliveredOf(h)' = DeliveredOf(h)
        BY <2>a, <3>1, DeliveredStays
      <3>3. \A q \in Requests, h \in Grants \ {g} : Exchanging(q, h)' <=> Exchanging(q, h)
        BY <2>a, <2>5, <3>1, OthersExchange DEF Claims, Exchanging, Minting
      <3>4. \A h \in Grants \ {g} : CodeStatus(h)' = CodeStatus(h)
        BY <2>5, <3>2, <3>3, StatusStays DEF Claims, Spends
      <3>5. CodeStatus(g) = "usable" /\ CodeStatus(g)' = "claimed"
        BY <2>5, <3>1 DEF Claims, Spends, CodeStatus
      <3>6. QED BY <3>4, <3>5, OneCodeMoves DEF CodeUse!Next, CodeUse!Claim, CodeUse!Move, CodeLives
    <2>6. ASSUME NEW g \in Grants, Burns(r, g)
          PROVE  CodeUse!Next
      <3>1. sent' = sent /\ \A q \in Requests : req'[q] = req[q]
        BY <2>a, <2>6 DEF Burns, Spends
      <3>2. \A h \in Grants : DeliveredOf(h)' = DeliveredOf(h)
        BY <2>a, <3>1, DeliveredStays
      <3>3. \A q \in Requests, h \in Grants : Exchanging(q, h)' <=> Exchanging(q, h)
        BY <3>1 DEF Exchanging, Minting
      <3>4. \A h \in Grants \ {g} : CodeStatus(h)' = CodeStatus(h)
        BY <2>6, <3>2, <3>3, StatusStays DEF Burns, Spends
      <3>5. DeliveredOf(g) = {} /\ \A q \in Requests : ~Exchanging(q, g)
        BY <2>6, FreshCode DEF Burns, Spends
      <3>6. CodeStatus(g) = "usable" /\ CodeStatus(g)' = "spent"
        BY <2>6, <3>2, <3>3, <3>5 DEF Burns, Spends, CodeStatus
      <3>7. QED BY <3>4, <3>6, OneCodeMoves DEF CodeUse!Next, CodeUse!Withdraw, CodeUse!Move, CodeLives
    <2>7. QED BY <2>a, <2>1, <2>2, <2>3, <2>4, <2>5, <2>6 DEF Kinds
  <1>3. QED BY <1>1, <1>2 DEF Next

\* The token endpoint's storage calls, interleaved with those of any number of
\* other requests, redeem each authorization code as a one-time ticket.
THEOREM CodeOnce == Spec => CodeIsOneTime
  <1>1. Init => DeliveryInv /\ CodeUse!Init
    <2>1. Init => DeliveryInv
      BY DEF Init, DeliveryInv, Exchanging, Minting, Idle, MintSteps
    <2>2. Init => CodeUse!Init
      BY DEF Init, CodeUse!Init, CodeStatus
    <2>3. QED BY <2>1, <2>2
  <1>2. LifecycleInv /\ LifecycleInv' /\ DeliveryInv /\ [Next]_vars => DeliveryInv'
    BY DeliveryStep
  <1>3. LifecycleInv /\ LifecycleInv' /\ DeliveryInv /\ [Next]_vars => [CodeUse!Next]_CodeLives
    BY CodeRefines
  <1>4. QED BY <1>1, <1>2, <1>3, LifecycleInvariant, PTL DEF Spec, CodeIsOneTime, CodeUse!Spec, CodeLives


=============================================================================
