---------------------------- MODULE ServerProofs ----------------------------
(***************************************************************************)
(* Proofs about the whole way from POST /par to the tokens, for any number *)
(* of requests, clients, people, keys and tokens.                          *)
(*                                                                         *)
(* The invariants of the two parts are proved in AuthzFlowProofs and       *)
(* TokenLifecycleProofs.  What is added here is Linked, which ties a       *)
(* grant, from its insert on, to the pushed request and to the person it   *)
(* is for; each part's step lemma then applies, because every step of the  *)
(* server is a step of each part or leaves it alone.                       *)
(***************************************************************************)
EXTENDS Server, AuthzFlowProofs

\* TokenLifecycle with its proofs, under the substitution of Server.
TP == INSTANCE TokenLifecycleProofs
    WITH Grants <- Codes, Subjects <- Users,
         Requests <- Requests \cup TokenRequests, req <- tokenReq

-----------------------------------------------------------------------------
(* Server's instance of TokenLifecycle is the one the proofs are about.    *)

\* What the token lifecycle assumes of its constants holds here.
LEMMA TokenConstants ==
    ASSUME ServerConstantsOK
    PROVE  TP!ConstantsOK /\ TP!NullIsNoRow
  <1>1. TP!ConstantsOK
    BY FlowConstantsOK DEF ServerConstantsOK, TP!ConstantsOK
  <1>2. TP!NullIsNoRow
    BY DEF ServerConstantsOK, TP!NullIsNoRow, TP!GrantRow, Tokens!GrantRow, TP!CodeRow, Tokens!CodeRow,
           TP!AccessTokenRow, Tokens!AccessTokenRow, TP!RefreshTokenRow, Tokens!RefreshTokenRow,
           TP!S256, Tokens!S256
  <1>3. QED BY <1>1, <1>2

\* A request slot without storage calls is the same in both.
LEMMA SameIdle == TP!Idle = Tokens!Idle
  BY DEF TP!Idle, Tokens!Idle

\* Empty tables.
LEMMA SameInit == Tokens!Init => TP!Init
  BY SameIdle DEF TP!Init, Tokens!Init

\* Time passes.
LEMMA SameTick == Tokens!Tick => TP!Tick
  BY DEF TP!Tick, Tokens!Tick, TP!tables, Tokens!tables, TP!replies, Tokens!replies

\* issueAuthorizationCode.
LEMMA SameIssue ==
    ASSUME NEW r, Tokens!Issue(r)
    PROVE  TP!Issue(r)
  BY DEF TP!Issue, Tokens!Issue, TP!InsertGrant, Tokens!InsertGrant, TP!InsertCode, Tokens!InsertCode,
         TP!Idle, Tokens!Idle, TP!Finish, Tokens!Finish, TP!replies, Tokens!replies, TP!S256, Tokens!S256,
         TP!Captured, Tokens!Captured

\* redeemAuthorizationCode with its cascade.
LEMMA SameRedeem ==
    ASSUME NEW r, Tokens!Redeem(r)
    PROVE  TP!Redeem(r)
  BY DEF TP!Redeem, Tokens!Redeem, TP!RedeemOk, Tokens!RedeemOk, TP!RedeemBurned, Tokens!RedeemBurned,
         TP!RedeemMiss, Tokens!RedeemMiss, TP!SelectConsumed, Tokens!SelectConsumed,
         TP!RevokeGrant, Tokens!RevokeGrant, TP!RevokeAccessTokensByGrant, Tokens!RevokeAccessTokensByGrant,
         TP!RevokeRefreshTokensByGrant, Tokens!RevokeRefreshTokensByGrant,
         TP!Redeemable, Tokens!Redeemable, TP!Matches, Tokens!Matches, TP!S256, Tokens!S256,
         TP!RevokeByGrant, Tokens!RevokeByGrant, TP!Goto, Tokens!Goto,
         TP!Idle, Tokens!Idle, TP!Finish, Tokens!Finish, TP!replies, Tokens!replies,
         TP!tables, Tokens!tables, TP!Captured, Tokens!Captured

\* loadRefreshGrant and issueTokenSet.
LEMMA SameMint ==
    ASSUME NEW r, Tokens!Mint(r)
    PROVE  TP!Mint(r)
  BY DEF TP!Mint, Tokens!Mint, TP!FindRefreshToken, Tokens!FindRefreshToken,
         TP!FindGrantForCode, Tokens!FindGrantForCode, TP!FindGrantForRefresh, Tokens!FindGrantForRefresh,
         TP!InsertAccessToken, Tokens!InsertAccessToken, TP!InsertRefreshToken, Tokens!InsertRefreshToken,
         TP!Refreshable, Tokens!Refreshable, TP!RequestedScope, Tokens!RequestedScope,
         TP!WithRefreshToken, Tokens!WithRefreshToken,
         TP!Idle, Tokens!Idle, TP!Finish, Tokens!Finish, TP!replies, Tokens!replies,
         TP!tables, Tokens!tables, TP!Captured, Tokens!Captured

\* The revocation endpoint.
LEMMA SameRevoke ==
    ASSUME NEW r, Tokens!Revoke(r)
    PROVE  TP!Revoke(r)
  BY DEF TP!Revoke, Tokens!Revoke, TP!ResolveRefreshToken, Tokens!ResolveRefreshToken,
         TP!ResolveAccessToken, Tokens!ResolveAccessToken, TP!MissAccessToken, Tokens!MissAccessToken,
         TP!AnswerUnknown, Tokens!AnswerUnknown, TP!RevokeRefreshToken, Tokens!RevokeRefreshToken,
         TP!CascadeToAccessTokens, Tokens!CascadeToAccessTokens, TP!RevokeAccessToken, Tokens!RevokeAccessToken,
         TP!RevokeByGrant, Tokens!RevokeByGrant, TP!Goto, Tokens!Goto,
         TP!Idle, Tokens!Idle, TP!Finish, Tokens!Finish, TP!replies, Tokens!replies,
         TP!tables, Tokens!tables

\* A request that stops.
LEMMA SameAbort ==
    ASSUME NEW r, Tokens!Abort(r)
    PROVE  TP!Abort(r)
  BY DEF TP!Abort, Tokens!Abort, TP!Idle, Tokens!Idle, TP!Finish, Tokens!Finish,
         TP!replies, Tokens!replies, TP!tables, Tokens!tables

-----------------------------------------------------------------------------
(* The invariant that ties the two parts together.                         *)

\* The grant of code c is what request_uri u asked for, for subject s.
GrantFor(c, u, s) ==
    /\ pushed[u] \in Parameters
    /\ grants[c].clientId = pushed[u].client
    /\ grants[c].scope = pushed[u].scope
    /\ grants[c].subject = s

\* When the session behind a code was checked.
CheckTime(r) == IF req[r].page = Null THEN req[r].checkedAt ELSE req[r].page.checkedAt

\* Between the insert of the grant and that of the code.
Saving(r) ==
    /\ At(r, "issue") /\ tokenReq[r].pc = "codes.insert"
    /\ GrantFor(tokenReq[r].grant, req[r].uri, req[r].session.sub)

\* A code that can be redeemed is one that the flow issued.
CodeLinked(c) == codes[c] # Null =>
    /\ issued[c] # Null /\ GrantFor(c, issued[c].uri, issued[c].subject)
    /\ codes[c].dpopJkt = pushed[issued[c].uri].jkt

Linked ==
    /\ pushed \in [RequestUris -> Parameters \cup {Null}]
    /\ \A u \in RequestUris : par[u] \in ParRow => pushed[u] \in Parameters
    /\ \A r \in Requests : tokenReq[r] # TP!Idle => Saving(r)
    /\ \A q \in TokenRequests : tokenReq[q].pc # "codes.insert"
    /\ \A c \in Codes : CodeLinked(c)

ServerInv == FlowInv /\ Pushed /\ DeclinedUnusable /\ InTime /\ TP!LifecycleInv /\ Linked

-----------------------------------------------------------------------------
(* Every step of the server is a step, or none, of each part.              *)

\* A request about to issue stays where it is while browsers and the other
\* requests of the flow go on.
LEMMA BrowseSteps ==
    ASSUME FlowInv, Browse
    PROVE  /\ clock' = clock /\ issued' = issued /\ Next
           /\ \A u \in RequestUris : par'[u] \in ParRow => par[u] \in ParRow
           /\ \A r \in Requests : At(r, "issue") => req'[r] = req[r]
  <1>a. /\ req \in [Requests -> Request \cup {Null}] /\ par \in [RequestUris -> ParRow \cup {Null}]
        /\ Null \notin Request /\ Null \notin ParRow
    BY NullIsNoFlowRow DEF FlowInv, TypeOK
  <1> DEFINE Aside(r) == /\ clock' = clock /\ issued' = issued /\ ~At(r, "issue")
                         /\ \A p \in Requests \ {r} : req'[p] = req[p]
                         /\ \A u \in RequestUris : par'[u] \in ParRow => par[u] \in ParRow
  <1>b. ASSUME NEW r \in Requests, Finish(r)
        PROVE  \A p \in Requests \ {r} : req'[p] = req[p]
    BY <1>a, <1>b DEF Finish
  <1>c. ASSUME NEW r \in Requests, NEW pc, Goto(r, pc) \/ Resume(r, pc, clock)
        PROVE  \A p \in Requests \ {r} : req'[p] = req[p]
    BY <1>a, <1>c DEF Goto, Resume
  <1>1. ASSUME NEW r \in Requests,
               \/ \E b \in Browsers, u \in RequestUris : Authorize(r, b, u)
               \/ \E b \in Browsers, i \in Interactions : GetInteraction(r, b, i)
               \/ \E page \in pages : SubmitLogin(r, page)
               \/ \E page \in pages, approved \in BOOLEAN : SubmitConsent(r, page, approved)
        PROVE  Aside(r)
    <2>1. ASSUME NEW b \in Browsers, NEW u \in RequestUris, Authorize(r, b, u) PROVE Aside(r)
      BY <1>a, <2>1 DEF Authorize, Start, At, tables, answers
    <2>2. ASSUME NEW b \in Browsers, NEW i \in Interactions, GetInteraction(r, b, i) PROVE Aside(r)
      BY <1>a, <2>2 DEF GetInteraction, Start, At, tables, answers
    <2>3. ASSUME NEW page \in pages, SubmitLogin(r, page) PROVE Aside(r)
      BY <1>a, <2>3 DEF SubmitLogin, Start, At, tables, answers
    <2>4. ASSUME NEW page \in pages, NEW approved \in BOOLEAN, SubmitConsent(r, page, approved) PROVE Aside(r)
      BY <1>a, <2>4 DEF SubmitConsent, Start, At, tables, answers
    <2>5. QED BY <1>1, <2>1, <2>2, <2>3, <2>4
  <1>2. ASSUME NEW r \in Requests, Serve(r), ~At(r, "issue")
        PROVE  Aside(r)
    <2>1. CASE Decline(r) \/ Consume(r)
      <3>1. clock' = clock /\ issued' = issued /\ \E now : par' = ConsumePar(req[r].uri, now)
        BY <2>1 DEF Decline, Consume, answers
      <3>2. \A u \in RequestUris : par'[u] \in ParRow => par[u] \in ParRow
        BY <1>a, <3>1 DEF ConsumePar, Usable
      <3>3. QED BY <1>2, <2>1, <3>1, <3>2, <1>b, <1>c DEF Decline, Consume
    <2>2. CASE AuthorizeSilently(r) \/ ContextGone(r) \/ CheckLogin(r) \/ CheckConsent(r) \/ RejectLogin(r)
      BY <1>2, <2>2, <1>b, <1>c DEF AuthorizeSilently, ContextGone, CheckLogin, CheckConsent, RejectLogin, tables, answers
    <2>3. CASE Dispatch(r) \/ ShowConsent(r) \/ Complete(r)
      BY <1>2, <2>3, <1>b, <1>c DEF Dispatch, ShowConsent, Complete, tables, answers
    <2>4. CASE \/ Accept(r) \/ \E i \in Interactions : ParkInteraction(r, i)
               \/ \E allowed \in BOOLEAN : Decide(r, allowed)
      BY <1>2, <2>4, <1>b, <1>c DEF Accept, Authenticate, ParkInteraction, Decide, tables, answers
    <2>5. ~ \E c \in Codes : IssueCode(r, c)
      BY <1>2 DEF IssueCode
    <2>6. QED BY <1>2, <2>1, <2>2, <2>3, <2>4, <2>5 DEF Serve
  <1>3. \E r \in Requests : Aside(r)
    BY <1>1, <1>2 DEF Browse, Visit, Submit, Open, SignIn
  <1>4. Next
    BY DEF Browse, Next
  <1>5. QED BY <1>3, <1>4 DEF At

\* A request about to issue is about a pushed request, for somebody.
LEMMA IssuingFacts ==
    ASSUME FlowInv, Pushed, Linked, NEW r \in Requests, At(r, "issue")
    PROVE  /\ req[r] \in Request /\ req[r].uri \in RequestUris /\ par[req[r].uri] \in ParRow
           /\ Wanted(r) \in Parameters /\ req[r].session.sub \in Users
  <1>1. req[r] \in Request
    BY DEF FlowInv, TypeOK, At
  <1>2. req[r].uri \in RequestUris /\ req[r].pc \in Decided
    BY <1>1 DEF Request, Decided, At
  <1>3. req[r].session \in Session
    BY <1>1, <1>2 DEF FlowInv, AllRequestsHold, RequestHolds
  <1>4. par[req[r].uri] \in ParRow
    BY <1>1 DEF Pushed
  <1>5. QED BY <1>1, <1>2, <1>3, <1>4 DEF Session, Linked, Wanted

\* What the server does is a step of the flow, which does not see the insert
\* of the grant nor the token endpoints.
LEMMA StepOfFlow ==
    ASSUME ServerConstantsOK, ServerInv, [ServerNext]_serverVars
    PROVE  [Next]_vars
  <1>1. CASE Time \/ UNCHANGED serverVars
    BY <1>1 DEF Time, serverVars, Next
  <1>2. ASSUME NEW u \in RequestUris, NEW parameters \in Parameters, PushWith(u, parameters)
        PROVE  Next
    BY <1>2 DEF PushWith, Next, Push
  <1>3. CASE Browse
    BY <1>3, BrowseSteps DEF ServerInv
  <1>4. ASSUME NEW r \in Requests, SaveCode(r)
        PROVE  Next
    <2>1. tokenReq[r].pc = "codes.insert"
      BY <1>4 DEF SaveCode, Tokens!InsertCode
    <2>2. TP!RequestHolds(r)
      BY DEF ServerInv, TP!LifecycleInv
    <2>3. tokenReq[r].grant \in Codes
      BY <2>1, <2>2 DEF TP!RequestHolds
    <2>4. QED BY <1>4, <2>3 DEF SaveCode, Next, Serve
  <1>5. ASSUME NEW r \in Requests, Lose(r)
        PROVE  Next
    BY <1>5 DEF Lose, Next
  <1>6. ASSUME NEW r \in Requests, NEW c \in Codes, SaveGrant(r, c)
        PROVE  UNCHANGED vars
    BY <1>6 DEF SaveGrant
  <1>7. ASSUME NEW q \in TokenRequests, ServeToken(q)
        PROVE  UNCHANGED vars
    BY <1>7 DEF ServeToken
  <1>8. QED BY <1>1, <1>2, <1>3, <1>4, <1>5, <1>6, <1>7 DEF ServerNext

\* What the server does is a step of the token lifecycle, with a client, a
\* subject and a scope it expects.
LEMMA StepOfTokens ==
    ASSUME ServerConstantsOK, ServerInv, [ServerNext]_serverVars
    PROVE  [Tokens!Next]_(Tokens!vars)
  <1> USE DEF Tokens!vars, Tokens!tables, Tokens!replies
  <1>1. CASE Time
    BY <1>1 DEF Time, Tokens!Next
  <1>2. ASSUME NEW u \in RequestUris, NEW parameters \in Parameters, PushWith(u, parameters)
        PROVE  UNCHANGED Tokens!vars
    BY <1>2 DEF PushWith, PushAuthorizationRequest, tokenState
  <1>3. CASE Browse
    <2>1. clock' = clock
      BY <1>3, BrowseSteps DEF ServerInv
    <2>2. QED BY <1>3, <2>1 DEF Browse, tokenState
  <1>4. ASSUME NEW r \in Requests, NEW c \in Codes, SaveGrant(r, c)
        PROVE  Tokens!Next
    <2>1. Wanted(r) \in Parameters /\ req[r].session.sub \in Users
      BY <1>4, IssuingFacts DEF SaveGrant, ServerInv
    <2>2. Wanted(r).client \in Clients /\ Wanted(r).scope \in SUBSET Scopes /\ Wanted(r).scope # {}
      BY <2>1 DEF Parameters
    <2>3. Tokens!Issue(r)
      BY <1>4, <2>1, <2>2 DEF SaveGrant, Tokens!Issue
    <2>4. QED BY <2>3 DEF Tokens!Next, Tokens!Step
  <1>5. ASSUME NEW r \in Requests, SaveCode(r)
        PROVE  Tokens!Next
    <2>1. Wanted(r) \in Parameters
      BY <1>5, IssuingFacts DEF SaveCode, IssueCode, ServerInv
    <2>2. /\ Wanted(r).redirectUri \in RedirectUris /\ Wanted(r).verifier \in Verifiers
          /\ Wanted(r).jkt \in Keys \cup {Null}
      BY <2>1 DEF Parameters
    <2>3. Tokens!Issue(r)
      BY <1>5, <2>2 DEF SaveCode, Tokens!Issue
    <2>4. QED BY <2>3 DEF Tokens!Next, Tokens!Step
  <1>6. ASSUME NEW r \in Requests, Lose(r)
        PROVE  Tokens!Next \/ UNCHANGED Tokens!vars
    BY <1>6 DEF Lose, Abort, tokenState, Tokens!Next, Tokens!Step
  <1>7. ASSUME NEW q \in TokenRequests, ServeToken(q)
        PROVE  Tokens!Next
    BY <1>7 DEF ServeToken, Tokens!Next, Tokens!Step
  <1>8. CASE UNCHANGED serverVars
    BY <1>8 DEF serverVars, vars, tokenState
  <1>9. QED BY <1>1, <1>2, <1>3, <1>4, <1>5, <1>6, <1>7, <1>8 DEF ServerNext

\* ... and so of the lifecycle that the proofs are about.
LEMMA StepOfLifecycle ==
    ASSUME ServerConstantsOK, ServerInv, [ServerNext]_serverVars
    PROVE  [TP!Next]_(TP!vars)
  <1>1. [Tokens!Next]_(Tokens!vars)
    BY StepOfTokens
  <1>2. ASSUME NEW r, Tokens!Step(r) PROVE TP!Step(r)
    BY <1>2, SameIssue, SameRedeem, SameMint, SameRevoke, SameAbort DEF Tokens!Step, TP!Step
  <1>3. Tokens!Next => TP!Next
    BY <1>2, SameTick DEF Tokens!Next, TP!Next
  <1>4. QED BY <1>1, <1>3 DEF TP!vars, Tokens!vars, TP!tables, Tokens!tables, TP!replies, Tokens!replies

-----------------------------------------------------------------------------
(* Every step keeps the invariant.                                         *)

\* What is kept is linked as before: enough that nothing pushed or granted
\* changes, and that new positions and new codes are linked.
LEMMA LinkedKept ==
    ASSUME FlowInv, Pushed, TP!LifecycleInv, Linked,
           pushed' \in [RequestUris -> Parameters \cup {Null}],
           \A u \in RequestUris : par'[u] \in ParRow => pushed'[u] \in Parameters,
           \A u \in RequestUris : par[u] \in ParRow => pushed'[u] = pushed[u],
           \A c \in Codes : grants[c] # Null =>
               /\ grants'[c].clientId = grants[c].clientId
               /\ grants'[c].scope = grants[c].scope
               /\ grants'[c].subject = grants[c].subject,
           \A r \in Requests : tokenReq'[r] # TP!Idle =>
               Saving(r)' \/ (tokenReq'[r] = tokenReq[r] /\ req'[r] = req[r]),
           \A q \in TokenRequests : tokenReq'[q].pc # "codes.insert",
           \A c \in Codes : codes'[c] # Null =>
               \/ CodeLinked(c)'
               \/ codes[c] # Null /\ issued'[c] = issued[c] /\ codes'[c].dpopJkt = codes[c].dpopJkt
    PROVE  Linked'
  <1>1. ASSUME NEW c \in Codes, NEW u \in RequestUris, NEW s,
               grants[c] # Null, par[u] \in ParRow, GrantFor(c, u, s)
        PROVE  GrantFor(c, u, s)'
    BY <1>1 DEF GrantFor
  <1>2. ASSUME NEW r \in Requests, tokenReq'[r] = tokenReq[r], req'[r] = req[r], tokenReq[r] # TP!Idle
        PROVE  Saving(r)'
    <2>1. Saving(r)
      BY <1>2 DEF Linked
    <2>2. TP!RequestHolds(r)
      BY DEF TP!LifecycleInv
    <2>3. tokenReq[r].grant \in Codes /\ grants[tokenReq[r].grant] # Null
      BY <2>1, <2>2 DEF Saving, TP!RequestHolds
    <2>4. req[r].uri \in RequestUris /\ par[req[r].uri] \in ParRow
      BY <2>1, IssuingFacts DEF Saving
    <2>5. GrantFor(tokenReq[r].grant, req[r].uri, req[r].session.sub)'
      BY <1>1, <1>2, <2>1, <2>3, <2>4 DEF Saving, GrantFor
    <2>6. QED BY <1>2, <2>1, <2>5 DEF Saving, At
  <1>3. ASSUME NEW c \in Codes, codes[c] # Null, issued'[c] = issued[c],
               codes'[c].dpopJkt = codes[c].dpopJkt
        PROVE  CodeLinked(c)'
    <2>1. CodeLinked(c)
      BY DEF Linked
    <2>2. grants[c] # Null
      BY <1>3 DEF TP!LifecycleInv, TP!RowsLinked
    <2>3. issued[c] # Null /\ issued[c].uri \in RequestUris
      BY <1>3, <2>1 DEF CodeLinked, FlowInv, TypeOK, CodeRow
    <2>4. par[issued[c].uri] \in ParRow
      BY <2>3 DEF FlowInv, UriHolds, CodesOf
    <2>5. GrantFor(c, issued[c].uri, issued[c].subject)' /\ pushed'[issued[c].uri] = pushed[issued[c].uri]
      BY <1>1, <1>3, <2>1, <2>2, <2>3, <2>4 DEF CodeLinked, GrantFor
    <2>6. QED BY <1>3, <2>1, <2>5 DEF CodeLinked
  <1>4. \A r \in Requests : tokenReq'[r] # TP!Idle => Saving(r)'
    BY <1>2
  <1>5. \A c \in Codes : CodeLinked(c)'
    BY <1>3 DEF CodeLinked
  <1>6. TP!Idle' = TP!Idle
    BY DEF TP!Idle
  <1>7. QED BY <1>4, <1>5, <1>6 DEF Linked

\* A step of the token and revocation endpoints leaves the requests of the
\* flow alone and neither makes a code nor changes whose a grant is.
LEMMA TokenSteps ==
    ASSUME ServerConstantsOK, ServerInv, NEW q \in TokenRequests, ServeToken(q)
    PROVE  /\ \A c \in Codes : grants[c] # Null =>
                 /\ grants'[c].clientId = grants[c].clientId
                 /\ grants'[c].scope = grants[c].scope
                 /\ grants'[c].subject = grants[c].subject
           /\ \A p \in Requests \cup TokenRequests : p # q => tokenReq'[p] = tokenReq[p]
           /\ tokenReq'[q].pc # "codes.insert"
           /\ \A c \in Codes : codes'[c] # Null =>
                 codes[c] # Null /\ codes'[c].dpopJkt = codes[c].dpopJkt
  <1>a. TP!ConstantsOK /\ TP!NullIsNoRow
    BY TokenConstants
  <1>b. /\ TP!LifecycleInv /\ TP!TypeOK /\ q \in Requests \cup TokenRequests
        /\ tokenReq[q].pc # "codes.insert"
    BY DEF ServerInv, TP!LifecycleInv, Linked
  <1>1. TP!Redeem(q) \/ TP!Mint(q) \/ TP!Revoke(q) \/ TP!Abort(q)
    BY SameRedeem, SameMint, SameRevoke, SameAbort DEF ServeToken
  <1>2. TP!Step(q)
    BY <1>1 DEF TP!Step
  <1>3. TP!RowsPersist /\ TP!NewRows(q) /\ TP!NewPosition(q)
    BY <1>a, <1>b, <1>2, TP!StepFacts
  <1>4. tokenReq'[q].pc # "codes.insert"
    BY <1>a, <1>b, <1>1, TP!OnlyIssueInserts
  <1>5. \A c \in Codes : codes'[c] # Null => codes[c] # Null
    BY <1>b, <1>3 DEF TP!NewRows
  <1>6. QED BY <1>3, <1>4, <1>5 DEF TP!RowsPersist, TP!NewPosition

\* Every step keeps grants and codes linked to what was pushed and approved.
LEMMA LinkedStep ==
    ASSUME ServerConstantsOK, ServerInv, [ServerNext]_serverVars, FlowInv', TP!LifecycleInv'
    PROVE  Linked'
  <1>a. FlowInv /\ Pushed /\ TP!LifecycleInv /\ Linked
    BY DEF ServerInv
  <1>b. /\ req \in [Requests -> Request \cup {Null}] /\ issued \in [Codes -> CodeRow \cup {Null}]
        /\ par \in [RequestUris -> ParRow \cup {Null}] /\ Null \notin ParRow /\ Null \notin Request
        /\ Null \notin CodeRow
    BY <1>a, NullIsNoFlowRow DEF FlowInv, TypeOK
  <1>c. /\ grants \in [Codes -> TP!GrantRow \cup {Null}] /\ codes \in [Codes -> TP!CodeRow \cup {Null}]
        /\ tokenReq \in [Requests \cup TokenRequests -> TP!Request]
    BY <1>a DEF TP!LifecycleInv, TP!TypeOK
  <1>d. pushed \in [RequestUris -> Parameters \cup {Null}]
    BY <1>a DEF Linked
  <1>e. Requests \cap TokenRequests = {} /\ Null \notin TP!GrantRow /\ Null \notin TP!CodeRow
    BY TokenConstants DEF ServerConstantsOK, TP!NullIsNoRow
  <1>f. TP!Idle.pc = "idle" /\ Tokens!Idle = TP!Idle
    BY SameIdle DEF TP!Idle
  \* Nothing of the tokens changes, nor what is pushed.
  <1>1. ASSUME UNCHANGED pushed, UNCHANGED tokenState, issued' = issued,
               \A u \in RequestUris : par'[u] \in ParRow => par[u] \in ParRow,
               \A r \in Requests : At(r, "issue") => req'[r] = req[r]
        PROVE  Linked'
    <2>1. UNCHANGED <<grants, codes, tokenReq>>
      BY <1>1 DEF tokenState
    <2>2. \A r \in Requests : tokenReq[r] # TP!Idle => At(r, "issue")
      BY <1>a DEF Linked, Saving
    <2>3. QED BY <1>a, <1>1, <2>1, <2>2, LinkedKept DEF Linked
  <1>2. CASE Time \/ UNCHANGED serverVars
    <2>1. UNCHANGED <<par, req, issued, pushed, tokenState>>
      BY <1>2 DEF Time, Tick, Tokens!Tick, Tokens!tables, Tokens!replies, tables, answers, tokenState,
                  serverVars, vars
    <2>2. QED BY <1>1, <2>1
  <1>3. CASE Browse
    BY <1>a, <1>1, <1>3, BrowseSteps DEF Browse
  <1>4. ASSUME NEW u \in RequestUris, NEW parameters \in Parameters, PushWith(u, parameters)
        PROVE  Linked'
    <2>1. /\ par[u] = Null /\ \A v \in RequestUris \ {u} : par'[v] = par[v]
          /\ UNCHANGED <<req, issued, grants, codes, tokenReq>>
          /\ pushed' = [pushed EXCEPT ![u] = parameters]
      BY <1>b, <1>4 DEF PushWith, PushAuthorizationRequest, tokenState, answers
    <2>2. pushed' \in [RequestUris -> Parameters \cup {Null}]
      BY <1>d, <2>1
    <2>3. \A v \in RequestUris : par'[v] \in ParRow => pushed'[v] \in Parameters
      BY <1>a, <1>d, <2>1 DEF Linked
    <2>4. \A v \in RequestUris : par[v] \in ParRow => pushed'[v] = pushed[v]
      BY <1>b, <1>d, <2>1
    <2>5. QED BY <1>a, <2>1, <2>2, <2>3, <2>4, LinkedKept DEF Linked
  <1>5. ASSUME NEW r \in Requests, NEW c \in Codes, SaveGrant(r, c)
        PROVE  Linked'
    <2>1. /\ At(r, "issue") /\ UNCHANGED <<par, req, issued, pushed, codes>> /\ grants[c] = Null
          /\ grants' = [grants EXCEPT ![c] = [clientId |-> Wanted(r).client, subject |-> req[r].session.sub,
                                              scope |-> Wanted(r).scope, revoked |-> FALSE]]
          /\ tokenReq' = [tokenReq EXCEPT ![r] = [Tokens!Idle EXCEPT !.pc = "codes.insert", !.grant = c,
                                                                    !.client = Wanted(r).client]]
      BY <1>5 DEF SaveGrant, Tokens!InsertGrant, vars
    <2>2. tokenReq'[r].pc = "codes.insert" /\ tokenReq'[r].grant = c
      BY <1>c, <2>1 DEF Tokens!Idle
    <2>3. \A p \in Requests \cup TokenRequests : p # r => tokenReq'[p] = tokenReq[p]
      BY <1>c, <2>1
    <2>4. Wanted(r) \in Parameters
      BY <1>a, <2>1, IssuingFacts
    <2>5. GrantFor(c, req[r].uri, req[r].session.sub)'
      BY <1>c, <2>1, <2>4 DEF GrantFor, Wanted
    <2>6. Saving(r)'
      BY <2>1, <2>2, <2>5 DEF Saving, At, GrantFor
    <2>7. \A d \in Codes : grants[d] # Null => grants'[d] = grants[d]
      BY <1>c, <2>1
    <2>8. \A q \in TokenRequests : tokenReq'[q].pc # "codes.insert"
      BY <1>a, <1>e, <2>3 DEF Linked
    <2>9. QED BY <1>a, <2>1, <2>3, <2>6, <2>7, <2>8, LinkedKept DEF Linked
  <1>6. ASSUME NEW r \in Requests, SaveCode(r)
        PROVE  Linked'
    <2>1. tokenReq[r].pc = "codes.insert"
      BY <1>6 DEF SaveCode, Tokens!InsertCode
    <2>2. TP!RequestHolds(r) /\ Saving(r)
      <3>1. tokenReq[r] # TP!Idle
        BY <1>f, <2>1
      <3>2. QED BY <1>a, <3>1 DEF TP!LifecycleInv, Linked
    <2>3. PICK g \in Codes : g = tokenReq[r].grant
      BY <2>1, <2>2 DEF TP!RequestHolds
    <2>4. /\ At(r, "issue") /\ UNCHANGED <<par, pushed, grants>>
          /\ issued' = [issued EXCEPT ![g] = [uri |-> req[r].uri, page |-> req[r].page,
                                              subject |-> req[r].session.sub,
                                              authTime |-> req[r].session.authTime,
                                              checkedAt |-> CheckTime(r)]]
          /\ req' = [req EXCEPT ![r] = Null]
          /\ tokenReq' = [tokenReq EXCEPT ![r] = Tokens!Idle]
          /\ \E t : codes' = [codes EXCEPT ![g] =
                [clientId |-> tokenReq[r].client, redirectUri |-> Wanted(r).redirectUri,
                 codeChallenge |-> Tokens!S256(Wanted(r).verifier),
                 dpopJkt |-> Wanted(r).jkt, expiresAt |-> t, consumed |-> FALSE]]
      BY <1>6, <2>3 DEF SaveCode, Tokens!InsertCode, IssueCode, CheckTime, tables, Finish, Tokens!Finish
    <2>5. /\ codes'[g].dpopJkt = Wanted(r).jkt
          /\ \A c \in Codes \ {g} : codes'[c] = codes[c] /\ issued'[c] = issued[c]
      BY <1>b, <1>c, <2>4
    <2>6. issued'[g].uri = req[r].uri /\ issued'[g].subject = req[r].session.sub /\ issued'[g] \in CodeRow \cup {Null}
      <3>1. issued'[g] \in CodeRow \cup {Null}
        BY DEF FlowInv, TypeOK
      <3>2. QED BY <1>b, <2>4, <3>1
    <2>7. issued'[g] # Null
      <3>1. [uri |-> req[r].uri, page |-> req[r].page, subject |-> req[r].session.sub,
             authTime |-> req[r].session.authTime, checkedAt |-> CheckTime(r)] \in CodeRow
        <4>1. req[r] \in Request /\ req[r].session \in Session
          <5>1. req[r] \in Request
            BY <1>b, <2>4 DEF At
          <5>2. req[r].pc \in Decided
            BY <2>4 DEF At, Decided
          <5>3. QED BY <1>a, <5>1, <5>2 DEF FlowInv, AllRequestsHold, RequestHolds
        <4>2. CheckTime(r) \in Nat
          BY <4>1, NullIsNoFlowRow DEF CheckTime, Request, Page
        <4>3. QED BY <4>1, <4>2 DEF Request, Session, CodeRow
      <3>2. QED BY <1>b, <2>4, <3>1
    <2>8. CodeLinked(g)'
      BY <2>2, <2>3, <2>4, <2>5, <2>6, <2>7 DEF CodeLinked, Saving, GrantFor, Wanted
    <2>9. \A p \in Requests \cup TokenRequests : p # r => tokenReq'[p] = tokenReq[p]
      BY <1>c, <2>4
    <2>10. /\ \A p \in Requests : tokenReq'[p] # TP!Idle => tokenReq'[p] = tokenReq[p] /\ req'[p] = req[p]
           /\ \A q \in TokenRequests : tokenReq'[q].pc # "codes.insert"
      BY <1>a, <1>b, <1>c, <1>e, <1>f, <2>4, <2>9 DEF Linked
    <2>11. \A c \in Codes : codes'[c] # Null =>
               \/ CodeLinked(c)'
               \/ codes[c] # Null /\ issued'[c] = issued[c] /\ codes'[c].dpopJkt = codes[c].dpopJkt
      BY <2>5, <2>8
    <2>12. QED BY <1>a, <2>4, <2>10, <2>11, LinkedKept DEF Linked
  <1>7. ASSUME NEW r \in Requests, Lose(r)
        PROVE  Linked'
    <2>1. /\ UNCHANGED <<par, pushed, grants, codes, issued>> /\ req' = [req EXCEPT ![r] = Null]
          /\ IF tokenReq[r] = TP!Idle THEN tokenReq' = tokenReq
                                      ELSE tokenReq' = [tokenReq EXCEPT ![r] = TP!Idle]
      BY <1>7, <1>f DEF Lose, Abort, Finish, tables, answers, tokenState,
                        Tokens!Abort, Tokens!Finish, Tokens!tables
    <2>2. tokenReq'[r] = TP!Idle /\ \A p \in Requests \cup TokenRequests : p # r => tokenReq'[p] = tokenReq[p]
      BY <1>c, <2>1
    <2>3. /\ \A p \in Requests : tokenReq'[p] # TP!Idle => tokenReq'[p] = tokenReq[p] /\ req'[p] = req[p]
          /\ \A q \in TokenRequests : tokenReq'[q].pc # "codes.insert"
      BY <1>a, <1>b, <1>e, <2>1, <2>2 DEF Linked
    <2>4. QED BY <1>a, <2>1, <2>3, LinkedKept DEF Linked
  <1>8. ASSUME NEW q \in TokenRequests, ServeToken(q)
        PROVE  Linked'
    <2>1. UNCHANGED <<par, req, issued, pushed>>
      BY <1>8 DEF ServeToken, vars
    <2>2. \A r \in Requests : tokenReq'[r] = tokenReq[r]
      BY <1>8, <1>e, TokenSteps
    <2>3. \A p \in TokenRequests : tokenReq'[p].pc # "codes.insert"
      BY <1>a, <1>8, TokenSteps DEF Linked
    <2>4. QED BY <1>a, <1>8, <2>1, <2>2, <2>3, TokenSteps, LinkedKept DEF Linked
  <1>9. QED BY <1>2, <1>3, <1>4, <1>5, <1>6, <1>7, <1>8 DEF ServerNext

\* The three invariants carry one another over every step.
LEMMA ServerStep ==
    ASSUME ServerConstantsOK, ServerInv, [ServerNext]_serverVars
    PROVE  ServerInv'
  <1>a. TP!ConstantsOK /\ TP!NullIsNoRow
    BY TokenConstants
  <1>1. FlowInv'
    BY StepOfFlow, FlowStep DEF ServerInv
  <1>2. Pushed' /\ DeclinedUnusable' /\ InTime'
    BY <1>1, StepOfFlow, DeclinedStep DEF ServerInv
  <1>3. TP!LifecycleInv'
    BY <1>a, StepOfLifecycle, TP!InvariantStep DEF ServerInv
  <1>4. Linked'
    BY <1>1, <1>3, LinkedStep
  <1>5. QED BY <1>1, <1>2, <1>3, <1>4 DEF ServerInv

\* Nothing is pushed, granted or issued at the start.
LEMMA ServerStart ==
    ASSUME ServerConstantsOK, ServerInit
    PROVE  ServerInv
  <1>1. FlowInv
    BY FlowStart DEF ServerInit
  <1>2. Pushed /\ DeclinedUnusable /\ InTime
    BY NullIsNoFlowRow DEF ServerInit, Init, Pushed, DeclinedUnusable, InTime
  <1>3. TP!LifecycleInv
    <2>1. TP!ConstantsOK /\ TP!NullIsNoRow
      BY TokenConstants
    <2>2. TP!Init
      BY SameInit DEF ServerInit
    <2>3. QED BY <2>1, <2>2, TP!InvariantInit
  <1>4. Linked
    <2>1. /\ pushed = [u \in RequestUris |-> Null] /\ par = [u \in RequestUris |-> Null]
          /\ codes = [c \in Codes |-> Null]
          /\ tokenReq = [r \in Requests \cup TokenRequests |-> TP!Idle]
      BY SameIdle DEF ServerInit, Init, Tokens!Init
    <2>2. TP!Idle.pc = "idle"
      BY DEF TP!Idle
    <2>3. \A c \in Codes : CodeLinked(c)
      BY <2>1 DEF CodeLinked
    <2>4. QED BY <2>1, <2>2, <2>3, NullIsNoFlowRow DEF Linked
  <1>5. QED BY <1>1, <1>2, <1>3, <1>4 DEF ServerInv

-----------------------------------------------------------------------------
(* The theorems.                                                           *)

\* The invariant of the two parts and of what ties them, for any number of
\* requests of either part, clients, people, keys and tokens.
THEOREM ServerInvariant ==
    ASSUME ServerConstantsOK
    PROVE  ServerSpec => []ServerInv
  <1>1. ServerInit => ServerInv
    BY ServerStart
  <1>2. ServerInv /\ [ServerNext]_serverVars => ServerInv'
    BY ServerStep
  <1>3. QED BY <1>1, <1>2, PTL DEF ServerSpec

\* What issueAuthorizationCode inserts is what TokenLifecycle expects of it,
\* and the flow runs as if its code were made in one step: the theorems about
\* either part hold of the server.
THEOREM ServerRunsItsParts ==
    ASSUME ServerConstantsOK
    PROVE  ServerSpec => PartsAsSpecified
  <1>1. ServerInit => Init /\ Tokens!Init
    BY DEF ServerInit
  <1>2. ServerInv /\ [ServerNext]_serverVars => [Next]_vars
    BY StepOfFlow
  <1>3. ServerInv /\ [ServerNext]_serverVars => [Tokens!Next]_(Tokens!vars)
    BY StepOfTokens
  <1>4. QED BY <1>1, <1>2, <1>3, ServerInvariant, PTL DEF ServerSpec, PartsAsSpecified, Spec, Tokens!Spec

\* What a row of the token tables rests on.
LEMMA GrantBehind ==
    ASSUME ServerInv, NEW c \in Codes, codes[c] # Null
    PROVE  /\ issued[c] \in CodeRow /\ c \in CodesOf(issued[c].uri) /\ issued[c].uri \in RequestUris
           /\ par[issued[c].uri].consumed
           /\ GrantFor(c, issued[c].uri, issued[c].subject)
           /\ codes[c].dpopJkt = pushed[issued[c].uri].jkt
  <1>1. CodeLinked(c) /\ issued[c] # Null
    BY DEF ServerInv, Linked, CodeLinked
  <1>2. issued[c] \in CodeRow
    BY <1>1 DEF ServerInv, FlowInv, TypeOK
  <1>3. issued[c].uri \in RequestUris /\ c \in CodesOf(issued[c].uri)
    BY <1>1, <1>2 DEF CodeRow, CodesOf
  <1>4. par[issued[c].uri].consumed
    BY <1>3 DEF ServerInv, FlowInv, UriHolds
  <1>5. QED BY <1>1, <1>2, <1>3, <1>4 DEF CodeLinked

\* An access token is for the person whom the consent form showed and for the
\* client, scope and key that were pushed: issueTokenSet at the end of the way
\* from POST /par over the consent handler and redeemAuthorizationCode.
THEOREM ApprovedTokens ==
    ASSUME ServerConstantsOK
    PROVE  ServerSpec => []TokensAsApproved
  <1>1. ASSUME ServerInv, NEW a \in AccessTokens, accessTokens[a] # Null
        PROVE  LET row == accessTokens[a]  u == Behind(row).uri IN
               /\ Behind(row) # Null /\ par[u].consumed
               /\ row.subject = Behind(row).subject
               /\ Behind(row).page # Null => Behind(row).page.subject = row.subject
               /\ row.clientId = pushed[u].client
               /\ row.scope \subseteq pushed[u].scope
               /\ \/ pushed[u].jkt \in {Null, row.cnfJkt}
                  \/ Tokens!Of(refreshTokens, row.grantId) # {}
    <2> DEFINE row == accessTokens[a]
               c == row.grantId
    <2>1. row \in TP!AccessTokenRow
      BY <1>1 DEF ServerInv, TP!LifecycleInv, TP!TypeOK
    <2>2. c \in Codes
      BY <2>1 DEF TP!AccessTokenRow
    <2>3. /\ codes[c] # Null /\ row.clientId = grants[c].clientId /\ row.subject = grants[c].subject
          /\ row.scope \subseteq grants[c].scope
      BY <1>1 DEF ServerInv, TP!LifecycleInv, TP!TokensMatchGrant
    <2>4. codes[c].dpopJkt \in {Null, row.cnfJkt} \/ Tokens!Of(refreshTokens, c) # {}
      BY <1>1 DEF ServerInv, TP!LifecycleInv, TP!PinnedKey, TP!Of, Tokens!Of
    <2>5. /\ issued[c] \in CodeRow /\ par[issued[c].uri].consumed
          /\ GrantFor(c, issued[c].uri, issued[c].subject)
          /\ codes[c].dpopJkt = pushed[issued[c].uri].jkt
      BY <1>1, <2>2, <2>3, GrantBehind
    <2>6. issued[c].page # Null => issued[c].page.subject = issued[c].subject
      BY <1>1, <2>2, <2>5 DEF ServerInv, FlowInv, CodeHolds
    <2>7. QED BY <2>3, <2>4, <2>5, <2>6, NullIsNoFlowRow DEF Behind, GrantFor
  <1>2. ServerInv => TokensAsApproved
    BY <1>1 DEF TokensAsApproved
  <1>3. QED BY <1>2, ServerInvariant, PTL

\* One grant for a request_uri, and one refresh token at most, whatever races
\* at par.consume and codes.redeem: the two one-time uses in a row.
THEOREM OneGrant ==
    ASSUME ServerConstantsOK
    PROVE  ServerSpec => []OneGrantPerPush
  <1>1. ASSUME ServerInv, NEW c \in Codes, NEW d \in Codes, codes[c] # Null, codes[d] # Null,
               issued[c].uri = issued[d].uri
        PROVE  c = d
    <2>1. c \in CodesOf(issued[c].uri) /\ d \in CodesOf(issued[c].uri) /\ issued[c].uri \in RequestUris
      BY <1>1, GrantBehind
    <2>2. QED BY <1>1, <2>1 DEF ServerInv, FlowInv, UriHolds
  <1>2. ASSUME ServerInv, NEW a \in AccessTokens, accessTokens[a] # Null
        PROVE  accessTokens[a].grantId \in Codes /\ codes[accessTokens[a].grantId] # Null
    BY <1>2 DEF ServerInv, TP!LifecycleInv, TP!TypeOK, TP!AccessTokenRow, TP!TokensMatchGrant
  <1>3. ASSUME ServerInv, NEW x \in RefreshTokens, refreshTokens[x] # Null
        PROVE  /\ refreshTokens[x].grantId \in Codes /\ codes[refreshTokens[x].grantId] # Null
               /\ x \in TP!Of(refreshTokens, refreshTokens[x].grantId)
    BY <1>3 DEF ServerInv, TP!LifecycleInv, TP!TypeOK, TP!RefreshTokenRow, TP!RowsLinked, TP!Of
  <1>4. ServerInv => OneGrantPerPush
    <2>1. ASSUME ServerInv, NEW x \in RefreshTokens, NEW y \in RefreshTokens,
                 refreshTokens[x] # Null, refreshTokens[y] # Null,
                 issued[refreshTokens[x].grantId].uri = issued[refreshTokens[y].grantId].uri
          PROVE  x = y
      <3>1. refreshTokens[x].grantId = refreshTokens[y].grantId
        BY <1>1, <1>3, <2>1
      <3>2. QED BY <1>3, <2>1, <3>1 DEF ServerInv, TP!LifecycleInv, TP!SingleExchange
    <2>2. QED BY <1>1, <1>2, <2>1 DEF OneGrantPerPush, Behind
  <1>5. QED BY <1>4, ServerInvariant, PTL

=============================================================================
