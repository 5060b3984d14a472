------------------------------- MODULE Server -------------------------------
(***************************************************************************)
(* The authorization server from the pushed request to the tokens:         *)
(* AuthzFlow and TokenLifecycle joined at issueAuthorizationCode, which a  *)
(* request of the flow calls once it has used up its request_uri.          *)
(*                                                                         *)
(* The clock and the code identifiers are shared.  A code goes to the      *)
(* client, scope, redirect_uri, challenge and key of the pushed request    *)
(* (validated again on the way, which ParFront shows to change nothing)    *)
(* and to the person of the session, in two inserts of which the second    *)
(* is the one the client hears of; the endpoints for tokens run beside.    *)
(***************************************************************************)
EXTENDS AuthzFlow

CONSTANTS
    TokenRequests,     \* requests in flight at the token and revocation endpoints
    Clients, Scopes, RedirectUris, Verifiers, Keys, RefreshClients,
    AccessTokens, RefreshTokens,
    AuthCodeTtl, AccessTokenTtl, RefreshTokenTtl, Lag

VARIABLES
    pushed,            \* par_requests.params: what each request_uri asks for
    grants, codes, accessTokens, refreshTokens,
    tokenReq,          \* the storage calls of TokenLifecycle, per request
    sent, refused, confirmed

Tokens == INSTANCE TokenLifecycle
    WITH Grants <- Codes, Subjects <- Users,
         Requests <- Requests \cup TokenRequests, req <- tokenReq

tokenState == <<grants, codes, accessTokens, refreshTokens, tokenReq, sent, refused, confirmed>>
serverVars == <<vars, pushed, tokenState>>

\* The parameters the client pushed, validated: a scope is never empty, and
\* the code_challenge is that of one verifier.
Parameters == [client : Clients, scope : (SUBSET Scopes) \ {{}}, redirectUri : RedirectUris,
               verifier : Verifiers, jkt : Keys \cup {Null}]

\* What TokenLifecycle assumes of its constants; requests of the two parts are
\* told apart, and a missing row is never mistaken for one.
ServerConstantsOK ==
    /\ RefreshClients \subseteq Clients
    /\ AuthCodeTtl \in Nat \ {0} /\ AccessTokenTtl \in Nat \ {0} /\ RefreshTokenTtl \in Nat \ {0}
    /\ Lag \in Nat
    /\ Null \notin Codes \cup AccessTokens \cup RefreshTokens \cup Clients \cup Keys
    /\ AccessTokens \cap RefreshTokens = {}
    /\ Null \notin Tokens!GrantRow \cup Tokens!CodeRow
    /\ Null \notin Tokens!AccessTokenRow \cup Tokens!RefreshTokenRow
    /\ Requests \cap TokenRequests = {}
    /\ Null \notin Parameters

ServerInit ==
    /\ Init
    /\ Tokens!Init
    /\ pushed = [u \in RequestUris |-> Null]

\* What the request at hand asks for.
Wanted(r) == pushed[req[r].uri]

-----------------------------------------------------------------------------
\* POST /par: the row keeps the parameters beside what AuthzFlow knows of it.
PushWith(u, parameters) ==
    /\ \E p \in Prompts, m \in MaxAges : PushAuthorizationRequest(u, p, m)
    /\ pushed' = [pushed EXCEPT ![u] = parameters]
    /\ UNCHANGED tokenState

\* Browsers, and the flow's requests up to their use of the request_uri.
Browse ==
    /\ \/ Visit \/ Submit
       \/ \E b \in Browsers, i \in Interactions : Open(b, i) \/ SignIn(b, i)
       \/ \E r \in Requests : Serve(r) /\ ~At(r, "issue")
    /\ UNCHANGED <<pushed, tokenState>>

\* issueAuthorizationCode: grants.insert ...
SaveGrant(r, c) ==
    /\ At(r, "issue")
    /\ Tokens!InsertGrant(r, c, Wanted(r).client, req[r].session.sub, Wanted(r).scope)
    /\ UNCHANGED <<vars, pushed>>

\* ... and codes.insert, whereupon the redirect carries the code.
SaveCode(r) ==
    /\ \E now \in Tokens!Captured :
          Tokens!InsertCode(r, Wanted(r).redirectUri, Wanted(r).verifier, Wanted(r).jkt, now)
    /\ IssueCode(r, tokenReq[r].grant)
    /\ UNCHANGED pushed

\* A flow request dies, perhaps between the two inserts.
Lose(r) ==
    /\ Abort(r)
    /\ IF tokenReq[r] = Tokens!Idle THEN UNCHANGED tokenState ELSE Tokens!Abort(r)
    /\ UNCHANGED pushed

\* The token and revocation endpoints.
ServeToken(q) ==
    /\ Tokens!Redeem(q) \/ Tokens!Mint(q) \/ Tokens!Revoke(q) \/ Tokens!Abort(q)
    /\ UNCHANGED <<vars, pushed>>

\* One clock for all replicas.
Time == Tick /\ Tokens!Tick /\ UNCHANGED pushed

ServerNext ==
    \/ Time
    \/ \E u \in RequestUris, parameters \in Parameters : PushWith(u, parameters)
    \/ Browse
    \/ \E r \in Requests : (\E c \in Codes : SaveGrant(r, c)) \/ SaveCode(r) \/ Lose(r)
    \/ \E q \in TokenRequests : ServeToken(q)

ServerSpec == ServerInit /\ [][ServerNext]_serverVars

-----------------------------------------------------------------------------
(* Properties.                                                             *)

\* The approval that a row of the token tables goes back to.
Behind(row) == issued[row.grantId]

\* From the consent form to the token, over every await, tab and replica in
\* between: an access token is for the person who approved (for whom the form
\* was shown), and for the client, scope and key of the pushed request that
\* the form was about; that request is used up.
TokensAsApproved ==
    \A a \in AccessTokens : accessTokens[a] # Null =>
        LET row == accessTokens[a]  u == Behind(row).uri IN
        /\ Behind(row) # Null /\ par[u].consumed
        /\ row.subject = Behind(row).subject
        /\ Behind(row).page # Null => Behind(row).page.subject = row.subject
        /\ row.clientId = pushed[u].client
        /\ row.scope \subseteq pushed[u].scope
        /\ \/ pushed[u].jkt \in {Null, row.cnfJkt}
           \/ Tokens!Of(refreshTokens, row.grantId) # {}

\* However often a request_uri, its forms and its code are used, and whatever
\* fails in between, all its tokens are of one grant, which one replay revokes,
\* and one refresh token at most is among them.
OneGrantPerPush ==
    /\ \A a, b \in AccessTokens :
        /\ accessTokens[a] # Null /\ accessTokens[b] # Null
        /\ Behind(accessTokens[a]).uri = Behind(accessTokens[b]).uri
        => accessTokens[a].grantId = accessTokens[b].grantId
    /\ \A x, y \in RefreshTokens :
        /\ refreshTokens[x] # Null /\ refreshTokens[y] # Null
        /\ Behind(refreshTokens[x]).uri = Behind(refreshTokens[y]).uri
        => x = y

\* The parts are used as they expect to be: what is proved of TokenLifecycle
\* under arbitrary grants holds of the grants that the flow makes.
PartsAsSpecified == Spec /\ Tokens!Spec

=============================================================================
