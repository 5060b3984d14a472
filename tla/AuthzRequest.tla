---------------------------- MODULE AuthzRequest ----------------------------
(***************************************************************************)
(* The content of an authorization request on its way from the PAR         *)
(* endpoint to the code: validated against the client's registration when  *)
(* it is pushed, stored in normal form, and validated again, against the   *)
(* registration as it is by then, at /authorize and at each step of the    *)
(* login and consent pages.  The seeder may replace the registration at    *)
(* any time.                                                               *)
(*                                                                         *)
(* AuthzFlow takes the other checks and awaits of these endpoints apart    *)
(* (sessions, interactions, expiry); here one handler is: read the pushed  *)
(* request, await the client's row, validate, await, answer.  There is one *)
(* client; a form value that is refused whatever the registration says is  *)
(* a body without redirect_uri.                                            *)
(***************************************************************************)
EXTENDS FiniteSets

CONSTANTS
    RequestUris,
    RedirectUris,
    Scopes,
    Keys,              \* JWK thumbprints
    Registrations,     \* what the seeder may write
    Bodies,            \* what the client may push
    Requests,          \* requests in flight at the same time
    Null

\* metadata.redirect_uris and metadata.scope.
Registration == [redirectUris : (SUBSET RedirectUris) \ {{}}, scope : SUBSET Scopes]

\* A scope that is omitted, empty or blank is {}.  proofJkt is the key of the
\* DPoP header that came with the push.
Body == [redirectUri : RedirectUris \cup {Null}, scope : SUBSET Scopes,
         dpopJkt : Keys \cup {Null}, proofJkt : Keys \cup {Null},
         prompt : {"unset", "none"}]

ASSUME RequestConstantsOK ==
    /\ Registrations \subseteq Registration
    /\ Bodies \subseteq Body
    /\ Null \notin RedirectUris \cup Keys

VARIABLES
    client,            \* the row of table clients
    par,               \* the rows of par_requests
    forms,             \* the consent forms shown
    req,               \* the requests in flight
    codes,             \* the codes issued, by request_uri
    answer             \* the last redirect back to the client

requestVars == <<client, par, forms, req, codes, answer>>

\* ValidatedAuthorizationRequest.
Validated == [redirectUri : RedirectUris, scope : SUBSET Scopes,
              dpopJkt : Keys \cup {Null}, prompt : {"unset", "none"}]

\* The row's params; body and by are history: what was pushed, and the
\* registration it was validated against.
ParRow == [params : Validated, consumed : BOOLEAN, body : Body, by : Registrations]

Form == [uri : RequestUris, scope : SUBSET Scopes]

\* seen is history: the registrations in force since the request came in.
Request ==
    [pc : {"par.insert"}, body : Body, client : Registrations]
    \cup [pc : {"authorize", "interaction", "consent"}, uri : RequestUris,
          form : Form \cup {Null}, seen : SUBSET Registrations]
    \cup [pc : {"decide"}, uri : RequestUris, form : Form \cup {Null},
          request : Validated, seen : SUBSET Registrations]

Code == [request : Validated, form : Form \cup {Null}]

Answer == [to : RedirectUris, seen : SUBSET Registrations]

ASSUME NullIsNoRecord == Null \notin ParRow \cup Form \cup Request

\* The rows, the forms, the requests in flight and the answers have their types.
TypeOK ==
    /\ client \in Registrations
    /\ par \in [RequestUris -> ParRow \cup {Null}]
    /\ forms \subseteq Form
    /\ req \in [Requests -> Request \cup {Null}]
    /\ codes \in [RequestUris -> Code \cup {Null}]
    /\ answer \in Answer \cup {Null}

RequestInit ==
    /\ client \in Registrations
    /\ par = [u \in RequestUris |-> Null]
    /\ forms = {}
    /\ req = [r \in Requests |-> Null]
    /\ codes = [u \in RequestUris |-> Null]
    /\ answer = Null

-----------------------------------------------------------------------------
(* validateAuthorizationRequest, toStoredParams.                           *)

EffectiveScope(scope, reg) == IF scope = {} THEN reg.scope ELSE scope

\* Mutant: only the push compares redirect_uri with the registration.
ValidAnyUri(p, reg) == p.redirectUri # Null /\ EffectiveScope(p.scope, reg) \subseteq reg.scope

Valid(p, reg) ==
    /\ p.redirectUri \in reg.redirectUris
    /\ EffectiveScope(p.scope, reg) \subseteq reg.scope

\* What a handler works with once the parameters are valid.
Normal(p, reg) ==
    [redirectUri |-> p.redirectUri, scope |-> EffectiveScope(p.scope, reg),
     dpopJkt |-> p.dpopJkt, prompt |-> p.prompt]

\* dpop_jkt and the proof of the push must agree where both are there.
SameKey(body) == Null \in {body.dpopJkt, body.proofJkt} \/ body.dpopJkt = body.proofJkt

\* Mutant: the parameters are stored as they were pushed.
StoredAsSent(body, reg) ==
    [redirectUri |-> body.redirectUri, scope |-> body.scope,
     dpopJkt |-> IF body.proofJkt # Null THEN body.proofJkt ELSE body.dpopJkt,
     prompt |-> body.prompt]

\* The validated request, bound to the key of the proof if there is one.
Stored(body, reg) ==
    [Normal(body, reg) EXCEPT !.dpopJkt = IF body.proofJkt # Null THEN body.proofJkt ELSE @]

Usable(u) == par[u] # Null /\ ~par[u].consumed

At(r, pc) == req[r] # Null /\ req[r].pc = pc
Finish(r) == req' = [req EXCEPT ![r] = Null]

-----------------------------------------------------------------------------
\* The seeder's upsert; it validates the metadata before it writes.
Reseed(reg) ==
    /\ reg # client
    /\ client' = reg
    /\ req' = [r \in Requests |->
          IF req[r] # Null /\ req[r].pc # "par.insert"
          THEN [req[r] EXCEPT !.seen = @ \cup {reg}] ELSE req[r]]
    /\ UNCHANGED <<par, forms, codes, answer>>

\* authenticateClient has loaded the client; its signature, its jti and the
\* DPoP proof are awaited after that.
ReceivePush(r, body) ==
    /\ req[r] = Null
    /\ req' = [req EXCEPT ![r] = [pc |-> "par.insert", body |-> body, client |-> client]]
    /\ UNCHANGED <<client, par, forms, codes, answer>>

PushAuthorizationRequest(r, u) ==
    LET body == req[r].body
        reg == req[r].client IN
    /\ At(r, "par.insert")
    /\ Valid(body, reg) /\ SameKey(body)
    /\ par[u] = Null
    /\ par' = [par EXCEPT ![u] = [params |-> Stored(body, reg), consumed |-> FALSE,
                                  body |-> body, by |-> reg]]
    /\ Finish(r)
    /\ UNCHANGED <<client, forms, codes, answer>>

RefusePush(r) ==
    /\ At(r, "par.insert")
    /\ ~(Valid(req[r].body, req[r].client) /\ SameKey(req[r].body))
    /\ Finish(r)
    /\ UNCHANGED <<client, par, forms, codes, answer>>

\* The pushed request is peeked at; the client's row is awaited.
Begin(r, pc, u, form) ==
    /\ req[r] = Null
    /\ Usable(u)
    /\ req' = [req EXCEPT ![r] = [pc |-> pc, uri |-> u, form |-> form, seen |-> {client}]]
    /\ UNCHANGED <<client, par, forms, codes, answer>>

Authorize(r, u) == Begin(r, "authorize", u, Null)
GetInteraction(r, u) == Begin(r, "interaction", u, Null)
SubmitConsent(r, form) == Begin(r, "consent", form.uri, form)

\* With the row just read: the request validated again.
Revalidated(r) == Valid(par[req[r].uri].params, client)

\* Mutant: what the person approves is read from the registration.
GotoDecideDefault(r) ==
    req' = [req EXCEPT ![r] = [pc |-> "decide", uri |-> @.uri, form |-> @.form, seen |-> @.seen,
                               request |-> [Normal(par[@.uri].params, client) EXCEPT !.scope = client.scope]]]

GotoDecide(r) ==
    req' = [req EXCEPT ![r] = [pc |-> "decide", uri |-> @.uri, form |-> @.form, seen |-> @.seen,
                               request |-> Normal(par[@.uri].params, client)]]

Redirect(r, to) == answer' = [to |-> to, seen |-> req[r].seen]

\* prompt=none goes on to the decision, any other request is parked.
AuthorizeChecked(r) ==
    /\ At(r, "authorize")
    /\ Revalidated(r)
    /\ IF par[req[r].uri].params.prompt = "none" THEN GotoDecide(r) ELSE Finish(r)
    /\ UNCHANGED <<client, par, forms, codes, answer>>

\* prompt=none without a session that is fresh enough; the request_uri stays
\* usable.
LoginRequired(r) ==
    /\ At(r, "authorize")
    /\ Revalidated(r)
    /\ par[req[r].uri].params.prompt = "none"
    /\ Redirect(r, par[req[r].uri].params.redirectUri)
    /\ Finish(r)
    /\ UNCHANGED <<client, par, forms, codes>>

\* Mutant: the redirect_uri of the pushed request is trusted as it is.
TrustedAlways(r) == TRUE

\* An error is redirected only if the redirect_uri is still registered.
Trusted(r) == par[req[r].uri].params.redirectUri \in client.redirectUris

AuthorizeRefused(r) ==
    /\ At(r, "authorize")
    /\ ~Revalidated(r)
    /\ IF Trusted(r) THEN Redirect(r, par[req[r].uri].params.redirectUri) ELSE UNCHANGED answer
    /\ Finish(r)
    /\ UNCHANGED <<client, par, forms, codes>>

ShowConsent(r) ==
    LET u == req[r].uri IN
    /\ At(r, "interaction")
    /\ Revalidated(r)
    /\ forms' = forms \cup {[uri |-> u, scope |-> Normal(par[u].params, client).scope]}
    /\ Finish(r)
    /\ UNCHANGED <<client, par, codes, answer>>

CheckConsent(r) ==
    /\ At(r, "consent")
    /\ Revalidated(r)
    /\ GotoDecide(r)
    /\ UNCHANGED <<client, par, forms, codes, answer>>

\* loadInteractionContext fails: 400.
ContextGone(r) ==
    /\ At(r, "interaction") \/ At(r, "consent")
    /\ ~Revalidated(r)
    /\ Finish(r)
    /\ UNCHANGED <<client, par, forms, codes, answer>>

\* The decision, the use of the request_uri and the code, with the request as
\* it was validated; another tab may have used the request_uri meanwhile.
Decide(r, allowed) ==
    LET u == req[r].uri IN
    /\ At(r, "decide")
    /\ par' = [par EXCEPT ![u].consumed = TRUE]
    /\ codes' = IF allowed /\ Usable(u)
                THEN [codes EXCEPT ![u] = [request |-> req[r].request, form |-> req[r].form]]
                ELSE codes
    /\ Redirect(r, req[r].request.redirectUri)
    /\ Finish(r)
    /\ UNCHANGED <<client, forms>>

Push(r) == \E body \in Bodies : ReceivePush(r, body)

Handle(r) ==
    \/ RefusePush(r) \/ AuthorizeChecked(r) \/ LoginRequired(r) \/ AuthorizeRefused(r)
    \/ ShowConsent(r) \/ CheckConsent(r) \/ ContextGone(r)
    \/ \E allowed \in BOOLEAN : Decide(r, allowed)
    \/ \E u \in RequestUris :
        PushAuthorizationRequest(r, u) \/ Authorize(r, u) \/ GetInteraction(r, u)
    \/ \E form \in forms : SubmitConsent(r, form)

RequestNext ==
    \/ \E reg \in Registrations : Reseed(reg)
    \/ \E r \in Requests : Push(r) \/ Handle(r)

RequestSpec == RequestInit /\ [][RequestNext]_requestVars

-----------------------------------------------------------------------------
(* Properties.                                                             *)

\* RFC 9126: the code carries what the client pushed - the redirect_uri, the
\* scope (the default of the day for an omitted one) and the key of dpop_jkt
\* or of the proof - however often the registration changes before the code is
\* issued.  The default of a client without scopes is itself empty, and an
\* empty scope is looked up again each time.
CodeAsPushed ==
    \A u \in RequestUris : codes[u] # Null =>
        LET body == par[u].body
            asked == IF body.scope = {} THEN par[u].by.scope ELSE body.scope
            issued == codes[u].request IN
        /\ issued.redirectUri = body.redirectUri
        /\ asked # {} => issued.scope = asked
        /\ \A key \in {body.dpopJkt, body.proofJkt} \ {Null} : issued.dpopJkt = key
        /\ issued.dpopJkt \in {body.dpopJkt, body.proofJkt}

\* What the consent form showed is what the code grants, although form and
\* code come from two validations with a registration that may change between
\* them (again but for the empty default).
ScopeAsShown ==
    \A u \in RequestUris : codes[u] # Null /\ codes[u].form # Null =>
        \/ codes[u].form.scope = codes[u].request.scope
        \/ par[u].params.scope = {}

\* OIDC-10, the comment on handleAuthorize: codes and errors are sent only to a
\* redirect_uri that was registered at some moment of this very request, not to
\* one that was registered when the request was pushed.
RedirectsRegistered ==
    answer # Null => \E reg \in answer.seen : answer.to \in reg.redirectUris

=============================================================================
