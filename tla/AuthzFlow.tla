----------------------------- MODULE AuthzFlow -----------------------------
(***************************************************************************)
(* From a pushed authorization request to a code: the PAR endpoint, the    *)
(* authorization endpoint, the login and consent pages, the login session  *)
(* in the browser's cookie, and the decision of the PDP.                   *)
(*                                                                         *)
(* Tables par_requests and interactions are shared by all replicas; the    *)
(* session lives in the browser only.  A request is a state machine with   *)
(* one action per await, and it carries the cookie the browser had when it *)
(* was sent.  An answer that changes nothing (an error page on the first   *)
(* lookup) is not a step.  Each later await gets its own `new Date()`,     *)
(* taken somewhere between the step before it and the statement itself.    *)
(*                                                                         *)
(* The client is the one that pushed the request: /authorize refuses any   *)
(* other before it changes anything.  Rows that the probabilistic reap     *)
(* deletes are expired, and no statement reads an expired interaction.     *)
(***************************************************************************)
EXTENDS Naturals, FiniteSets

CONSTANTS
    RequestUris,       \* 256 random bits each
    Interactions,      \* interaction ids (randomUUID)
    Codes,             \* authorization codes, with their grants
    Browsers, Users,   \* DEV_LOGIN_USERS
    Sids,              \* session ids (128 random bits)
    Requests,          \* requests in flight at the same time
    Prompts,           \* values of prompt that clients push
    MaxAges,           \* values of max_age that clients push, or Null
    ParTtl, InteractionTtl, SessionTtl,
    Crashes,           \* whether a request may die at an await
    MaxTime,           \* bound on the clock
    Null

ASSUME FlowConstantsOK ==
    /\ Prompts \subseteq {"unset", "login", "none"}
    /\ MaxAges \subseteq Nat \cup {Null}
    /\ ParTtl \in Nat /\ InteractionTtl \in Nat /\ SessionTtl \in Nat
    /\ Crashes \in BOOLEAN
    /\ MaxTime \in Nat
    /\ Null \notin Nat \cup Users \cup Sids

VARIABLES
    clock,
    par,               \* table par_requests
    interactions,      \* table interactions
    cookie,            \* each browser's __Host-as_session
    pages,             \* the login and consent forms shown to a browser
    req,               \* the requests in flight
    issued,            \* the codes sent to the client
    declined           \* pushed requests answered access_denied

vars == <<clock, par, interactions, cookie, pages, req, issued, declined>>
tables == <<par, interactions>>
browserState == <<cookie, pages>>
answers == <<issued, declined>>

ParRow == [prompt : Prompts, maxAge : MaxAges, expiresAt : Nat, consumed : BOOLEAN]

InteractionRow == [uri : RequestUris, subject : Users \cup {Null},
                   expiresAt : Nat, completed : BOOLEAN]

Session == [sid : Sids, sub : Users, authTime : Nat, exp : Nat]

\* A form carries its interaction id and a CSRF token: for login an HMAC of
\* the interaction id, for consent an HMAC of the session id.  History: when
\* the session of a consent form was held against the request's demands.
Login(b, i) == [form |-> "login", browser |-> b, interaction |-> i,
                csrf |-> i, subject |-> Null, checkedAt |-> 0]
Consent(b, i, s, t) == [form |-> "consent", browser |-> b, interaction |-> i,
                        csrf |-> s.sid, subject |-> s.sub, checkedAt |-> t]

Page == [form : {"login", "consent"}, browser : Browsers,
         interaction : Interactions, csrf : Interactions \cup Sids,
         subject : Users \cup {Null}, checkedAt : Nat]

Endpoints == {"authorize", "interaction", "login", "consent"}
Steps == {"authorize", "par.peek", "interactions.setSubject", "authenticate",
          "interactions.complete", "pdp.evaluate", "decline", "par.consume", "issue"}

Request == [pc : Steps, at : Endpoints, uri : RequestUris,
            interaction : Interactions \cup {Null}, browser : Browsers,
            session : Session \cup {Null},    \* the cookie the request carries
            now : Nat,                        \* when it got to the await at hand
            checkedAt : Nat,                  \* history: when the session was checked
            subject : Users \cup {Null},      \* what interactions.find returned
            page : Page \cup {Null},          \* the form that was submitted
            approved : BOOLEAN]

\* The code with its grant, whose auth_time goes into the ID token, and with
\* the history of the form and of the check that it rests on.
CodeRow == [uri : RequestUris, subject : Users, authTime : Nat, page : Page \cup {Null},
            checkedAt : Nat]

ASSUME NullIsNoFlowRow ==
    Null \notin ParRow \cup InteractionRow \cup Session \cup Page \cup Request \cup CodeRow

\* The tables, the cookies and the requests in flight have their types.
TypeOK ==
    /\ clock \in Nat
    /\ par \in [RequestUris -> ParRow \cup {Null}]
    /\ interactions \in [Interactions -> InteractionRow \cup {Null}]
    /\ cookie \in [Browsers -> Session \cup {Null}]
    /\ pages \subseteq Page
    /\ req \in [Requests -> Request \cup {Null}]
    /\ issued \in [Codes -> CodeRow \cup {Null}]
    /\ declined \subseteq RequestUris

\* Someone may have logged in for an earlier request; session ids are unique.
EarlierSession == [sid : Sids, sub : Users, authTime : {0}, exp : {SessionTtl}]

Init ==
    /\ clock = 0
    /\ par = [u \in RequestUris |-> Null]
    /\ interactions = [i \in Interactions |-> Null]
    /\ cookie \in [Browsers -> EarlierSession \cup {Null}]
    /\ \A b, c \in Browsers :
        cookie[b] # Null /\ cookie[c] # Null /\ cookie[b].sid = cookie[c].sid => b = c
    /\ pages = {}
    /\ req = [r \in Requests |-> Null]
    /\ issued = [c \in Codes |-> Null]
    /\ declined = {}

-----------------------------------------------------------------------------
(* Conditions of the code, by name.                                        *)

\* Mutant: a used request_uri is good again.
UsableAgain(u, now) == par[u] # Null /\ par[u].expiresAt > now

\* peek and consume: the request_uri is neither used nor expired.
Usable(u, now) == par[u] # Null /\ ~par[u].consumed /\ par[u].expiresAt > now

\* find and complete: the interaction is neither completed nor expired.
Pending(i, now) ==
    /\ interactions[i] # Null
    /\ ~interactions[i].completed
    /\ interactions[i].expiresAt > now

\* openSession of a cookie value.
Opened(s) == IF s # Null /\ s.exp > clock THEN s ELSE Null

\* Mutant: a session as old as max_age counts as too old.
NeedsReauthenticationEarly(s, u) ==
    \/ s = Null
    \/ par[u].prompt = "login"
    \/ par[u].maxAge # Null /\ clock - s.authTime >= par[u].maxAge

\* Mutant: max_age is not looked at.
NeedsReauthenticationAnyAge(s, u) == s = Null \/ par[u].prompt = "login"

NeedsReauthentication(s, u) ==
    \/ s = Null
    \/ par[u].prompt = "login"
    \/ par[u].maxAge # Null /\ clock - s.authTime > par[u].maxAge

\* Mutant: the form's token is not compared with the session.
VerifyNothing(page, session) == TRUE

VerifyCsrfToken(page, session) == page.csrf = session.sid

\* The interaction must be bound to the user of the submitting session.
SubjectUnchanged(r) == req[r].subject # Null /\ req[r].subject = req[r].session.sub

FreshSid(sid) ==
    /\ \A b \in Browsers : cookie[b] # Null => cookie[b].sid # sid
    /\ \A p \in pages : p.csrf # sid
    /\ \A r \in Requests : req[r] # Null /\ req[r].session # Null => req[r].session.sid # sid

At(r, pc) == req[r] # Null /\ req[r].pc = pc
Resume(r, pc, checkedAt) ==
    req' = [req EXCEPT ![r] = [@ EXCEPT !.pc = pc, !.now = clock, !.checkedAt = checkedAt]]
Goto(r, pc) == Resume(r, pc, req[r].checkedAt)
Finish(r) == req' = [req EXCEPT ![r] = Null]

\* The values of the `new Date()` that goes with the await at hand: it is taken
\* after the previous answer, and the statement may run any time later.
Captured(r) == req[r].now .. clock

Start(r, pc, at, u, i, b, subject, page, approved) ==
    /\ req[r] = Null
    /\ req' = [req EXCEPT ![r] =
          [pc |-> pc, at |-> at, uri |-> u, interaction |-> i, browser |-> b,
           session |-> cookie[b], now |-> clock, checkedAt |-> 0, subject |-> subject,
           page |-> page, approved |-> approved]]

-----------------------------------------------------------------------------
(* Pushing the request, and the authorization endpoint.                    *)

PushAuthorizationRequest(u, prompt, maxAge) ==
    /\ par[u] = Null
    /\ par' = [par EXCEPT ![u] = [prompt |-> prompt, maxAge |-> maxAge,
                                  expiresAt |-> clock + ParTtl, consumed |-> FALSE]]
    /\ UNCHANGED <<clock, interactions, browserState, req, answers>>

\* The request_uri is peeked at, not consumed.
Authorize(r, b, u) ==
    /\ Usable(u, clock)
    /\ Start(r, "authorize", "authorize", u, Null, b, Null, Null, TRUE)
    /\ UNCHANGED <<clock, tables, browserState, answers>>

\* prompt=none without a usable session is login_required, and the request_uri
\* stays usable.
AuthorizeSilently(r) ==
    LET session == Opened(req[r].session) IN
    /\ At(r, "authorize")
    /\ par[req[r].uri].prompt = "none"
    /\ IF NeedsReauthentication(session, req[r].uri)
       THEN Finish(r)
       ELSE Resume(r, "pdp.evaluate", clock)
    /\ UNCHANGED <<clock, tables, browserState, answers>>

ParkInteraction(r, i) ==
    /\ At(r, "authorize")
    /\ par[req[r].uri].prompt # "none"
    /\ interactions[i] = Null
    /\ interactions' = [interactions EXCEPT ![i] =
          [uri |-> req[r].uri, subject |-> Null,
           expiresAt |-> clock + InteractionTtl, completed |-> FALSE]]
    /\ Finish(r)
    /\ UNCHANGED <<clock, par, browserState, answers>>

-----------------------------------------------------------------------------
(* The three interaction endpoints start with the same lookup: the         *)
(* interaction, then, after an await and with the same `now`, its request. *)

GetInteraction(r, b, i) ==
    /\ Pending(i, clock)
    /\ Start(r, "par.peek", "interaction", interactions[i].uri, i, b,
             interactions[i].subject, Null, TRUE)
    /\ UNCHANGED <<clock, tables, browserState, answers>>

SubmitLogin(r, page) ==
    /\ page.form = "login"
    /\ Pending(page.interaction, clock)
    /\ Start(r, "par.peek", "login", interactions[page.interaction].uri,
             page.interaction, page.browser,
             interactions[page.interaction].subject, page, TRUE)
    /\ UNCHANGED <<clock, tables, browserState, answers>>

SubmitConsent(r, page, approved) ==
    LET session == Opened(cookie[page.browser]) IN
    /\ page.form = "consent"
    /\ session # Null
    /\ VerifyCsrfToken(page, session)
    /\ Pending(page.interaction, clock)
    /\ Start(r, "par.peek", "consent", interactions[page.interaction].uri,
             page.interaction, page.browser,
             interactions[page.interaction].subject, page, approved)
    /\ UNCHANGED <<clock, tables, browserState, answers>>

\* The request_uri was used or expired meanwhile: 400.
ContextGone(r) ==
    /\ At(r, "par.peek")
    /\ ~Usable(req[r].uri, req[r].now)
    /\ Finish(r)
    /\ UNCHANGED <<clock, tables, browserState, answers>>

\* GET shows the login form, or goes on to bind the interaction to the user.
Dispatch(r) ==
    LET session == Opened(req[r].session) IN
    /\ At(r, "par.peek") /\ req[r].at = "interaction"
    /\ Usable(req[r].uri, req[r].now)
    /\ IF NeedsReauthentication(session, req[r].uri)
       THEN /\ pages' = pages \cup {Login(req[r].browser, req[r].interaction)}
            /\ Finish(r)
       ELSE /\ Resume(r, "interactions.setSubject", clock)
            /\ UNCHANGED pages
    /\ UNCHANGED <<clock, tables, cookie, answers>>

\* setSubject leaves a completed interaction alone; the form is shown anyway.
ShowConsent(r) ==
    LET i == req[r].interaction IN
    /\ At(r, "interactions.setSubject")
    /\ interactions' = IF interactions[i].completed THEN interactions
                       ELSE [interactions EXCEPT ![i].subject = req[r].session.sub]
    /\ pages' = pages \cup {Consent(req[r].browser, i, req[r].session, req[r].checkedAt)}
    /\ Finish(r)
    /\ UNCHANGED <<clock, par, cookie, answers>>

CheckLogin(r) ==
    /\ At(r, "par.peek") /\ req[r].at = "login"
    /\ Usable(req[r].uri, req[r].now)
    /\ Goto(r, "authenticate")
    /\ UNCHANGED <<clock, tables, browserState, answers>>

\* Mutant: the login keeps the session id of the cookie, if there is one.
AuthenticateKeepSid(r, user, sid) ==
    LET old == cookie[req[r].browser] IN
    /\ At(r, "authenticate")
    /\ FreshSid(sid)
    /\ cookie' = [cookie EXCEPT ![req[r].browser] =
          [sid |-> IF old = Null THEN Null ELSE old.sid,
           sub |-> user, authTime |-> clock, exp |-> clock + SessionTtl]]
    /\ Finish(r)
    /\ UNCHANGED <<clock, tables, pages, answers>>

\* A new session id at each login; the response replaces the cookie.
Authenticate(r, user, sid) ==
    /\ At(r, "authenticate")
    /\ FreshSid(sid)
    /\ cookie' = [cookie EXCEPT ![req[r].browser] =
          [sid |-> sid, sub |-> user, authTime |-> clock, exp |-> clock + SessionTtl]]
    /\ Finish(r)
    /\ UNCHANGED <<clock, tables, pages, answers>>

\* The provider does not accept the user: the same form again.
RejectLogin(r) ==
    /\ At(r, "authenticate")
    /\ Finish(r)
    /\ UNCHANGED <<clock, tables, browserState, answers>>

CheckConsent(r) ==
    /\ At(r, "par.peek") /\ req[r].at = "consent"
    /\ Usable(req[r].uri, req[r].now)
    /\ IF SubjectUnchanged(r) THEN Goto(r, "interactions.complete") ELSE Finish(r)
    /\ UNCHANGED <<clock, tables, browserState, answers>>

-----------------------------------------------------------------------------
(* The authorization action: complete the interaction, ask the PDP, use up *)
(* the request_uri, issue the code.                                        *)

Complete(r) ==
    LET i == req[r].interaction IN
    /\ At(r, "interactions.complete")
    /\ \E now \in Captured(r) :
        IF Pending(i, now)
        THEN /\ interactions' = [interactions EXCEPT ![i].completed = TRUE]
             /\ Goto(r, IF req[r].approved THEN "pdp.evaluate" ELSE "decline")
        ELSE /\ Finish(r)
             /\ UNCHANGED interactions
    /\ UNCHANGED <<clock, par, browserState, answers>>

\* A PDP that fails or is unreachable denies.
Decide(r, allowed) ==
    /\ At(r, "pdp.evaluate")
    /\ Goto(r, IF allowed THEN "par.consume" ELSE "decline")
    /\ UNCHANGED <<clock, tables, browserState, answers>>

\* par.consume: one statement, and only the first caller gets the row.  The
\* row's expiry is compared with the caller's `now`.
ConsumePar(u, now) == IF Usable(u, now) THEN [par EXCEPT ![u].consumed = TRUE] ELSE par

\* Mutant: a denied request leaves its request_uri usable.
DeclineKeepPar(r) ==
    /\ At(r, "decline")
    /\ declined' = declined \cup {req[r].uri}
    /\ Finish(r)
    /\ UNCHANGED <<clock, tables, browserState, issued>>

\* The result of consume is ignored here: a denial after the expiry changes no
\* row.
Decline(r) ==
    /\ At(r, "decline")
    /\ \E now \in Captured(r) : par' = ConsumePar(req[r].uri, now)
    /\ declined' = declined \cup {req[r].uri}
    /\ Finish(r)
    /\ UNCHANGED <<clock, interactions, browserState, issued>>

Consume(r) ==
    /\ At(r, "par.consume")
    /\ \E now \in Captured(r) :
        /\ par' = ConsumePar(req[r].uri, now)
        /\ IF Usable(req[r].uri, now) THEN Goto(r, "issue") ELSE Finish(r)
    /\ UNCHANGED <<clock, interactions, browserState, answers>>

\* issueAuthorizationCode, whose two inserts TokenLifecycle takes apart.
IssueCode(r, c) ==
    /\ At(r, "issue")
    /\ issued[c] = Null
    /\ issued' = [issued EXCEPT ![c] = [uri |-> req[r].uri, page |-> req[r].page,
                                        subject |-> req[r].session.sub,
                                        authTime |-> req[r].session.authTime,
                                        checkedAt |-> IF req[r].page = Null THEN req[r].checkedAt
                                                      ELSE req[r].page.checkedAt]]
    /\ Finish(r)
    /\ UNCHANGED <<clock, tables, browserState, declined>>

-----------------------------------------------------------------------------
\* A database call fails or the process dies; what was written stays.
Abort(r) ==
    /\ Crashes
    /\ req[r] # Null
    /\ Finish(r)
    /\ UNCHANGED <<clock, tables, browserState, answers>>

Tick ==
    /\ clock < MaxTime
    /\ clock' = clock + 1
    /\ UNCHANGED <<tables, browserState, req, answers>>

Push == \E u \in RequestUris, p \in Prompts, m \in MaxAges : PushAuthorizationRequest(u, p, m)

\* Bound: a visit finds an interaction id left for it.
IdLeft == Cardinality({r \in Requests : At(r, "authorize")})
            < Cardinality({i \in Interactions : interactions[i] = Null})

\* What the people at the browsers do.
Open(b, i) == \E r \in Requests : GetInteraction(r, b, i)
SignIn(b, i) == \E r \in Requests : Login(b, i) \in pages /\ SubmitLogin(r, Login(b, i))
Visit == IdLeft /\ \E r \in Requests, b \in Browsers, u \in RequestUris : Authorize(r, b, u)
Submit == \E r \in Requests, page \in pages, approved \in BOOLEAN : SubmitConsent(r, page, approved)

\* What the server does with a request it has received.
Accept(r) == \E user \in Users, sid \in Sids : Authenticate(r, user, sid)
Serve(r) ==
    \/ AuthorizeSilently(r)
    \/ \E i \in Interactions : ParkInteraction(r, i)
    \/ ContextGone(r) \/ Dispatch(r) \/ ShowConsent(r) \/ CheckLogin(r) \/ CheckConsent(r)
    \/ Accept(r) \/ RejectLogin(r)
    \/ Complete(r) \/ Decline(r) \/ Consume(r)
    \/ \E allowed \in BOOLEAN : Decide(r, allowed)
    \/ \E c \in Codes : IssueCode(r, c)

Next ==
    \/ Tick \/ Push \/ Visit \/ Submit
    \/ \E b \in Browsers, i \in Interactions : Open(b, i) \/ SignIn(b, i)
    \/ \E r \in Requests : Serve(r) \/ Abort(r)

Spec == Init /\ [][Next]_vars

\* Every request is served; a person who wants to go on opens the interaction
\* again, answers the login form each time and is accepted in the end.
Fairness ==
    /\ \A r \in Requests : WF_vars(Serve(r)) /\ SF_vars(Accept(r))
    /\ \A b \in Browsers, i \in Interactions : SF_vars(Open(b, i)) /\ SF_vars(SignIn(b, i))

FairSpec == Spec /\ Fairness

-----------------------------------------------------------------------------
(* Properties.                                                             *)

Issuing(r, u) == At(r, "issue") /\ req[r].uri = u
CodesOf(u) == {c \in Codes : issued[c] # Null /\ issued[c].uri = u}

\* One-time use of a request_uri (PAR-6, FAPI2-AUTHZ-15): however many tabs,
\* browsers and prompt=none visits share it, it yields at most one code.
OneCodePerRequest ==
    \A u \in RequestUris :
        /\ \A r, q \in Requests : Issuing(r, u) /\ Issuing(q, u) => r = q
        /\ \A c, d \in CodesOf(u) : c = d
        /\ \A r \in Requests : Issuing(r, u) => CodesOf(u) = {}

\* Session integrity (the comment in the consent handler): a code is issued
\* only for the subject that the submitted consent form was rendered for, and
\* for the request that this form was about, whatever other tabs do to the
\* cookie and to the interaction in the meantime.
CodeForShownSubject ==
    \A c \in Codes : issued[c] # Null /\ issued[c].page # Null =>
        LET page == issued[c].page IN
        /\ page.form = "consent"
        /\ page.subject = issued[c].subject
        /\ interactions[page.interaction].uri = issued[c].uri
        /\ interactions[page.interaction].completed

\* What the request demands of a login that is checked at time t.
Meets(authTime, u, t) ==
    /\ par[u].prompt # "login"
    /\ par[u].maxAge # Null => t - authTime <= par[u].maxAge

\* OIDC Core 3.1.2.1, max_age: the auth_time that the ID token will carry was
\* no more than max_age old when the consent form was asked for (with
\* prompt=none, when the silent visit was checked).  Nothing checks the age
\* again: the form is submitted, and the code issued, any number of awaits,
\* tabs, logins and sessions later, with whatever cookie the browser then has.
\* A code for prompt=login would rest on a login that was not asked for anew:
\* there is none.
AuthTimeMeetsDemand ==
    \A c \in Codes : issued[c] # Null =>
        Meets(issued[c].authTime, issued[c].uri, issued[c].checkedAt)

\* A request that may still turn u into a code: it is past par.consume, or it
\* was allowed and the `now` of its consume may have been taken in time.
Claimable(u) ==
    \E r \in Requests :
        \/ Issuing(r, u)
        \/ At(r, "par.consume") /\ req[r].uri = u /\ Usable(u, req[r].now)

\* A request_uri that was answered access_denied or interaction_required is
\* not replayable (the comment at the denial): no other tab, visit or later
\* decision turns it into a code.  The exception is a request that was already
\* allowed: past par.consume, or with a `now` from before the expiry when the
\* denial came too late to use the row up.
DeclinedForever ==
    [][\A u \in declined :
        ~Claimable(u) => ~Claimable(u)' /\ UNCHANGED CodesOf(u)]_vars

\* Refinement mapping: the life of a request_uri, as OneTimeUse sees it.
UriStatus(u) ==
    IF par[u] = Null THEN "none"
    ELSE IF ~par[u].consumed THEN "usable"
    ELSE IF \E r \in Requests : Issuing(r, u) THEN "claimed"
    ELSE IF CodesOf(u) # {} THEN "delivered"
    ELSE "spent"

UriUse == INSTANCE OneTimeUse
    WITH Tickets <- RequestUris, status <- [u \in RequestUris |-> UriStatus(u)]

\* FAPI2 5.3.2.2(12) and the comment on par.consume: peeked at by any number of
\* tabs, a request_uri is claimed by one of them in one step, a denial in time
\* uses it up, a claim ends in one code or is lost with the request, and the
\* uri never comes back.
UriIsOneTime == UriUse!Spec

\* The comment on POST /interaction/login: authenticate, establish the login
\* session, return to the interaction and on to consent.  Someone who keeps
\* answering the login form is shown the consent form, unless the request is
\* over meanwhile.
LoginLeadsToConsent ==
    \A b \in Browsers, i \in Interactions :
        (Login(b, i) \in pages) ~>
            \/ \E p \in pages : p.form = "consent" /\ p.browser = b /\ p.interaction = i
            \/ ~Pending(i, clock)
            \/ ~Usable(interactions[i].uri, clock)

=============================================================================
