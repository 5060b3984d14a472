-------------------------- MODULE AuthzFlowProofs --------------------------
(***************************************************************************)
(* Proofs about AuthzFlow, for any number of pushed requests, browsers,    *)
(* tabs, users and requests in flight.                                     *)
(*                                                                         *)
(* The invariant says where a request in flight may be and what it then    *)
(* holds (RequestHolds), that a session id belongs to one user wherever it *)
(* is kept (SidsAgree), what a code rests on (CodeHolds), and that a       *)
(* request_uri is used up before it yields anything (UriHolds).  FreshInv, *)
(* at the end, carries the age of a login from the check to the code.      *)
(***************************************************************************)
EXTENDS AuthzFlow, Integers, TLAPS

\* Past the check of the person: on the way to a code or to access_denied.
Decided == {"pdp.evaluate", "decline", "par.consume", "issue"}

\* What a request in flight holds, given the interactions and the pages.
RequestHolds(q, ints, pgs) ==
    /\ q.at # "authorize" =>
          /\ q.interaction \in Interactions
          /\ ints[q.interaction] \in InteractionRow
          /\ ints[q.interaction].uri = q.uri
    /\ q.at = "authorize" => q.page = Null
    /\ q.pc = "authorize" => q.at = "authorize"
    /\ q.pc \in {"par.peek", "authenticate"} => q.at # "authorize"
    /\ q.pc = "interactions.setSubject" => q.at = "interaction"
    /\ q.pc = "interactions.complete" => q.at = "consent"
    /\ q.pc \in Decided => q.at \in {"authorize", "consent"}
    /\ q.pc \in Decided \cup {"interactions.setSubject", "interactions.complete"} => q.session \in Session
    /\ q.at = "consent" =>
          /\ q.page \in pgs /\ q.page.form = "consent" /\ q.page.interaction = q.interaction
          /\ q.session \in Session /\ q.page.csrf = q.session.sid
    /\ q.at = "consent" /\ q.pc \in Decided => ints[q.interaction].completed

\* Some cookie, request or consent form ties the session id to the user.
Known(sid, sub, ck, pgs, rq) ==
    \/ \E b \in Browsers : ck[b] \in Session /\ ck[b].sid = sid /\ ck[b].sub = sub
    \/ \E p \in pgs : p.form = "consent" /\ p.csrf = sid /\ p.subject = sub
    \/ \E r \in Requests : /\ rq[r] \in Request /\ rq[r].session \in Session
                           /\ rq[r].session.sid = sid /\ rq[r].session.sub = sub

SidsAgree(ck, pgs, rq) ==
    \A sid, s, t : Known(sid, s, ck, pgs, rq) /\ Known(sid, t, ck, pgs, rq) => s = t

\* What a code rests on.
CodeHolds(k, ints) == k \in CodeRow /\ k.page # Null =>
    /\ k.page.form = "consent" /\ k.page.subject = k.subject
    /\ ints[k.page.interaction] \in InteractionRow
    /\ ints[k.page.interaction].uri = k.uri
    /\ ints[k.page.interaction].completed

\* A request_uri that yielded something is used up, and yielded one thing.
UriHolds(u) ==
    /\ (\E r \in Requests : Issuing(r, u)) \/ CodesOf(u) # {} => par[u] \in ParRow /\ par[u].consumed
    /\ \A r, q \in Requests : Issuing(r, u) /\ Issuing(q, u) => r = q
    /\ \A c, d \in CodesOf(u) : c = d
    /\ \A r \in Requests : Issuing(r, u) => CodesOf(u) = {}

AllRequestsHold(ints, pgs, rq) ==
    \A r \in Requests : rq[r] \in Request => RequestHolds(rq[r], ints, pgs)

FlowInv ==
    /\ TypeOK
    /\ AllRequestsHold(interactions, pages, req)
    /\ SidsAgree(cookie, pages, req)
    /\ \A c \in Codes : CodeHolds(issued[c], interactions)
    /\ \A u \in RequestUris : UriHolds(u)

-----------------------------------------------------------------------------
(* What a step leaves behind.                                              *)

\* An interaction keeps its request, and once completed it stays so.
Persist == \A i \in Interactions : interactions[i] \in InteractionRow =>
    /\ interactions'[i] \in InteractionRow
    /\ interactions'[i].uri = interactions[i].uri
    /\ interactions[i].completed => interactions'[i].completed

\* A used request_uri stays used.
ParKept == \A u \in RequestUris : par[u] \in ParRow /\ par[u].consumed =>
    par'[u] \in ParRow /\ par'[u].consumed

\* A request and a code keep what they hold when the tables only grow.
LEMMA HoldsPersist ==
    ASSUME TypeOK, Persist, pages \subseteq pages'
    PROVE  /\ \A q \in Request : RequestHolds(q, interactions, pages) => RequestHolds(q, interactions', pages')
           /\ \A k \in CodeRow : CodeHolds(k, interactions) => CodeHolds(k, interactions')
  <1>1. ASSUME NEW q \in Request, RequestHolds(q, interactions, pages)
        PROVE  RequestHolds(q, interactions', pages')
    <2>1. CASE q.at = "authorize"
      BY <1>1, <2>1 DEF RequestHolds
    <2>2. CASE q.at # "authorize"
      <3>1. /\ interactions'[q.interaction] \in InteractionRow
            /\ interactions'[q.interaction].uri = q.uri
            /\ interactions[q.interaction].completed => interactions'[q.interaction].completed
        BY <1>1, <2>2 DEF RequestHolds, Persist
      <3>2. QED BY <1>1, <2>2, <3>1 DEF RequestHolds
    <2>3. QED BY <2>1, <2>2
  <1>2. ASSUME NEW k \in CodeRow, CodeHolds(k, interactions)
        PROVE  CodeHolds(k, interactions')
    <2>1. SUFFICES ASSUME k.page # Null PROVE CodeHolds(k, interactions')
      BY DEF CodeHolds
    <2>2. k.page.interaction \in Interactions
      BY <2>1 DEF CodeRow, Page
    <2>3. QED BY <1>2, <2>1, <2>2 DEF CodeHolds, Persist
  <1>3. QED BY <1>1, <1>2

\* The request r moves to q, with a session somebody had already.
LEMMA RequestMoves ==
    ASSUME FlowInv, Persist, cookie' = cookie, pages \subseteq pages',
           NEW r \in Requests, NEW q \in Request \cup {Null}, req' = [req EXCEPT ![r] = q],
           q \in Request => /\ RequestHolds(q, interactions', pages')
                            /\ q.session \in Session => Known(q.session.sid, q.session.sub, cookie, pages, req),
           \A p \in pages' \ pages : p.form = "consent" => Known(p.csrf, p.subject, cookie, pages, req)
    PROVE  /\ req' \in [Requests -> Request \cup {Null}]
           /\ AllRequestsHold(interactions', pages', req')
           /\ SidsAgree(cookie', pages', req')
  <1>a. TypeOK /\ req \in [Requests -> Request \cup {Null}]
    BY DEF FlowInv, TypeOK
  <1>b. AllRequestsHold(interactions, pages, req) /\ SidsAgree(cookie, pages, req)
    BY DEF FlowInv
  <1>1. req' \in [Requests -> Request \cup {Null}] /\ req'[r] = q
    BY <1>a
  <1>2. \A p \in Requests \ {r} : req'[p] = req[p]
    BY <1>a
  <1>3. ASSUME NEW p \in Requests, req'[p] \in Request
        PROVE  RequestHolds(req'[p], interactions', pages')
    <2>1. CASE p = r
      BY <1>1, <1>3, <2>1
    <2>2. CASE p # r
      <3>1. req'[p] = req[p] /\ RequestHolds(req[p], interactions, pages)
        BY <1>b, <1>2, <1>3, <2>2 DEF AllRequestsHold
      <3>2. QED BY <1>a, <1>3, <3>1, HoldsPersist
    <2>3. QED BY <2>1, <2>2
  <1>4. ASSUME NEW sid, NEW s, Known(sid, s, cookie', pages', req')
        PROVE  Known(sid, s, cookie, pages, req)
    <2>1. CASE \E b \in Browsers : cookie'[b] \in Session /\ cookie'[b].sid = sid /\ cookie'[b].sub = s
      BY <2>1 DEF Known
    <2>2. CASE \E p \in pages' : p.form = "consent" /\ p.csrf = sid /\ p.subject = s
      <3>1. PICK p \in pages' : p.form = "consent" /\ p.csrf = sid /\ p.subject = s
        BY <2>2
      <3>2. CASE p \in pages
        BY <3>1, <3>2 DEF Known
      <3>3. CASE p \notin pages
        BY <3>1, <3>3
      <3>4. QED BY <3>2, <3>3
    <2>3. CASE \E p \in Requests : /\ req'[p] \in Request /\ req'[p].session \in Session
                                   /\ req'[p].session.sid = sid /\ req'[p].session.sub = s
      <3>1. PICK p \in Requests : /\ req'[p] \in Request /\ req'[p].session \in Session
                                  /\ req'[p].session.sid = sid /\ req'[p].session.sub = s
        BY <2>3
      <3>2. CASE p = r
        BY <1>1, <3>1, <3>2
      <3>3. CASE p # r
        <4>1. req'[p] = req[p]
          BY <1>2, <3>3
        <4>2. QED BY <3>1, <4>1 DEF Known
      <3>4. QED BY <3>2, <3>3
    <2>4. QED BY <1>4, <2>1, <2>2, <2>3 DEF Known
  <1>5. SidsAgree(cookie', pages', req')
    BY <1>b, <1>4 DEF SidsAgree
  <1>6. QED BY <1>1, <1>3, <1>5 DEF AllRequestsHold

\* A step after which nobody new is about to issue, and no code is new.
LEMMA UrisQuiet ==
    ASSUME FlowInv, ParKept, issued' = issued,
           \A r \in Requests, u \in RequestUris : Issuing(r, u)' => Issuing(r, u)
    PROVE  \A u \in RequestUris : UriHolds(u)'
  <1>1. ASSUME NEW u \in RequestUris
        PROVE  UriHolds(u)'
    <2>1. UriHolds(u) /\ CodesOf(u)' = CodesOf(u)
      BY DEF FlowInv, CodesOf
    <2>2. \A r \in Requests : Issuing(r, u)' => Issuing(r, u)
      OBVIOUS
    <2>3. par[u] \in ParRow /\ par[u].consumed => par'[u] \in ParRow /\ par'[u].consumed
      BY DEF ParKept
    <2>4. QED BY <2>1, <2>2, <2>3 DEF UriHolds
  <1>2. QED BY <1>1

\* The codes keep what they rest on.
LEMMA CodesPersist ==
    ASSUME FlowInv, Persist, pages \subseteq pages', issued' = issued
    PROVE  \A c \in Codes : CodeHolds(issued'[c], interactions')
  <1>1. TypeOK /\ \A c \in Codes : CodeHolds(issued[c], interactions)
    BY DEF FlowInv
  <1>2. QED BY <1>1, HoldsPersist DEF CodeHolds

-----------------------------------------------------------------------------
(* Moves of a request.                                                     *)

\* The parts of the state no conjunct of the invariant relates to a request.
RestTyped ==
    /\ clock' \in Nat
    /\ par' \in [RequestUris -> ParRow \cup {Null}]
    /\ interactions' \in [Interactions -> InteractionRow \cup {Null}]
    /\ pages' \subseteq Page
    /\ declined' \subseteq RequestUris

\* A request moves without anybody about to issue.
LEMMA QuietMove ==
    ASSUME FlowInv, RestTyped, Persist, ParKept, cookie' = cookie, issued' = issued,
           pages \subseteq pages',
           NEW r \in Requests, NEW q \in Request \cup {Null}, req' = [req EXCEPT ![r] = q],
           q \in Request => /\ q.pc # "issue"
                            /\ RequestHolds(q, interactions', pages')
                            /\ q.session \in Session => Known(q.session.sid, q.session.sub, cookie, pages, req),
           \A p \in pages' \ pages : p.form = "consent" => Known(p.csrf, p.subject, cookie, pages, req)
    PROVE  FlowInv'
  <1>a. TypeOK /\ req \in [Requests -> Request \cup {Null}]
    BY DEF FlowInv, TypeOK
  <1>1. /\ req' \in [Requests -> Request \cup {Null}]
        /\ AllRequestsHold(interactions', pages', req')
        /\ SidsAgree(cookie', pages', req')
    BY RequestMoves
  <1>2. \A c \in Codes : CodeHolds(issued'[c], interactions')
    BY CodesPersist
  <1>3. ASSUME NEW p \in Requests, NEW u \in RequestUris, Issuing(p, u)'
        PROVE  Issuing(p, u)
    <2>1. CASE p = r
      BY <1>a, <1>3, <2>1 DEF Issuing, At
    <2>2. CASE p # r
      BY <1>a, <1>3, <2>2 DEF Issuing, At
    <2>3. QED BY <2>1, <2>2
  <1>4. \A u \in RequestUris : UriHolds(u)'
    BY <1>3, UrisQuiet
  <1>5. TypeOK'
    BY <1>a, <1>1 DEF TypeOK, RestTyped
  <1>6. QED BY <1>1, <1>2, <1>4, <1>5 DEF FlowInv

\* What a step that leaves the tables and the browsers alone leaves alone.
LEMMA NothingMoves ==
    ASSUME FlowInv, UNCHANGED <<clock, tables, browserState, answers>>
    PROVE  /\ RestTyped /\ Persist /\ ParKept /\ cookie' = cookie /\ issued' = issued
           /\ pages' = pages /\ interactions' = interactions
  BY DEF FlowInv, TypeOK, RestTyped, Persist, ParKept, tables, browserState, answers

\* A request in flight is a record, and what the invariant says of it; its
\* session is known through it.
LEMMA InFlight ==
    ASSUME FlowInv, NEW r \in Requests, req[r] # Null
    PROVE  /\ req[r] \in Request
           /\ RequestHolds(req[r], interactions, pages)
           /\ req[r].session \in Session =>
                 Known(req[r].session.sid, req[r].session.sub, cookie, pages, req)
  <1>1. req[r] \in Request
    BY DEF FlowInv, TypeOK
  <1>2. QED BY <1>1 DEF FlowInv, AllRequestsHold, Known

\* A request that is over.
LEMMA FinishMove ==
    ASSUME FlowInv, RestTyped, Persist, ParKept, cookie' = cookie, issued' = issued,
           pages \subseteq pages', NEW r \in Requests, Finish(r),
           \A p \in pages' \ pages : p.form = "consent" => Known(p.csrf, p.subject, cookie, pages, req)
    PROVE  FlowInv'
  <1>1. Null \notin Request
    BY NullIsNoFlowRow
  <1>2. QED BY <1>1, QuietMove DEF Finish

\* A request goes on, past a check of its session or not.
Moves(r, pc) == Goto(r, pc) \/ Resume(r, pc, clock)

\* What it carries then: all it had, and when it got there.
LEMMA Moved ==
    ASSUME FlowInv, NEW r \in Requests, NEW pc \in Steps, req[r] # Null, Moves(r, pc)
    PROVE  \E q \in Request :
               /\ req' = [req EXCEPT ![r] = q] /\ q.pc = pc /\ q.now = clock
               /\ Goto(r, pc) => q.checkedAt = req[r].checkedAt
               /\ Resume(r, pc, clock) => q.checkedAt = clock
               /\ q.at = req[r].at /\ q.uri = req[r].uri /\ q.interaction = req[r].interaction
               /\ q.session = req[r].session /\ q.page = req[r].page
  <1>1. /\ req[r] \in Request /\ clock \in Nat /\ req[r].checkedAt \in Nat
        /\ req \in [Requests -> Request \cup {Null}]
    BY InFlight DEF FlowInv, TypeOK, Request
  <1>2. ASSUME NEW t \in Nat, Resume(r, pc, t)
        PROVE  /\ req'[r] \in Request /\ req' = [req EXCEPT ![r] = req'[r]]
               /\ req'[r].pc = pc /\ req'[r].now = clock /\ req'[r].checkedAt = t
               /\ req'[r].at = req[r].at /\ req'[r].uri = req[r].uri
               /\ req'[r].interaction = req[r].interaction
               /\ req'[r].session = req[r].session /\ req'[r].page = req[r].page
    <2> DEFINE q == [req[r] EXCEPT !.pc = pc, !.now = clock, !.checkedAt = t]
    <2>1. req' = [req EXCEPT ![r] = q] /\ req'[r] = q
      BY <1>1, <1>2 DEF Resume
    <2>2. q \in Request /\ q.pc = pc /\ q.now = clock /\ q.checkedAt = t
      BY <1>1 DEF Request
    <2>3. /\ q.at = req[r].at /\ q.uri = req[r].uri /\ q.interaction = req[r].interaction
          /\ q.session = req[r].session /\ q.page = req[r].page
      BY <1>1 DEF Request
    <2> HIDE DEF q
    <2>4. QED BY <2>1, <2>2, <2>3
  <1>3. QED BY <1>1, <1>2 DEF Moves, Goto

\* A request that goes on to its next await.
LEMMA GotoMove ==
    ASSUME FlowInv, RestTyped, Persist, ParKept, cookie' = cookie, issued' = issued, pages' = pages,
           NEW r \in Requests, NEW pc \in Steps \ {"issue"}, req[r] # Null, Moves(r, pc),
           RequestHolds([req[r] EXCEPT !.pc = pc], interactions', pages)
    PROVE  FlowInv'
  <1>1. /\ req[r] \in Request
        /\ req[r].session \in Session =>
              Known(req[r].session.sid, req[r].session.sub, cookie, pages, req)
    BY InFlight
  <1>2. PICK q \in Request :
            /\ req' = [req EXCEPT ![r] = q] /\ q.pc = pc
            /\ q.at = req[r].at /\ q.uri = req[r].uri /\ q.interaction = req[r].interaction
            /\ q.session = req[r].session /\ q.page = req[r].page
    BY Moved
  <1>3. req' = [req EXCEPT ![r] = q]
    BY <1>2
  <1>4. RequestHolds(q, interactions', pages')
    <2> DEFINE o == [req[r] EXCEPT !.pc = pc]
    <2>1. /\ o.pc = pc /\ o.at = req[r].at /\ o.uri = req[r].uri /\ o.interaction = req[r].interaction
          /\ o.session = req[r].session /\ o.page = req[r].page
      BY <1>1 DEF Request
    <2> HIDE DEF o
    <2>2. RequestHolds(o, interactions', pages')
      BY DEF o
    <2>3. QED BY <1>2, <2>1, <2>2 DEF RequestHolds
  <1>5. q \in Request => /\ q.pc # "issue"
                         /\ RequestHolds(q, interactions', pages')
                         /\ q.session \in Session => Known(q.session.sid, q.session.sub, cookie, pages, req)
    BY <1>1, <1>2, <1>4
  <1>6. QED BY <1>2, <1>3, <1>5, QuietMove

\* A request that arrives, with the cookie of its browser.
LEMMA StartMove ==
    ASSUME FlowInv, UNCHANGED <<clock, tables, browserState, answers>>,
           NEW r \in Requests, NEW pc \in Steps \ {"issue"}, NEW at \in Endpoints, NEW u \in RequestUris,
           NEW i \in Interactions \cup {Null}, NEW b \in Browsers, NEW subject \in Users \cup {Null},
           NEW page \in Page \cup {Null}, NEW approved \in BOOLEAN,
           Start(r, pc, at, u, i, b, subject, page, approved),
           RequestHolds([pc |-> pc, at |-> at, uri |-> u, interaction |-> i, browser |-> b,
                         session |-> cookie[b], now |-> clock, checkedAt |-> 0, subject |-> subject,
                         page |-> page, approved |-> approved], interactions, pages)
    PROVE  FlowInv'
  <1> DEFINE q == [pc |-> pc, at |-> at, uri |-> u, interaction |-> i, browser |-> b,
                   session |-> cookie[b], now |-> clock, checkedAt |-> 0, subject |-> subject,
                   page |-> page, approved |-> approved]
  <1>1. cookie[b] \in Session \cup {Null} /\ clock \in Nat
    BY DEF FlowInv, TypeOK
  <1>2. q \in Request /\ q.pc = pc /\ q.session = cookie[b]
    BY <1>1 DEF Request
  <1>3. req' = [req EXCEPT ![r] = q] /\ RequestHolds(q, interactions, pages)
    BY DEF Start
  <1> HIDE DEF q
  <1>4. q.session \in Session => Known(q.session.sid, q.session.sub, cookie, pages, req)
    BY <1>2 DEF Known
  <1>5. QED BY <1>2, <1>3, <1>4, NothingMoves, QuietMove


-----------------------------------------------------------------------------
(* The requests that arrive.                                               *)

\* Whatever request arrives, the invariant holds of it.
LEMMA ArrivalSteps ==
    ASSUME FlowInv, NEW r \in Requests
    PROVE  /\ \A b \in Browsers, u \in RequestUris : Authorize(r, b, u) => FlowInv'
           /\ \A b \in Browsers, i \in Interactions : GetInteraction(r, b, i) => FlowInv'
           /\ \A page \in pages : SubmitLogin(r, page) => FlowInv'
           /\ \A page \in pages, approved \in BOOLEAN : SubmitConsent(r, page, approved) => FlowInv'
  <1>a. /\ interactions \in [Interactions -> InteractionRow \cup {Null}]
        /\ pages \subseteq Page /\ cookie \in [Browsers -> Session \cup {Null}]
    BY DEF FlowInv, TypeOK
  <1>1. ASSUME NEW b \in Browsers, NEW u \in RequestUris, Authorize(r, b, u)
        PROVE  FlowInv'
    <2>1. RequestHolds([pc |-> "authorize", at |-> "authorize", uri |-> u, interaction |-> Null,
                        browser |-> b, session |-> cookie[b], now |-> clock, checkedAt |-> 0,
                        subject |-> Null, page |-> Null, approved |-> TRUE], interactions, pages)
      BY DEF RequestHolds, Decided
    <2>2. "authorize" \in Steps \ {"issue"} /\ "authorize" \in Endpoints
      BY DEF Steps, Endpoints
    <2>3. QED BY <1>1, <2>1, <2>2, StartMove DEF Authorize
  <1>2. ASSUME NEW b \in Browsers, NEW i \in Interactions, GetInteraction(r, b, i)
        PROVE  FlowInv'
    <2>1. interactions[i] \in InteractionRow
      BY <1>a, <1>2 DEF GetInteraction, Pending
    <2>2. interactions[i].uri \in RequestUris /\ interactions[i].subject \in Users \cup {Null}
      BY <2>1 DEF InteractionRow
    <2>3. RequestHolds([pc |-> "par.peek", at |-> "interaction", uri |-> interactions[i].uri,
                        interaction |-> i, browser |-> b, session |-> cookie[b], now |-> clock,
                        checkedAt |-> 0, subject |-> interactions[i].subject, page |-> Null, approved |-> TRUE],
                       interactions, pages)
      BY <2>1 DEF RequestHolds, Decided
    <2>4. "par.peek" \in Steps \ {"issue"} /\ "interaction" \in Endpoints
      BY DEF Steps, Endpoints
    <2>5. QED BY <1>2, <2>2, <2>3, <2>4, StartMove DEF GetInteraction
  <1>3. ASSUME NEW page \in pages, SubmitLogin(r, page)
        PROVE  FlowInv'
    <2>1. page \in Page /\ page.interaction \in Interactions /\ page.browser \in Browsers
      BY <1>a DEF Page
    <2> DEFINE i == page.interaction
    <2>2. interactions[i] \in InteractionRow
      BY <1>a, <1>3, <2>1 DEF SubmitLogin, Pending
    <2>3. interactions[i].uri \in RequestUris /\ interactions[i].subject \in Users \cup {Null}
      BY <2>2 DEF InteractionRow
    <2>4. RequestHolds([pc |-> "par.peek", at |-> "login", uri |-> interactions[i].uri,
                        interaction |-> i, browser |-> page.browser, session |-> cookie[page.browser],
                        now |-> clock, checkedAt |-> 0, subject |-> interactions[i].subject, page |-> page,
                        approved |-> TRUE], interactions, pages)
      BY <2>1, <2>2 DEF RequestHolds, Decided
    <2>5. "par.peek" \in Steps \ {"issue"} /\ "login" \in Endpoints
      BY DEF Steps, Endpoints
    <2>6. QED BY <1>3, <2>1, <2>3, <2>4, <2>5, StartMove DEF SubmitLogin
  <1>4. ASSUME NEW page \in pages, NEW approved \in BOOLEAN, SubmitConsent(r, page, approved)
        PROVE  FlowInv'
    <2>1. page \in Page /\ page.interaction \in Interactions /\ page.browser \in Browsers
      BY <1>a DEF Page
    <2> DEFINE i == page.interaction
    <2>2. interactions[i] \in InteractionRow
      BY <1>a, <1>4, <2>1 DEF SubmitConsent, Pending
    <2>3. interactions[i].uri \in RequestUris /\ interactions[i].subject \in Users \cup {Null}
      BY <2>2 DEF InteractionRow
    <2>4. Opened(cookie[page.browser]) # Null
      BY <1>4 DEF SubmitConsent
    <2>5. cookie[page.browser] \in Session /\ Opened(cookie[page.browser]) = cookie[page.browser]
      BY <1>a, <2>1, <2>4 DEF Opened
    <2>6. page.csrf = cookie[page.browser].sid
      BY <1>4, <2>5 DEF SubmitConsent, VerifyCsrfToken
    <2>7. RequestHolds([pc |-> "par.peek", at |-> "consent", uri |-> interactions[i].uri,
                        interaction |-> i, browser |-> page.browser, session |-> cookie[page.browser],
                        now |-> clock, checkedAt |-> 0, subject |-> interactions[i].subject, page |-> page,
                        approved |-> approved], interactions, pages)
      BY <1>4, <2>1, <2>2, <2>5, <2>6 DEF RequestHolds, Decided, SubmitConsent
    <2>8. "par.peek" \in Steps \ {"issue"} /\ "consent" \in Endpoints
      BY DEF Steps, Endpoints
    <2>9. QED BY <1>4, <2>1, <2>3, <2>7, <2>8, StartMove DEF SubmitConsent
  <1>5. QED BY <1>1, <1>2, <1>3, <1>4

-----------------------------------------------------------------------------
(* The steps that serve a request.                                         *)

\* A request that goes on past a check, with the tables and browsers as they were.
LEMMA CheckedMove ==
    ASSUME FlowInv, UNCHANGED <<clock, tables, browserState, answers>>,
           NEW r \in Requests, NEW from \in Steps, NEW pc \in Steps \ {"issue"}, At(r, from), Moves(r, pc),
           RequestHolds([req[r] EXCEPT !.pc = pc], interactions, pages)
    PROVE  FlowInv'
  BY NothingMoves, GotoMove DEF At

\* A request that ends, with the tables and browsers as they were.
LEMMA EndMove ==
    ASSUME FlowInv, UNCHANGED <<clock, tables, browserState, answers>>, NEW r \in Requests, Finish(r)
    PROVE  FlowInv'
  BY NothingMoves, FinishMove

\* A session that needs no new login is one.
LEMMA SessionOpened ==
    ASSUME FlowInv, NEW r \in Requests, req[r] # Null,
           ~NeedsReauthentication(Opened(req[r].session), req[r].uri)
    PROVE  req[r].session \in Session
  <1>1. req[r] \in Request
    BY InFlight
  <1>2. req[r].session # Null
    BY DEF NeedsReauthentication, Opened
  <1>3. QED BY <1>1, <1>2 DEF Request

\* The answers that change nothing, and the checks.
LEMMA CheckSteps ==
    ASSUME FlowInv, NEW r \in Requests,
           \/ AuthorizeSilently(r) \/ ContextGone(r) \/ CheckLogin(r) \/ RejectLogin(r)
           \/ CheckConsent(r) \/ Abort(r) \/ \E allowed \in BOOLEAN : Decide(r, allowed)
    PROVE  FlowInv'
  <1> DEFINE To(pc) == [req[r] EXCEPT !.pc = pc]
  <1>a. req[r] # Null => /\ req[r] \in Request /\ RequestHolds(req[r], interactions, pages)
                         /\ \A pc \in Steps : /\ To(pc) \in Request /\ To(pc).pc = pc
                                              /\ To(pc).at = req[r].at /\ To(pc).uri = req[r].uri
                                              /\ To(pc).interaction = req[r].interaction
                                              /\ To(pc).session = req[r].session
                                              /\ To(pc).page = req[r].page
    BY InFlight DEF Request
  <1> HIDE DEF To
  <1>1. CASE AuthorizeSilently(r)
    <2>1. At(r, "authorize") /\ UNCHANGED <<clock, tables, browserState, answers>>
      BY <1>1 DEF AuthorizeSilently
    <2>2. CASE Finish(r)
      BY <2>1, <2>2, EndMove
    <2>3. CASE ~Finish(r)
      <3>1. Moves(r, "pdp.evaluate") /\ req[r].session \in Session
        BY <1>1, <2>1, <2>3, SessionOpened DEF AuthorizeSilently, At, Moves
      <3>2. "pdp.evaluate" \in Steps \ {"issue"} /\ "authorize" \in Steps
        BY DEF Steps
      <3>3. RequestHolds(To("pdp.evaluate"), interactions, pages)
        BY <1>a, <2>1, <3>1, <3>2 DEF RequestHolds, At, Decided
      <3>4. QED BY <2>1, <3>1, <3>2, <3>3, CheckedMove DEF To
    <2>4. QED BY <2>2, <2>3
  <1>2. CASE ContextGone(r) \/ RejectLogin(r) \/ Abort(r)
    BY <1>2, EndMove DEF ContextGone, RejectLogin, Abort
  <1>3. CASE CheckLogin(r)
    <2>1. "authenticate" \in Steps \ {"issue"} /\ "par.peek" \in Steps
      BY DEF Steps
    <2>2. At(r, "par.peek") /\ req[r].at = "login"
      BY <1>3 DEF CheckLogin
    <2>3. RequestHolds(To("authenticate"), interactions, pages)
      BY <1>a, <2>1, <2>2 DEF RequestHolds, At, Decided
    <2>4. QED BY <1>3, <2>1, <2>3, CheckedMove DEF CheckLogin, To, Moves
  <1>4. CASE CheckConsent(r)
    <2>1. "interactions.complete" \in Steps \ {"issue"} /\ "par.peek" \in Steps
      BY DEF Steps
    <2>2. At(r, "par.peek") /\ req[r].at = "consent"
      BY <1>4 DEF CheckConsent
    <2>3. RequestHolds(To("interactions.complete"), interactions, pages)
      BY <1>a, <2>1, <2>2 DEF RequestHolds, At, Decided
    <2>4. CASE Finish(r)
      BY <1>4, <2>4, EndMove DEF CheckConsent
    <2>5. CASE Goto(r, "interactions.complete")
      BY <1>4, <2>1, <2>3, <2>5, CheckedMove DEF CheckConsent, To, Moves
    <2>6. QED BY <1>4, <2>4, <2>5 DEF CheckConsent
  <1>5. ASSUME NEW allowed \in BOOLEAN, Decide(r, allowed)
        PROVE  FlowInv'
    <2> DEFINE pc == IF allowed THEN "par.consume" ELSE "decline"
    <2>1. pc \in Steps \ {"issue"} /\ "pdp.evaluate" \in Steps /\ pc \in Decided /\ pc # "authorize"
          /\ pc \notin {"par.peek", "authenticate", "interactions.setSubject", "interactions.complete"}
      BY DEF Steps, Decided
    <2>2. At(r, "pdp.evaluate") /\ Goto(r, pc) /\ UNCHANGED <<clock, tables, browserState, answers>>
      BY <1>5 DEF Decide
    <2> HIDE DEF pc
    <2>3. RequestHolds(To(pc), interactions, pages)
      BY <1>a, <2>1, <2>2 DEF RequestHolds, At, Decided
    <2>4. QED BY <2>1, <2>2, <2>3, CheckedMove DEF To, Moves
  <1>6. QED BY <1>1, <1>2, <1>3, <1>4, <1>5


\* Using up a request_uri, or finding that it is used or expired.
LEMMA ConsumeTyped ==
    ASSUME par \in [RequestUris -> ParRow \cup {Null}], NEW u \in RequestUris, NEW now, par' = ConsumePar(u, now)
    PROVE  /\ par' \in [RequestUris -> ParRow \cup {Null}]
           /\ ParKept
           /\ Usable(u, now) => par[u] \in ParRow /\ ~par[u].consumed /\ par'[u] \in ParRow /\ par'[u].consumed
  <1>1. CASE ~Usable(u, now)
    BY <1>1 DEF ConsumePar, ParKept
  <1>2. CASE Usable(u, now)
    <2> DEFINE row == [par[u] EXCEPT !.consumed = TRUE]
    <2>1. par[u] \in ParRow /\ ~par[u].consumed
      BY <1>2 DEF Usable
    <2>2. row \in ParRow /\ row.consumed /\ par' = [par EXCEPT ![u] = row]
      BY <1>2, <2>1 DEF ConsumePar, ParRow
    <2> HIDE DEF row
    <2>3. QED BY <2>1, <2>2 DEF ParKept
  <1>3. QED BY <1>1, <1>2

\* A new interaction, a form shown, a user bound to an interaction, an
\* interaction completed, a denial: what is written to the tables is kept.
LEMMA WriteSteps ==
    ASSUME FlowInv, NEW r \in Requests,
           \/ \E i \in Interactions : ParkInteraction(r, i)
           \/ Dispatch(r) \/ ShowConsent(r) \/ Complete(r) \/ Decline(r)
    PROVE  FlowInv'
  <1>a. /\ interactions \in [Interactions -> InteractionRow \cup {Null}]
        /\ par \in [RequestUris -> ParRow \cup {Null}]
        /\ pages \subseteq Page /\ declined \subseteq RequestUris /\ clock \in Nat
    BY DEF FlowInv, TypeOK
  <1>b. req[r] # Null => req[r] \in Request /\ RequestHolds(req[r], interactions, pages)
    BY InFlight
  <1>c. req[r] # Null /\ req[r].at # "authorize" =>
          /\ req[r].interaction \in Interactions /\ interactions[req[r].interaction] \in InteractionRow
    BY <1>b DEF RequestHolds
  <1>1. ASSUME NEW i \in Interactions, ParkInteraction(r, i)
        PROVE  FlowInv'
    <2> DEFINE row == [uri |-> req[r].uri, subject |-> Null,
                       expiresAt |-> clock + InteractionTtl, completed |-> FALSE]
    <2>1. req[r] \in Request
      BY <1>b, <1>1 DEF ParkInteraction, At
    <2>2. row \in InteractionRow /\ interactions' = [interactions EXCEPT ![i] = row]
      BY <1>a, <1>1, <2>1, FlowConstantsOK DEF ParkInteraction, InteractionRow, Request
    <2> HIDE DEF row
    <2>3. interactions[i] \notin InteractionRow
      BY <1>1, NullIsNoFlowRow DEF ParkInteraction
    <2>4. Persist
      BY <1>a, <2>2, <2>3 DEF Persist
    <2>5. RestTyped /\ ParKept /\ cookie' = cookie /\ issued' = issued /\ pages' = pages
      BY <1>a, <1>1, <2>2 DEF ParkInteraction, RestTyped, ParKept, browserState, answers
    <2>6. QED BY <1>1, <2>4, <2>5, FinishMove DEF ParkInteraction
  <1>2. CASE Dispatch(r)
    <2>1. /\ At(r, "par.peek") /\ req[r].at = "interaction"
          /\ Persist /\ ParKept /\ cookie' = cookie /\ issued' = issued
          /\ interactions' = interactions /\ par' = par /\ clock' = clock /\ declined' = declined
      BY <1>2 DEF Dispatch, tables, answers, Persist, ParKept
    <2>2. req[r] \in Request /\ req[r].interaction \in Interactions /\ req[r].browser \in Browsers
      BY <1>b, <1>c, <2>1 DEF At, Request
    <2>3. CASE NeedsReauthentication(Opened(req[r].session), req[r].uri)
      <3> DEFINE p == Login(req[r].browser, req[r].interaction)
      <3>1. pages' = pages \cup {p} /\ Finish(r)
        BY <1>2, <2>3 DEF Dispatch
      <3>2. p \in Page /\ p.form = "login"
        BY <2>2 DEF Login, Page
      <3> HIDE DEF p
      <3>3. RestTyped
        BY <1>a, <2>1, <3>1, <3>2 DEF RestTyped
      <3>4. QED BY <2>1, <3>1, <3>2, <3>3, FinishMove
    <2>4. CASE ~NeedsReauthentication(Opened(req[r].session), req[r].uri)
      <3>1. Moves(r, "interactions.setSubject") /\ pages' = pages /\ req[r].session \in Session
        BY <1>2, <2>1, <2>4, SessionOpened DEF Dispatch, At, Moves
      <3>2. RestTyped
        BY <1>a, <2>1, <3>1 DEF RestTyped
      <3>3. "interactions.setSubject" \in Steps \ {"issue"}
        BY DEF Steps
      <3> DEFINE q == [req[r] EXCEPT !.pc = "interactions.setSubject"]
      <3>4. /\ q.pc = "interactions.setSubject" /\ q.at = "interaction" /\ q.session = req[r].session
            /\ q.uri = req[r].uri /\ q.interaction = req[r].interaction
        BY <2>1, <2>2 DEF Request
      <3> HIDE DEF q
      <3>5. RequestHolds(q, interactions', pages)
        BY <1>b, <2>1, <3>1, <3>4 DEF RequestHolds, At, Decided
      <3>6. req[r] # Null
        BY <2>1 DEF At
      <3>7. QED BY <2>1, <3>1, <3>2, <3>3, <3>5, <3>6, GotoMove DEF q
    <2>5. QED BY <2>3, <2>4
  <1>3. CASE ShowConsent(r)
    <2> DEFINE i == req[r].interaction
               p == Consent(req[r].browser, i, req[r].session, req[r].checkedAt)
    <2>1. At(r, "interactions.setSubject") /\ req[r] # Null /\ req[r].at = "interaction"
      BY <1>3, <1>b DEF ShowConsent, At, RequestHolds
    <2>2. /\ req[r] \in Request /\ i \in Interactions /\ req[r].browser \in Browsers
          /\ interactions[i] \in InteractionRow /\ req[r].session \in Session
      BY <1>b, <1>c, <2>1 DEF At, Request, RequestHolds
    <2>3. p \in Page /\ p.csrf = req[r].session.sid /\ p.subject = req[r].session.sub
      BY <2>2 DEF Consent, Page, Session, Request
    <2>4. /\ pages' = pages \cup {p} /\ Finish(r) /\ UNCHANGED <<clock, par, cookie, answers>>
          /\ interactions' = IF interactions[i].completed THEN interactions
                             ELSE [interactions EXCEPT ![i].subject = req[r].session.sub]
      BY <1>3 DEF ShowConsent
    <2>5. Known(p.csrf, p.subject, cookie, pages, req)
      BY <2>2, <2>3 DEF Known
    <2> HIDE DEF p, i
    <2>6. interactions' \in [Interactions -> InteractionRow \cup {Null}] /\ Persist
      <3> DEFINE row == [interactions[i] EXCEPT !.subject = req[r].session.sub]
      <3>1. CASE interactions' = interactions
        BY <1>a, <3>1 DEF Persist
      <3>2. CASE interactions' # interactions
        <4>1. interactions' = [interactions EXCEPT ![i] = row]
          BY <2>4, <3>2
        <4>2. /\ row \in InteractionRow /\ row.uri = interactions[i].uri
              /\ row.completed = interactions[i].completed
          BY <2>2 DEF InteractionRow, Session
        <4> HIDE DEF row
        <4>3. QED BY <1>a, <2>2, <4>1, <4>2 DEF Persist
      <3>3. QED BY <3>1, <3>2
    <2>7. RestTyped /\ ParKept /\ cookie' = cookie /\ issued' = issued
      BY <1>a, <2>3, <2>4, <2>6 DEF RestTyped, ParKept, answers
    <2>8. \A o \in pages' \ pages : Known(o.csrf, o.subject, cookie, pages, req)
      BY <2>4, <2>5
    <2>9. QED BY <2>4, <2>6, <2>7, <2>8, FinishMove
  <1>4. CASE Complete(r)
    <2> DEFINE i == req[r].interaction
               pc == IF req[r].approved THEN "pdp.evaluate" ELSE "decline"
    <2>1. At(r, "interactions.complete") /\ req[r] # Null /\ req[r].at = "consent"
      BY <1>4, <1>b DEF Complete, At, RequestHolds
    <2>2. CASE Finish(r) /\ interactions' = interactions
      BY <1>4, <2>2, EndMove DEF Complete, tables
    <2>3. CASE \E now \in Captured(r) :
                   /\ Pending(i, now) /\ interactions' = [interactions EXCEPT ![i].completed = TRUE]
                   /\ Goto(r, pc)
      <3>1. /\ interactions' = [interactions EXCEPT ![i].completed = TRUE] /\ Goto(r, pc)
            /\ UNCHANGED <<clock, par, browserState, answers>>
        BY <1>4, <2>3 DEF Complete
      <3>2. /\ req[r] \in Request /\ i \in Interactions /\ interactions[i] \in InteractionRow
            /\ interactions[i].uri = req[r].uri /\ req[r].page \in pages /\ req[r].session \in Session
        BY <1>b, <1>c, <2>1 DEF RequestHolds
      <3> DEFINE row == [interactions[i] EXCEPT !.completed = TRUE]
      <3>3. /\ interactions' = [interactions EXCEPT ![i] = row] /\ row \in InteractionRow
            /\ row.uri = interactions[i].uri /\ row.completed
        BY <3>1, <3>2 DEF InteractionRow
      <3>4. pc \in Steps \ {"issue"} /\ pc \in Decided /\ pc # "authorize"
            /\ pc \notin {"par.peek", "authenticate", "interactions.setSubject", "interactions.complete"}
        BY DEF Steps, Decided
      <3> DEFINE q == [req[r] EXCEPT !.pc = pc]
      <3>5. /\ q.pc = pc /\ q.at = "consent" /\ q.session = req[r].session
            /\ q.uri = req[r].uri /\ q.interaction = i /\ q.page = req[r].page
        BY <2>1, <3>2 DEF Request
      <3> HIDE DEF row, pc, i
      <3>6. /\ interactions' \in [Interactions -> InteractionRow \cup {Null}]
            /\ interactions'[i] = row
        BY <1>a, <3>2, <3>3
      <3>7. Persist
        BY <1>a, <3>2, <3>3 DEF Persist
      <3>8. RestTyped /\ ParKept /\ cookie' = cookie /\ issued' = issued /\ pages' = pages
        BY <1>a, <3>1, <3>6 DEF RestTyped, ParKept, browserState, answers
      <3> HIDE DEF q
      <3>9. RequestHolds(q, interactions', pages)
        BY <1>b, <2>1, <3>2, <3>3, <3>4, <3>5, <3>6 DEF RequestHolds, Decided, i
      <3>10. QED BY <2>1, <3>1, <3>4, <3>7, <3>8, <3>9, GotoMove DEF q, Moves
    <2>4. QED BY <1>4, <2>2, <2>3 DEF Complete
  <1>5. CASE Decline(r)
    <2>1. PICK now \in Captured(r) :
              /\ At(r, "decline") /\ Finish(r) /\ UNCHANGED <<clock, interactions, browserState, issued>>
              /\ par' = ConsumePar(req[r].uri, now) /\ declined' = declined \cup {req[r].uri}
      BY <1>5 DEF Decline
    <2>2. req[r].uri \in RequestUris
      BY <1>b, <2>1 DEF At, Request
    <2>3. par' \in [RequestUris -> ParRow \cup {Null}] /\ ParKept
      BY <1>a, <2>1, <2>2, ConsumeTyped
    <2>4. RestTyped /\ Persist /\ cookie' = cookie /\ pages' = pages
      BY <1>a, <2>1, <2>2, <2>3 DEF RestTyped, Persist, browserState
    <2>5. QED BY <2>1, <2>3, <2>4, FinishMove
  <1>6. QED BY <1>1, <1>2, <1>3, <1>4, <1>5


\* A new login: a session id nobody has seen, and the end of the request.
LEMMA AuthenticateStep ==
    ASSUME FlowInv, NEW r \in Requests, NEW user \in Users, NEW sid \in Sids, Authenticate(r, user, sid)
    PROVE  FlowInv'
  <1> DEFINE new == [sid |-> sid, sub |-> user, authTime |-> clock, exp |-> clock + SessionTtl]
  <1>a. TypeOK /\ cookie \in [Browsers -> Session \cup {Null}] /\ clock \in Nat
        /\ req \in [Requests -> Request \cup {Null}]
        /\ AllRequestsHold(interactions, pages, req) /\ SidsAgree(cookie, pages, req)
    BY DEF FlowInv, TypeOK
  <1>b. /\ At(r, "authenticate") /\ FreshSid(sid) /\ Finish(r)
        /\ cookie' = [cookie EXCEPT ![req[r].browser] = new]
        /\ UNCHANGED <<clock, par, interactions, pages, issued, declined>>
    BY DEF Authenticate, tables, answers
  <1>1. new \in Session /\ new.sid = sid /\ new.sub = user /\ req[r].browser \in Browsers
    BY <1>a, <1>b, FlowConstantsOK DEF Session, At, Request
  <1> HIDE DEF new
  <1>2. req' \in [Requests -> Request \cup {Null}] /\ \A p \in Requests : req'[p] \in Request => req'[p] = req[p]
    BY <1>a, <1>b, NullIsNoFlowRow DEF Finish
  <1>3. AllRequestsHold(interactions', pages', req')
    BY <1>a, <1>b, <1>2 DEF AllRequestsHold
  <1>4. ASSUME NEW s PROVE ~Known(sid, s, cookie, pages, req)
    BY <1>a, <1>b, NullIsNoFlowRow DEF FreshSid, Known
  <1>5. ASSUME NEW x, NEW s, Known(x, s, cookie', pages', req')
        PROVE  Known(x, s, cookie, pages, req) \/ (x = sid /\ s = user)
    <2>1. CASE \E b \in Browsers : cookie'[b] \in Session /\ cookie'[b].sid = x /\ cookie'[b].sub = s
      <3>1. PICK b \in Browsers : cookie'[b] \in Session /\ cookie'[b].sid = x /\ cookie'[b].sub = s
        BY <2>1
      <3>2. CASE b = req[r].browser
        BY <1>a, <1>b, <1>1, <3>1, <3>2
      <3>3. CASE b # req[r].browser
        <4>1. cookie'[b] = cookie[b]
          BY <1>a, <1>b, <1>1, <3>3
        <4>2. QED BY <3>1, <4>1 DEF Known
      <3>4. QED BY <3>2, <3>3
    <2>2. CASE \E p \in pages' : p.form = "consent" /\ p.csrf = x /\ p.subject = s
      BY <1>b, <2>2 DEF Known
    <2>3. CASE \E p \in Requests : /\ req'[p] \in Request /\ req'[p].session \in Session
                                   /\ req'[p].session.sid = x /\ req'[p].session.sub = s
      BY <1>2, <2>3 DEF Known
    <2>4. QED BY <1>5, <2>1, <2>2, <2>3 DEF Known
  <1>6. SidsAgree(cookie', pages', req')
    BY <1>a, <1>4, <1>5 DEF SidsAgree
  <1>7. Persist /\ ParKept /\ pages \subseteq pages' /\ issued' = issued
    BY <1>b DEF Persist, ParKept
  <1>8. \A c \in Codes : CodeHolds(issued'[c], interactions')
    BY <1>7, CodesPersist
  <1>9. ASSUME NEW p \in Requests, NEW u \in RequestUris, Issuing(p, u)'
        PROVE  Issuing(p, u)
    <2>1. req'[p] \in Request
      BY <1>2, <1>9 DEF Issuing, At
    <2>2. req'[p] = req[p]
      BY <1>2, <2>1
    <2>3. QED BY <1>9, <2>2 DEF Issuing, At
  <1>10. \A u \in RequestUris : UriHolds(u)'
    BY <1>7, <1>9, UrisQuiet
  <1>11. cookie' \in [Browsers -> Session \cup {Null}]
    BY <1>a, <1>b, <1>1
  <1>12. TypeOK'
    BY <1>a, <1>b, <1>2, <1>11 DEF TypeOK
  <1>13. QED BY <1>3, <1>6, <1>8, <1>10, <1>12 DEF FlowInv

\* par.consume lets one request through: nobody else is about to issue for the
\* request_uri, and there is no code for it.
LEMMA ConsumeStep ==
    ASSUME FlowInv, NEW r \in Requests, Consume(r)
    PROVE  FlowInv'
  <1> DEFINE u == req[r].uri
  <1>a. TypeOK /\ req \in [Requests -> Request \cup {Null}] /\ par \in [RequestUris -> ParRow \cup {Null}]
    BY DEF FlowInv, TypeOK
  <1>0. PICK now \in Captured(r) :
            /\ par' = ConsumePar(u, now)
            /\ IF Usable(u, now) THEN Goto(r, "issue") ELSE Finish(r)
    BY DEF Consume
  <1>b. /\ At(r, "par.consume") /\ par' = ConsumePar(u, now)
        /\ UNCHANGED <<clock, interactions, cookie, pages, issued, declined>>
    BY <1>0 DEF Consume, browserState, answers
  <1>c. /\ req[r] # Null /\ req[r] \in Request /\ RequestHolds(req[r], interactions, pages) /\ u \in RequestUris
        /\ req[r].session \in Session => Known(req[r].session.sid, req[r].session.sub, cookie, pages, req)
    BY <1>b, InFlight DEF At, Request
  <1> HIDE DEF u
  <1>1. /\ par' \in [RequestUris -> ParRow \cup {Null}] /\ ParKept
        /\ Usable(u, now) => par[u] \in ParRow /\ ~par[u].consumed /\ par'[u] \in ParRow /\ par'[u].consumed
    BY <1>a, <1>b, <1>c, ConsumeTyped
  <1>2. RestTyped /\ Persist /\ pages' = pages /\ cookie' = cookie /\ issued' = issued
    BY <1>a, <1>b, <1>1 DEF TypeOK, RestTyped, Persist
  <1>3. CASE ~Usable(u, now)
    <2>1. Finish(r)
      BY <1>0, <1>3
    <2>2. QED BY <1>1, <1>2, <2>1, FinishMove
  <1>4. CASE Usable(u, now)
    <2>0. Moves(r, "issue") /\ "issue" \in Steps
      BY <1>0, <1>4 DEF Moves, Steps
    <2>1. PICK q \in Request :
              /\ req' = [req EXCEPT ![r] = q] /\ q.pc = "issue" /\ q.at = req[r].at /\ q.uri = req[r].uri
              /\ q.session = req[r].session /\ q.interaction = req[r].interaction /\ q.page = req[r].page
      BY <1>c, <2>0, Moved
    <2>2. /\ q \in Request /\ q.pc = "issue" /\ q.at = req[r].at /\ q.session = req[r].session
          /\ q.uri = u /\ q.interaction = req[r].interaction /\ q.page = req[r].page
      BY <2>1 DEF u
    <2>3. RequestHolds(q, interactions, pages)
      BY <1>b, <1>c, <2>2 DEF RequestHolds, At, Decided, u
    <2>4. /\ req' \in [Requests -> Request \cup {Null}]
          /\ AllRequestsHold(interactions', pages', req')
          /\ SidsAgree(cookie', pages', req')
      <3>1. RequestHolds(q, interactions', pages') /\ pages \subseteq pages' /\ pages' \ pages = {}
        BY <1>b, <2>3
      <3>2. q.session \in Session => Known(q.session.sid, q.session.sub, cookie, pages, req)
        BY <1>c, <2>2
      <3>3. QED BY <1>2, <2>1, <2>2, <3>1, <3>2, RequestMoves
    <2>5. \A c \in Codes : CodeHolds(issued'[c], interactions')
      BY <1>2, CodesPersist
    <2>6. ASSUME NEW p \in Requests, NEW v \in RequestUris, Issuing(p, v)'
          PROVE  Issuing(p, v) \/ (p = r /\ v = u)
      <3>1. CASE p = r
        BY <1>a, <2>1, <2>2, <2>6, <3>1 DEF Issuing, At
      <3>2. CASE p # r
        BY <1>a, <2>1, <2>6, <3>2 DEF Issuing, At
      <3>3. QED BY <3>1, <3>2
    <2>7. (\A p \in Requests : ~Issuing(p, u)) /\ CodesOf(u) = {}
      BY <1>c, <1>1, <1>4 DEF FlowInv, UriHolds
    <2>8. ASSUME NEW v \in RequestUris PROVE UriHolds(v)'
      <3>1. UriHolds(v) /\ CodesOf(v)' = CodesOf(v)
        BY <1>b DEF FlowInv, CodesOf
      <3>2. CASE v = u
        BY <1>1, <1>4, <2>6, <2>7, <3>1, <3>2 DEF UriHolds
      <3>3. CASE v # u
        <4>1. \A p \in Requests : Issuing(p, v)' => Issuing(p, v)
          BY <2>6, <3>3
        <4>2. par[v] \in ParRow /\ par[v].consumed => par'[v] \in ParRow /\ par'[v].consumed
          BY <1>1 DEF ParKept
        <4>3. QED BY <3>1, <4>1, <4>2 DEF UriHolds
      <3>4. QED BY <3>2, <3>3
    <2>9. TypeOK'
      BY <1>a, <1>b, <1>1, <2>4 DEF TypeOK
    <2>10. QED BY <2>4, <2>5, <2>8, <2>9 DEF FlowInv
  <1>5. QED BY <1>3, <1>4


\* The code of the one request that got past par.consume.
LEMMA IssueStep ==
    ASSUME FlowInv, NEW r \in Requests, NEW c \in Codes, IssueCode(r, c)
    PROVE  FlowInv'
  <1> DEFINE u == req[r].uri
             k == [uri |-> u, page |-> req[r].page, subject |-> req[r].session.sub,
                   authTime |-> req[r].session.authTime,
                   checkedAt |-> IF req[r].page = Null THEN req[r].checkedAt ELSE req[r].page.checkedAt]
  <1>a. TypeOK /\ req \in [Requests -> Request \cup {Null}] /\ issued \in [Codes -> CodeRow \cup {Null}]
        /\ pages \subseteq Page
    BY DEF FlowInv, TypeOK
  <1>b. /\ At(r, "issue") /\ Finish(r) /\ issued[c] = Null /\ issued' = [issued EXCEPT ![c] = k]
        /\ UNCHANGED <<clock, par, interactions, cookie, pages, declined>>
    BY DEF IssueCode, tables, browserState
  <1>c. /\ req[r] # Null /\ req[r] \in Request /\ RequestHolds(req[r], interactions, pages)
        /\ u \in RequestUris /\ req[r].page \in Page \cup {Null}
    BY <1>b, InFlight DEF At, Request
  <1>d. req[r].session \in Session /\ req[r].at \in {"authorize", "consent"}
    BY <1>b, <1>c DEF RequestHolds, At, Decided
  <1>1. k \in CodeRow /\ k.uri = u /\ k.page = req[r].page /\ k.subject = req[r].session.sub
    BY <1>c, <1>d DEF CodeRow, Session, Request, Page
  <1>2. Issuing(r, u) /\ Null \notin Request /\ Null \notin CodeRow
    BY <1>b, NullIsNoFlowRow DEF Issuing
  <1> HIDE DEF k, u
  <1>3. Persist /\ ParKept /\ pages \subseteq pages' /\ pages' \ pages = {} /\ cookie' = cookie
    BY <1>b DEF Persist, ParKept
  <1>4. /\ req' \in [Requests -> Request \cup {Null}]
        /\ AllRequestsHold(interactions', pages', req')
        /\ SidsAgree(cookie', pages', req')
    <2>1. req' = [req EXCEPT ![r] = Null]
      BY <1>b DEF Finish
    <2>2. QED BY <1>2, <1>3, <2>1, RequestMoves
  <1>5. CodeHolds(k, interactions)
    <2>1. SUFFICES ASSUME k.page # Null PROVE CodeHolds(k, interactions)
      BY DEF CodeHolds
    <2>2. req[r].at = "consent"
      BY <1>c, <1>d, <1>1, <2>1 DEF RequestHolds
    <2>3. /\ k.page \in pages /\ k.page.form = "consent" /\ k.page.interaction = req[r].interaction
          /\ k.page.csrf = req[r].session.sid
          /\ interactions[k.page.interaction] \in InteractionRow
          /\ interactions[k.page.interaction].uri = k.uri
          /\ interactions[k.page.interaction].completed
      BY <1>b, <1>c, <1>1, <2>2 DEF RequestHolds, At, Decided, u
    <2>4. Known(k.page.csrf, k.page.subject, cookie, pages, req)
      BY <2>3 DEF Known
    <2>5. Known(k.page.csrf, k.subject, cookie, pages, req)
      BY <1>c, <1>d, <1>1, <2>3 DEF Known
    <2>6. k.page.subject = k.subject
      BY <2>4, <2>5 DEF FlowInv, SidsAgree
    <2>7. QED BY <2>3, <2>6 DEF CodeHolds
  <1>6. ASSUME NEW d \in Codes PROVE CodeHolds(issued'[d], interactions')
    <2>1. CASE d = c
      BY <1>a, <1>b, <1>5, <2>1
    <2>2. CASE d # c
      BY <1>a, <1>b, <2>2 DEF FlowInv
    <2>3. QED BY <2>1, <2>2
  <1>7. ASSUME NEW p \in Requests, NEW v \in RequestUris, Issuing(p, v)'
        PROVE  Issuing(p, v) /\ p # r
    BY <1>a, <1>b, <1>7 DEF Issuing, At, Finish
  <1>8. ASSUME NEW v \in RequestUris PROVE UriHolds(v)'
    <2>1. UriHolds(v) /\ UriHolds(u)
      BY <1>c DEF FlowInv
    <2>2. CASE v = u
      <3>1. Issuing(r, v) /\ CodesOf(v) = {} /\ \A p \in Requests : Issuing(p, v) => p = r
        BY <1>2, <2>1, <2>2 DEF UriHolds
      <3>2. \A p \in Requests : ~Issuing(p, v)'
        BY <1>7, <3>1
      <3>3. CodesOf(v)' = {c}
        BY <1>a, <1>b, <1>1, <1>2, <2>2, <3>1 DEF CodesOf
      <3>4. par'[v] \in ParRow /\ par'[v].consumed
        BY <1>b, <2>1, <3>1 DEF UriHolds
      <3>5. QED BY <3>2, <3>3, <3>4 DEF UriHolds
    <2>3. CASE v # u
      <3>1. CodesOf(v)' = CodesOf(v)
        BY <1>a, <1>b, <1>1, <2>3 DEF CodesOf
      <3>2. \A p \in Requests : Issuing(p, v)' => Issuing(p, v)
        BY <1>7
      <3>3. QED BY <1>b, <2>1, <3>1, <3>2 DEF UriHolds
    <2>4. QED BY <2>2, <2>3
  <1>9. issued' \in [Codes -> CodeRow \cup {Null}]
    BY <1>a, <1>b, <1>1
  <1>10. TypeOK'
    BY <1>a, <1>b, <1>4, <1>9 DEF TypeOK
  <1>11. QED BY <1>4, <1>6, <1>8, <1>10 DEF FlowInv

\* The clock, and requests pushed by the clients.
LEMMA OutsideSteps ==
    ASSUME FlowInv, Tick \/ Push \/ UNCHANGED vars
    PROVE  FlowInv'
  <1>a. TypeOK /\ par \in [RequestUris -> ParRow \cup {Null}] /\ clock \in Nat
    BY DEF FlowInv, TypeOK
  <1>1. UNCHANGED <<interactions, cookie, pages, req, issued, declined>>
    BY DEF Tick, Push, PushAuthorizationRequest, vars, tables, browserState, answers
  <1>2. par' \in [RequestUris -> ParRow \cup {Null}] /\ ParKept /\ clock' \in Nat
    <2>1. CASE Tick \/ UNCHANGED vars
      BY <1>a, <2>1 DEF Tick, vars, tables, ParKept
    <2>2. CASE Push
      <3>1. PICK u \in RequestUris, p \in Prompts, m \in MaxAges : PushAuthorizationRequest(u, p, m)
        BY <2>2 DEF Push
      <3> DEFINE row == [prompt |-> p, maxAge |-> m, expiresAt |-> clock + ParTtl, consumed |-> FALSE]
      <3>2. row \in ParRow
        BY <1>a, FlowConstantsOK DEF ParRow
      <3>3. par' = [par EXCEPT ![u] = row] /\ par[u] \notin ParRow /\ clock' = clock
        BY <3>1, NullIsNoFlowRow DEF PushAuthorizationRequest
      <3> HIDE DEF row
      <3>4. QED BY <1>a, <3>2, <3>3 DEF ParKept
    <2>3. QED BY <2>1, <2>2
  <1>3. \A r \in Requests, u \in RequestUris : Issuing(r, u)' => Issuing(r, u)
    BY <1>1 DEF Issuing, At
  <1>4. \A u \in RequestUris : UriHolds(u)'
    BY <1>1, <1>2, <1>3, UrisQuiet
  <1>5. TypeOK'
    BY <1>a, <1>1, <1>2 DEF TypeOK
  <1>6. AllRequestsHold(interactions', pages', req') /\ SidsAgree(cookie', pages', req')
        /\ \A c \in Codes : CodeHolds(issued'[c], interactions')
    BY <1>1 DEF FlowInv
  <1>7. QED BY <1>4, <1>5, <1>6 DEF FlowInv

-----------------------------------------------------------------------------
(* The theorems.                                                           *)

\* Every step keeps the invariant.
LEMMA FlowStep ==
    ASSUME FlowInv, [Next]_vars
    PROVE  FlowInv'
  <1>1. CASE Tick \/ Push \/ UNCHANGED vars
    BY <1>1, OutsideSteps
  <1>2. CASE Visit \/ Submit \/ \E b \in Browsers, i \in Interactions : Open(b, i) \/ SignIn(b, i)
    BY <1>2, ArrivalSteps DEF Visit, Submit, Open, SignIn
  <1>3. ASSUME NEW r \in Requests, Serve(r) \/ Abort(r)
        PROVE  FlowInv'
    BY <1>3, CheckSteps, WriteSteps, AuthenticateStep, ConsumeStep, IssueStep DEF Serve, Accept
  <1>4. QED BY <1>1, <1>2, <1>3 DEF Next

\* Nothing has happened yet.
LEMMA FlowStart == Init => FlowInv
  <1>. SUFFICES ASSUME Init PROVE FlowInv
    OBVIOUS
  <1>1. TypeOK
    <2>1. EarlierSession \subseteq Session
      BY FlowConstantsOK DEF EarlierSession, Session
    <2>2. QED BY <2>1 DEF Init, TypeOK
  <1>2. Null \notin Request /\ Null \notin Session /\ Null \notin CodeRow
    BY NullIsNoFlowRow
  <1>3. AllRequestsHold(interactions, pages, req)
    BY <1>2 DEF Init, AllRequestsHold
  <1>4. SidsAgree(cookie, pages, req)
    BY <1>2 DEF Init, SidsAgree, Known
  <1>5. \A c \in Codes : CodeHolds(issued[c], interactions)
    BY <1>2 DEF Init, CodeHolds
  <1>6. \A u \in RequestUris : UriHolds(u)
    BY DEF Init, UriHolds, Issuing, At, CodesOf
  <1>7. QED BY <1>1, <1>3, <1>4, <1>5, <1>6 DEF FlowInv

\* The invariant of the way from a pushed request to a code.
THEOREM FlowInvariant == Spec => []FlowInv
  BY FlowStart, FlowStep, PTL DEF Spec

\* The tables, the cookies and the requests in flight have their types, for any
\* number of them.
THEOREM FlowTypeCorrect == Spec => []TypeOK
  <1>1. FlowInv => TypeOK
    BY DEF FlowInv
  <1>2. QED BY <1>1, FlowInvariant, PTL

\* One code per request_uri (the one-statement par.consume), however many
\* tabs, browsers and prompt=none visits share it.
THEOREM OneCode == Spec => []OneCodePerRequest
  <1>1. FlowInv => OneCodePerRequest
    BY DEF FlowInv, UriHolds, OneCodePerRequest
  <1>2. QED BY <1>1, FlowInvariant, PTL

\* A code goes to the subject that the consent form was rendered for and to
\* the request it was about (the CSRF token of POST /interaction/consent).
THEOREM CodeForShown == Spec => []CodeForShownSubject
  <1>1. FlowInv => CodeForShownSubject
    BY DEF FlowInv, TypeOK, CodeHolds, CodeForShownSubject
  <1>2. QED BY <1>1, FlowInvariant, PTL


-----------------------------------------------------------------------------
(* A request_uri is good for one use: AuthzFlow implements OneTimeUse.     *)

\* Nothing that the life of a request_uri depends on changes.
LEMMA UriStays ==
    ASSUME FlowInv, NEW u \in RequestUris, par'[u] = par[u],
           \A r \in Requests : Issuing(r, u)' <=> Issuing(r, u), CodesOf(u)' = CodesOf(u)
    PROVE  UriStatus(u)' = UriStatus(u)
  BY DEF UriStatus

\* A request that was not about to issue, and is not afterwards.
LEMMA NotIssuing ==
    ASSUME FlowInv, NEW r \in Requests, ~At(r, "issue"),
           NEW q \in Request \cup {Null}, req' = [req EXCEPT ![r] = q], q # Null => q.pc # "issue"
    PROVE  \A p \in Requests, u \in RequestUris : Issuing(p, u)' <=> Issuing(p, u)
  <1>1. req \in [Requests -> Request \cup {Null}]
    BY DEF FlowInv, TypeOK
  <1>2. ASSUME NEW p \in Requests, NEW u \in RequestUris
        PROVE  Issuing(p, u)' <=> Issuing(p, u)
    <2>1. CASE p = r
      BY <1>1, <2>1 DEF Issuing, At
    <2>2. CASE p # r
      BY <1>1, <2>2 DEF Issuing, At
    <2>3. QED BY <2>1, <2>2
  <1>3. QED BY <1>2

\* The steps of a request that neither use up a request_uri nor issue.
LEMMA OtherStepsStay ==
    ASSUME FlowInv, NEW r \in Requests,
           \/ \E b \in Browsers, u \in RequestUris : Authorize(r, b, u)
           \/ \E b \in Browsers, i \in Interactions : GetInteraction(r, b, i)
           \/ \E page \in pages : SubmitLogin(r, page)
           \/ \E page \in pages, approved \in BOOLEAN : SubmitConsent(r, page, approved)
           \/ AuthorizeSilently(r) \/ \E i \in Interactions : ParkInteraction(r, i)
           \/ ContextGone(r) \/ Dispatch(r) \/ ShowConsent(r) \/ CheckLogin(r) \/ CheckConsent(r)
           \/ Accept(r) \/ RejectLogin(r) \/ Complete(r)
           \/ \E allowed \in BOOLEAN : Decide(r, allowed)
    PROVE  /\ par' = par /\ issued' = issued
           /\ \A p \in Requests, u \in RequestUris : Issuing(p, u)' <=> Issuing(p, u)
  <1>a. req \in [Requests -> Request \cup {Null}]
    BY DEF FlowInv, TypeOK
  <1> DEFINE Arrives == /\ req[r] = Null /\ req'[r].pc # "issue"
                        /\ \A p \in Requests \ {r} : req'[p] = req[p]
  <1>1. par' = par /\ issued' = issued /\ ~At(r, "issue")
    BY DEF Authorize, GetInteraction, SubmitLogin, SubmitConsent, Start, AuthorizeSilently,
           ParkInteraction, ContextGone, Dispatch, ShowConsent, CheckLogin, CheckConsent, Accept,
           Authenticate, RejectLogin, Complete, Decide, At, tables, answers, browserState
  <1>2. \/ Finish(r)
        \/ \E pc \in Steps \ {"issue"} : req[r] # Null /\ Moves(r, pc)
        \/ Arrives
    <2>1. CASE \/ AuthorizeSilently(r) \/ \E i \in Interactions : ParkInteraction(r, i)
               \/ ContextGone(r) \/ Dispatch(r) \/ ShowConsent(r) \/ CheckLogin(r) \/ CheckConsent(r)
               \/ Accept(r) \/ RejectLogin(r) \/ Complete(r)
               \/ \E allowed \in BOOLEAN : Decide(r, allowed)
      BY <2>1 DEF AuthorizeSilently, ParkInteraction, ContextGone, Dispatch, ShowConsent, CheckLogin,
                  CheckConsent, Accept, Authenticate, RejectLogin, Complete, Decide, At, Steps, Moves
    <2>2. CASE \/ \E b \in Browsers, u \in RequestUris : Authorize(r, b, u)
               \/ \E b \in Browsers, i \in Interactions : GetInteraction(r, b, i)
               \/ \E page \in pages : SubmitLogin(r, page)
               \/ \E page \in pages, approved \in BOOLEAN : SubmitConsent(r, page, approved)
      <3>1. ASSUME NEW b \in Browsers, NEW u \in RequestUris, Authorize(r, b, u) PROVE Arrives
        BY <1>a, <3>1 DEF Authorize, Start
      <3>2. ASSUME NEW b \in Browsers, NEW i \in Interactions, GetInteraction(r, b, i) PROVE Arrives
        BY <1>a, <3>2 DEF GetInteraction, Start
      <3>3. ASSUME NEW page \in pages, SubmitLogin(r, page) PROVE Arrives
        BY <1>a, <3>3 DEF SubmitLogin, Start
      <3>4. ASSUME NEW page \in pages, NEW approved \in BOOLEAN, SubmitConsent(r, page, approved)
            PROVE  Arrives
        BY <1>a, <3>4 DEF SubmitConsent, Start
      <3>5. QED BY <2>2, <3>1, <3>2, <3>3, <3>4
    <2>3. QED BY <2>1, <2>2
  <1>3. ASSUME NEW p \in Requests, NEW u \in RequestUris
        PROVE  Issuing(p, u)' <=> Issuing(p, u)
    <2>1. CASE Finish(r)
      BY <1>a, <1>1, <2>1 DEF Finish, Issuing, At
    <2>2. CASE \E pc \in Steps \ {"issue"} : req[r] # Null /\ Moves(r, pc)
      <3>1. PICK pc \in Steps \ {"issue"} : req[r] # Null /\ Moves(r, pc)
        BY <2>2
      <3>2. PICK q \in Request : q.pc = pc /\ req' = [req EXCEPT ![r] = q]
        BY <3>1, Moved
      <3>3. QED BY <1>1, <3>2, NotIssuing
    <2>3. CASE Arrives
      BY <1>a, <1>1, <2>3 DEF Issuing, At
    <2>4. QED BY <1>2, <2>1, <2>2, <2>3
  <1>4. QED BY <1>1, <1>3


\* The lives of the request_uris, as OneTimeUse sees them.
UriLives == [u \in RequestUris |-> UriStatus(u)]

\* One request_uri moves on and the others stay.
LEMMA OneUriMoves ==
    ASSUME NEW u \in RequestUris, NEW from, NEW to, UriStatus(u) = from, UriStatus(u)' = to,
           \A v \in RequestUris \ {u} : UriStatus(v)' = UriStatus(v)
    PROVE  UriLives[u] = from /\ UriLives' = [UriLives EXCEPT ![u] = to]
  BY DEF UriLives

\* A request that is about to issue issues, or dies.
LEMMA LastSteps ==
    ASSUME FlowInv, FlowInv', NEW r \in Requests, At(r, "issue"), Finish(r), par' = par,
           \/ issued' = issued
           \/ \E c \in Codes, k \in CodeRow : issued[c] = Null /\ k.uri = req[r].uri /\ issued' = [issued EXCEPT ![c] = k]
    PROVE  UriUse!Next
  <1>a. /\ req \in [Requests -> Request \cup {Null}] /\ issued \in [Codes -> CodeRow \cup {Null}]
        /\ Null \notin Request /\ Null \notin CodeRow
    BY NullIsNoFlowRow DEF FlowInv, TypeOK
  <1>1. PICK u \in RequestUris : u = req[r].uri
    BY <1>a DEF At, Request
  <1>2. /\ Issuing(r, u) /\ par[u] \in ParRow /\ par[u].consumed /\ CodesOf(u) = {}
        /\ \A p \in Requests : Issuing(p, u) => p = r
    BY <1>1 DEF FlowInv, UriHolds, Issuing
  <1>3. \A p \in Requests, v \in RequestUris : Issuing(p, v)' <=> Issuing(p, v) /\ p # r
    BY <1>a DEF Finish, Issuing, At
  <1>4. ASSUME NEW v \in RequestUris \ {u} PROVE UriStatus(v)' = UriStatus(v)
    <2>1. CodesOf(v)' = CodesOf(v)
      BY <1>a, <1>1 DEF CodesOf
    <2>2. \A p \in Requests : Issuing(p, v)' <=> Issuing(p, v)
      BY <1>1, <1>3 DEF Issuing
    <2>3. QED BY <2>1, <2>2, UriStays
  <1>5. UriStatus(u) = "claimed" /\ ~\E p \in Requests : Issuing(p, u)'
    BY <1>2, <1>3, NullIsNoFlowRow DEF UriStatus
  <1>6. CASE issued' = issued
    <2>1. CodesOf(u)' = {}
      BY <1>2, <1>6 DEF CodesOf
    <2>2. UriStatus(u)' = "spent"
      BY <1>2, <1>5, <2>1, NullIsNoFlowRow DEF UriStatus
    <2>3. QED BY <1>4, <1>5, <2>2, OneUriMoves DEF UriUse!Next, UriUse!Lose, UriUse!Move, UriLives
  <1>7. CASE \E c \in Codes, k \in CodeRow : issued[c] = Null /\ k.uri = req[r].uri /\ issued' = [issued EXCEPT ![c] = k]
    <2>1. CodesOf(u)' # {}
      BY <1>a, <1>1, <1>7 DEF CodesOf
    <2>2. UriStatus(u)' = "delivered"
      BY <1>2, <1>5, <2>1, NullIsNoFlowRow DEF UriStatus
    <2>3. QED BY <1>4, <1>5, <2>2, OneUriMoves DEF UriUse!Next, UriUse!Deliver, UriUse!Move, UriLives
  <1>8. QED BY <1>6, <1>7

\* A request_uri is used up, by the request that goes on or by a denial.
LEMMA UseSteps ==
    ASSUME FlowInv, FlowInv', NEW r \in Requests, Consume(r) \/ Decline(r)
    PROVE  UriUse!Next \/ UriLives' = UriLives
  <1>a. /\ req \in [Requests -> Request \cup {Null}] /\ par \in [RequestUris -> ParRow \cup {Null}]
        /\ Null \notin Request /\ Null \notin ParRow
    BY NullIsNoFlowRow DEF FlowInv, TypeOK
  <1>b. req[r] \in Request /\ ~At(r, "issue") /\ req[r] # Null
    BY <1>a DEF Consume, Decline, At
  <1>1. PICK u \in RequestUris : u = req[r].uri
    BY <1>b DEF Request
  <1>2. PICK now \in Captured(r) :
            /\ par' = ConsumePar(u, now) /\ issued' = issued
            /\ Finish(r) \/ (Consume(r) /\ Usable(u, now) /\ Goto(r, "issue"))
            /\ Consume(r) /\ Usable(u, now) => Goto(r, "issue")
    <2>1. CASE Consume(r)
      BY <1>1, <2>1 DEF Consume, answers
    <2>2. CASE Decline(r)
      BY <1>1, <2>2 DEF Consume, Decline, At
    <2>3. QED BY <2>1, <2>2
  <1>3. \A v \in RequestUris : CodesOf(v)' = CodesOf(v)
    BY <1>2 DEF CodesOf
  <1>4. CASE ~Usable(u, now)
    <2>1. Finish(r) /\ par' = par
      BY <1>2, <1>4 DEF ConsumePar
    <2>2. \A p \in Requests, v \in RequestUris : Issuing(p, v)' <=> Issuing(p, v)
      BY <1>b, <2>1, NotIssuing DEF Finish
    <2>3. \A v \in RequestUris : UriStatus(v)' = UriStatus(v)
      BY <1>3, <2>1, <2>2, UriStays
    <2>4. QED BY <2>3 DEF UriLives
  <1>5. CASE Usable(u, now)
    <2>1. /\ par[u] \in ParRow /\ ~par[u].consumed /\ par'[u] \in ParRow /\ par'[u].consumed
          /\ \A v \in RequestUris \ {u} : par'[v] = par[v]
      BY <1>a, <1>2, <1>5, ConsumeTyped DEF ConsumePar
    <2>2. UriStatus(u) = "usable" /\ CodesOf(u) = {} /\ \A p \in Requests : ~Issuing(p, u)
      BY <1>a, <2>1 DEF FlowInv, UriHolds, UriStatus
    <2>3. CASE Consume(r)
      <3>0. Moves(r, "issue") /\ "issue" \in Steps
        BY <1>2, <1>5, <2>3 DEF Moves, Steps
      <3>1. PICK q \in Request : req' = [req EXCEPT ![r] = q] /\ q.pc = "issue" /\ q.uri = u
        BY <1>1, <1>b, <3>0, Moved
      <3>2. Issuing(r, u)' /\ \A p \in Requests, v \in RequestUris \ {u} : Issuing(p, v)' <=> Issuing(p, v)
        BY <1>1, <1>a, <1>b, <3>1 DEF Issuing, At
      <3>3. UriStatus(u)' = "claimed"
        BY <1>a, <2>1, <3>2 DEF UriStatus
      <3>4. \A v \in RequestUris \ {u} : UriStatus(v)' = UriStatus(v)
        BY <1>3, <2>1, <3>2, UriStays
      <3>5. QED BY <2>2, <3>3, <3>4, OneUriMoves DEF UriUse!Next, UriUse!Claim, UriUse!Move, UriLives
    <2>4. CASE Decline(r)
      <3>1. Finish(r)
        BY <2>4 DEF Decline
      <3>2. \A p \in Requests, v \in RequestUris : Issuing(p, v)' <=> Issuing(p, v)
        BY <1>b, <3>1, NotIssuing DEF Finish
      <3>3. (~\E p \in Requests : Issuing(p, u)') /\ CodesOf(u)' = {}
        BY <1>3, <2>2, <3>2
      <3>4. UriStatus(u)' = "spent"
        BY <1>a, <2>1, <3>3 DEF UriStatus
      <3>5. \A v \in RequestUris \ {u} : UriStatus(v)' = UriStatus(v)
        BY <1>3, <2>1, <3>2, UriStays
      <3>6. QED BY <2>2, <3>4, <3>5, OneUriMoves DEF UriUse!Next, UriUse!Withdraw, UriUse!Move, UriLives
    <2>5. QED BY <2>3, <2>4
  <1>6. QED BY <1>4, <1>5


\* A request_uri is handed out, or nothing happens to any.
LEMMA PushLives ==
    ASSUME FlowInv, Tick \/ Push \/ UNCHANGED vars
    PROVE  UriUse!Next \/ UriLives' = UriLives
  <1>1. issued' = issued /\ req' = req
    BY DEF Tick, Push, PushAuthorizationRequest, vars, answers
  <1>2. \A v \in RequestUris : CodesOf(v)' = CodesOf(v) /\ \A p \in Requests : Issuing(p, v)' <=> Issuing(p, v)
    BY <1>1 DEF CodesOf, Issuing, At
  <1>3. CASE Tick \/ UNCHANGED vars
    <2>1. \A v \in RequestUris : UriStatus(v)' = UriStatus(v)
      BY <1>2, <1>3, UriStays DEF Tick, vars, tables
    <2>2. QED BY <2>1 DEF UriLives
  <1>4. CASE Push
    <2>1. PICK u \in RequestUris, p \in Prompts, m \in MaxAges : PushAuthorizationRequest(u, p, m)
      BY <1>4 DEF Push
    <2> DEFINE row == [prompt |-> p, maxAge |-> m, expiresAt |-> clock + ParTtl, consumed |-> FALSE]
    <2>2. /\ row \in ParRow /\ ~row.consumed /\ Null \notin ParRow
          /\ par' = [par EXCEPT ![u] = row] /\ par[u] = Null /\ par \in [RequestUris -> ParRow \cup {Null}]
      BY <2>1, FlowConstantsOK, NullIsNoFlowRow DEF PushAuthorizationRequest, ParRow, FlowInv, TypeOK
    <2> HIDE DEF row
    <2>3. UriStatus(u) = "none" /\ UriStatus(u)' = "usable"
      BY <2>2 DEF UriStatus
    <2>4. \A v \in RequestUris \ {u} : UriStatus(v)' = UriStatus(v)
      BY <1>2, <2>2, UriStays
    <2>5. QED BY <2>3, <2>4, OneUriMoves DEF UriUse!Next, UriUse!Offer, UriUse!Move, UriLives
  <1>5. QED BY <1>3, <1>4

\* Every step of the flow is a step of OneTimeUse, or none.
LEMMA FlowRefines ==
    ASSUME FlowInv, FlowInv', [Next]_vars
    PROVE  UriUse!Next \/ UriLives' = UriLives
  <1>1. CASE Tick \/ Push \/ UNCHANGED vars
    BY <1>1, PushLives
  <1>2. ASSUME NEW r \in Requests, Abort(r)
        PROVE  UriUse!Next \/ UriLives' = UriLives
    <2>1. Finish(r) /\ par' = par /\ issued' = issued
      BY <1>2 DEF Abort, tables, answers
    <2>2. CASE At(r, "issue")
      BY <2>1, <2>2, LastSteps
    <2>3. CASE ~At(r, "issue")
      <3>1. \A v \in RequestUris : UriStatus(v)' = UriStatus(v)
        BY <2>1, <2>3, NotIssuing, UriStays DEF Finish, CodesOf
      <3>2. QED BY <3>1 DEF UriLives
    <2>4. QED BY <2>2, <2>3
  <1>3. ASSUME NEW r \in Requests, NEW c \in Codes, IssueCode(r, c)
        PROVE  UriUse!Next
    <2> DEFINE k == [uri |-> req[r].uri, page |-> req[r].page, subject |-> req[r].session.sub,
                     authTime |-> req[r].session.authTime,
                     checkedAt |-> IF req[r].page = Null THEN req[r].checkedAt ELSE req[r].page.checkedAt]
    <2>1. /\ At(r, "issue") /\ Finish(r) /\ par' = par
          /\ issued[c] = Null /\ issued' = [issued EXCEPT ![c] = k]
      BY <1>3 DEF IssueCode, tables
    <2>2. issued'[c] = k /\ issued'[c] \in CodeRow \cup {Null}
      BY <2>1 DEF FlowInv, TypeOK
    <2>3. req[r] \in Request /\ req[r].session \in Session
      BY <2>1, InFlight DEF At, RequestHolds, Decided
    <2>4. k \in CodeRow /\ k.uri = req[r].uri
      BY <2>3 DEF CodeRow, Request, Session, Page
    <2>5. QED BY <2>1, <2>4, LastSteps
  <1>4. ASSUME NEW r \in Requests, Consume(r) \/ Decline(r)
        PROVE  UriUse!Next \/ UriLives' = UriLives
    BY <1>4, UseSteps
  <1>5. ASSUME NEW r \in Requests,
               \/ \E b \in Browsers, u \in RequestUris : Authorize(r, b, u)
               \/ \E b \in Browsers, i \in Interactions : GetInteraction(r, b, i)
               \/ \E page \in pages : SubmitLogin(r, page)
               \/ \E page \in pages, approved \in BOOLEAN : SubmitConsent(r, page, approved)
               \/ AuthorizeSilently(r) \/ \E i \in Interactions : ParkInteraction(r, i)
               \/ ContextGone(r) \/ Dispatch(r) \/ ShowConsent(r) \/ CheckLogin(r) \/ CheckConsent(r)
               \/ Accept(r) \/ RejectLogin(r) \/ Complete(r)
               \/ \E allowed \in BOOLEAN : Decide(r, allowed)
        PROVE  UriLives' = UriLives
    <2>1. \A v \in RequestUris : UriStatus(v)' = UriStatus(v)
      BY <1>5, OtherStepsStay, UriStays DEF CodesOf
    <2>2. QED BY <2>1 DEF UriLives
  <1>6. QED
    BY <1>1, <1>2, <1>3, <1>4, <1>5 DEF Next, Visit, Submit, Open, SignIn, Serve

\* AuthzFlow implements OneTimeUse: a request_uri is claimed by one request in
\* one step (par.consume), and never comes back.
THEOREM RequestUriOnce == Spec => UriIsOneTime
  <1>1. Init => UriUse!Init
    <2>1. ASSUME Init PROVE UriLives = [u \in RequestUris |-> "none"]
      BY <2>1 DEF Init, UriLives, UriStatus
    <2>2. QED BY <2>1 DEF UriUse!Init, UriLives
  <1>2. FlowInv /\ FlowInv' /\ [Next]_vars => [UriUse!Next]_UriLives
    BY FlowRefines
  <1>3. FlowInv /\ FlowInv' /\ [Next]_vars => [UriUse!Next]_([u \in RequestUris |-> UriStatus(u)])
    BY <1>2 DEF UriLives
  <1>4. QED BY <1>1, <1>3, FlowInvariant, PTL DEF Spec, UriIsOneTime, UriUse!Spec


-----------------------------------------------------------------------------
(* A denial is final.  decline() ignores what consume returned, so this    *)
(* needs the row to be there, and used or expired, when it is done, and no *)
(* time captured in the future.                                            *)

\* Every interaction and every request in flight is about a pushed request.
Pushed ==
    /\ \A i \in Interactions : interactions[i] \in InteractionRow => par[interactions[i].uri] \in ParRow
    /\ \A r \in Requests : req[r] \in Request => par[req[r].uri] \in ParRow

\* What was declined is used up or has expired.
DeclinedUnusable == \A u \in declined : par[u] \in ParRow /\ ~Usable(u, clock)

\* A request got to its await before now.
InTime == \A r \in Requests : req[r] # Null => req[r].now <= clock

\* A pushed request keeps its row, its demands and its expiry; time passes.
RowsStay ==
    /\ clock' \in Nat /\ clock <= clock'
    /\ \A u \in RequestUris : par[u] \in ParRow =>
          /\ par'[u] \in ParRow /\ par'[u].expiresAt = par[u].expiresAt
          /\ par'[u].prompt = par[u].prompt /\ par'[u].maxAge = par[u].maxAge
          /\ par[u].consumed => par'[u].consumed
    /\ \A u \in RequestUris : par[u] \notin ParRow /\ par'[u] \in ParRow =>
          par'[u].expiresAt = clock + ParTtl

\* What a request in flight is about was pushed, or was so already.
LEMMA RequestsFollow ==
    ASSUME FlowInv, [Next]_vars, Pushed, NEW p \in Requests, req'[p] \in Request
    PROVE  \/ req[p] \in Request /\ req[p].uri = req'[p].uri
           \/ par[req'[p].uri] \in ParRow
  <1> DEFINE Follows == \/ req[p] \in Request /\ req[p].uri = req'[p].uri
                        \/ par[req'[p].uri] \in ParRow
  <1>a. /\ req \in [Requests -> Request \cup {Null}] /\ pages \subseteq Page
        /\ interactions \in [Interactions -> InteractionRow \cup {Null}]
        /\ par \in [RequestUris -> ParRow \cup {Null}] /\ Null \notin Request
    BY NullIsNoFlowRow DEF FlowInv, TypeOK
  <1>b. \A u : Usable(u, clock) /\ u \in RequestUris => par[u] \in ParRow
    BY <1>a DEF Usable
  <1>c. \A i \in Interactions : Pending(i, clock) => par[interactions[i].uri] \in ParRow
    BY <1>a DEF Pending, Pushed
  <1>1. ASSUME NEW r \in Requests, NEW pc, NEW at, NEW u, NEW i, NEW b, NEW s, NEW page, NEW approved,
               Start(r, pc, at, u, i, b, s, page, approved), par[u] \in ParRow
        PROVE  Follows
    BY <1>a, <1>1 DEF Start
  <1>2. ASSUME NEW r \in Requests, Serve(r) \/ Abort(r)
        PROVE  Follows
    <2>1. Finish(r) \/ \E pc \in Steps : req[r] # Null /\ Moves(r, pc)
      BY <1>2 DEF Serve, Abort, AuthorizeSilently, ParkInteraction, ContextGone, Dispatch, ShowConsent,
                  CheckLogin, CheckConsent, Accept, Authenticate, RejectLogin, Complete, Decide, Decline,
                  Consume, IssueCode, At, Steps, Moves
    <2>2. CASE Finish(r)
      BY <1>a, <2>2 DEF Finish
    <2>3. ASSUME NEW pc \in Steps, req[r] # Null, Moves(r, pc)
          PROVE  Follows
      <3>0. PICK q \in Request : req' = [req EXCEPT ![r] = q] /\ q.uri = req[r].uri
        BY <2>3, Moved
      <3>1. CASE p = r
        BY <1>a, <2>3, <3>0, <3>1
      <3>2. CASE p # r
        BY <1>a, <3>0, <3>2
      <3>3. QED BY <3>1, <3>2
    <2>4. QED BY <2>1, <2>2, <2>3
  <1>3. CASE Visit
    <2>1. PICK r \in Requests, b \in Browsers, u \in RequestUris : Authorize(r, b, u)
      BY <1>3 DEF Visit
    <2>2. QED BY <1>1, <1>b, <2>1 DEF Authorize
  <1>4. CASE \E b \in Browsers, i \in Interactions : Open(b, i)
    <2>1. PICK r \in Requests, b \in Browsers, i \in Interactions : GetInteraction(r, b, i)
      BY <1>4 DEF Open
    <2>2. QED BY <1>1, <1>c, <2>1 DEF GetInteraction
  <1>5. CASE Submit \/ \E b \in Browsers, i \in Interactions : SignIn(b, i)
    <2>1. PICK r \in Requests, page \in pages :
              SubmitLogin(r, page) \/ \E approved \in BOOLEAN : SubmitConsent(r, page, approved)
      BY <1>5 DEF Submit, SignIn
    <2>2. page.interaction \in Interactions
      BY <1>a DEF Page
    <2>3. Pending(page.interaction, clock)
      BY <2>1 DEF SubmitLogin, SubmitConsent
    <2>4. par[interactions[page.interaction].uri] \in ParRow
      BY <1>c, <2>2, <2>3
    <2>5. QED BY <1>1, <2>1, <2>4 DEF SubmitLogin, SubmitConsent
  <1>6. CASE Tick \/ Push \/ UNCHANGED vars
    BY <1>6 DEF Tick, Push, PushAuthorizationRequest, vars
  <1>7. QED BY <1>2, <1>3, <1>4, <1>5, <1>6 DEF Next

\* An interaction keeps its request_uri, or takes that of the request that
\* parks it.
LEMMA InteractionsFollow ==
    ASSUME FlowInv, [Next]_vars, NEW i \in Interactions, interactions'[i] \in InteractionRow
    PROVE  \/ interactions[i] \in InteractionRow /\ interactions[i].uri = interactions'[i].uri
           \/ \E r \in Requests : req[r] \in Request /\ req[r].uri = interactions'[i].uri
  <1>a. /\ req \in [Requests -> Request \cup {Null}]
        /\ interactions \in [Interactions -> InteractionRow \cup {Null}]
    BY DEF FlowInv, TypeOK
  <1>1. ASSUME NEW r \in Requests, NEW j \in Interactions, ParkInteraction(r, j)
        PROVE  \/ interactions[i] \in InteractionRow /\ interactions[i].uri = interactions'[i].uri
               \/ req[r] \in Request /\ req[r].uri = interactions'[i].uri
    <2>1. req[r] \in Request
      BY <1>a, <1>1 DEF ParkInteraction, At
    <2>2. CASE i = j
      BY <1>a, <1>1, <2>1, <2>2 DEF ParkInteraction
    <2>3. CASE i # j
      BY <1>a, <1>1, <2>3 DEF ParkInteraction
    <2>4. QED BY <2>2, <2>3
  <1>2. ASSUME NEW r \in Requests, ShowConsent(r) \/ Complete(r)
        PROVE  interactions[i] \in InteractionRow /\ interactions[i].uri = interactions'[i].uri
    <2>1. req[r] # Null /\ req[r].at # "authorize"
      BY <1>2, InFlight DEF ShowConsent, Complete, At, RequestHolds
    <2>2. interactions[req[r].interaction] \in InteractionRow
      BY <2>1, InFlight DEF RequestHolds
    <2>3. CASE i = req[r].interaction
      BY <1>a, <1>2, <2>2, <2>3 DEF ShowConsent, Complete, InteractionRow
    <2>4. CASE i # req[r].interaction
      BY <1>a, <1>2, <2>4 DEF ShowConsent, Complete
    <2>5. QED BY <2>3, <2>4
  <1>3. CASE Tick \/ Push \/ UNCHANGED vars
    BY <1>3 DEF Tick, Push, PushAuthorizationRequest, vars, tables
  <1>4. CASE Visit \/ Submit \/ \E b \in Browsers, j \in Interactions : Open(b, j) \/ SignIn(b, j)
    BY <1>4 DEF Visit, Submit, Open, SignIn, Authorize, GetInteraction, SubmitLogin, SubmitConsent, tables
  <1>5. ASSUME NEW r \in Requests,
               \/ AuthorizeSilently(r) \/ ContextGone(r) \/ Dispatch(r) \/ CheckLogin(r) \/ CheckConsent(r)
               \/ Accept(r) \/ RejectLogin(r) \/ Decline(r) \/ Consume(r) \/ Abort(r)
               \/ \E allowed \in BOOLEAN : Decide(r, allowed)
               \/ \E c \in Codes : IssueCode(r, c)
        PROVE  interactions' = interactions
    BY <1>5 DEF AuthorizeSilently, ContextGone, Dispatch, CheckLogin, CheckConsent, Accept, Authenticate,
                RejectLogin, Decline, Consume, Abort, Decide, IssueCode, tables
  <1>6. QED BY <1>1, <1>2, <1>3, <1>4, <1>5 DEF Next, Serve

\* No statement deletes a row that is good, or moves its expiry.
LEMMA RowsAlwaysStay ==
    ASSUME FlowInv, [Next]_vars
    PROVE  RowsStay
  <1>a. par \in [RequestUris -> ParRow \cup {Null}] /\ clock \in Nat /\ Null \notin ParRow
    BY NullIsNoFlowRow DEF FlowInv, TypeOK
  <1>1. CASE Tick \/ UNCHANGED vars
    BY <1>a, <1>1 DEF Tick, vars, tables, RowsStay
  <1>2. CASE Push
    BY <1>a, <1>2 DEF Push, PushAuthorizationRequest, RowsStay
  <1>3. CASE Visit \/ Submit \/ \E b \in Browsers, i \in Interactions : Open(b, i) \/ SignIn(b, i)
    <2>1. par' = par /\ clock' = clock
      BY <1>3 DEF Visit, Submit, Open, SignIn, Authorize, GetInteraction, SubmitLogin, SubmitConsent, tables
    <2>2. QED BY <1>a, <2>1 DEF RowsStay
  <1>4. ASSUME NEW r \in Requests, Serve(r) \/ Abort(r)
        PROVE  RowsStay
    <2>1. clock' = clock /\ (par' = par \/ \E now : par' = ConsumePar(req[r].uri, now))
      BY <1>4 DEF Serve, Abort, AuthorizeSilently, ParkInteraction, ContextGone, Dispatch, ShowConsent,
                  CheckLogin, CheckConsent, Accept, Authenticate, RejectLogin, Complete, Decide, Decline,
                  Consume, IssueCode, tables
    <2>2. CASE par' = par
      BY <1>a, <2>1, <2>2 DEF RowsStay
    <2>3. CASE par' # par
      <3>1. (\E now : Usable(req[r].uri, now)) /\ par' = [par EXCEPT ![req[r].uri].consumed = TRUE]
        BY <2>1, <2>3 DEF ConsumePar
      <3>2. ASSUME NEW u \in RequestUris, par[u] \in ParRow
            PROVE  /\ par'[u] \in ParRow /\ par'[u].expiresAt = par[u].expiresAt
                   /\ par'[u].prompt = par[u].prompt /\ par'[u].maxAge = par[u].maxAge
                   /\ par[u].consumed => par'[u].consumed
        <4>1. CASE u = req[r].uri
          BY <1>a, <3>1, <3>2, <4>1 DEF ParRow
        <4>2. CASE u # req[r].uri
          BY <1>a, <3>1, <3>2, <4>2
        <4>3. QED BY <4>1, <4>2
      <3>3. \A u \in RequestUris : par[u] \notin ParRow => par'[u] = par[u]
        BY <1>a, <3>1 DEF Usable
      <3>4. QED BY <1>a, <2>1, <3>2, <3>3 DEF RowsStay
    <2>4. QED BY <2>2, <2>3
  <1>5. QED BY <1>1, <1>2, <1>3, <1>4 DEF Next

\* A time a row was found good at is before its expiry: an expired row is good
\* for nobody who asks later.
LEMMA UnusableLater ==
    ASSUME NEW u, par[u] \in ParRow, NEW s \in Nat, NEW t \in Nat, s <= t, ~Usable(u, s)
    PROVE  ~Usable(u, t)
  BY DEF Usable, ParRow

\* A time captured for the await at hand lies between the arrival there and
\* the statement.
LEMMA CapturedTimes ==
    ASSUME FlowInv, InTime, NEW r \in Requests, req[r] # Null, NEW now \in Captured(r)
    PROVE  /\ now \in Nat /\ clock \in Nat /\ req[r].now \in Nat
           /\ req[r].now <= now /\ now <= clock
  <1>1. req[r].now \in Nat /\ clock \in Nat
    BY InFlight DEF FlowInv, TypeOK, Request
  <1>2. QED BY <1>1 DEF Captured

\* A request in flight waits, or got to its await just now.
LEMMA NowOrKept ==
    ASSUME FlowInv, [Next]_vars, NEW p \in Requests, req'[p] # Null
    PROVE  req'[p] = req[p] \/ req'[p].now = clock
  <1>a. req \in [Requests -> Request \cup {Null}]
    BY DEF FlowInv, TypeOK
  <1>1. ASSUME NEW r \in Requests, NEW pc, NEW at, NEW u, NEW i, NEW b, NEW s, NEW page, NEW approved,
               Start(r, pc, at, u, i, b, s, page, approved)
        PROVE  req'[p] = req[p] \/ req'[p].now = clock
    BY <1>a, <1>1 DEF Start
  <1>2. ASSUME NEW r \in Requests, Finish(r)
        PROVE  req'[p] = req[p]
    BY <1>a, <1>2 DEF Finish
  <1>3. ASSUME NEW r \in Requests, NEW pc \in Steps, req[r] # Null, Moves(r, pc)
        PROVE  req'[p] = req[p] \/ req'[p].now = clock
    BY <1>a, <1>3, Moved
  <1>4. CASE Tick \/ Push \/ UNCHANGED vars
    BY <1>4 DEF Tick, Push, PushAuthorizationRequest, vars
  <1>5. CASE Visit \/ Submit \/ \E b \in Browsers, i \in Interactions : Open(b, i) \/ SignIn(b, i)
    BY <1>1, <1>5 DEF Visit, Submit, Open, SignIn, Authorize, GetInteraction, SubmitLogin, SubmitConsent
  <1>6. ASSUME NEW r \in Requests, Serve(r) \/ Abort(r)
        PROVE  Finish(r) \/ \E pc \in Steps : req[r] # Null /\ Moves(r, pc)
    BY <1>6 DEF Serve, Abort, AuthorizeSilently, ParkInteraction, ContextGone, Dispatch, ShowConsent,
                CheckLogin, CheckConsent, Accept, Authenticate, RejectLogin, Complete, Decide, Decline,
                Consume, IssueCode, At, Steps, Moves
  <1>7. QED BY <1>2, <1>3, <1>4, <1>5, <1>6 DEF Next

\* Nobody gets to an await in the future.
LEMMA InTimeStep ==
    ASSUME FlowInv, FlowInv', [Next]_vars, InTime
    PROVE  InTime'
  <1>1. clock \in Nat /\ clock' \in Nat /\ clock <= clock'
    BY RowsAlwaysStay DEF RowsStay, FlowInv, TypeOK
  <1>2. ASSUME NEW p \in Requests, req'[p] # Null
        PROVE  req'[p].now <= clock'
    <2>1. req'[p].now \in Nat
      BY <1>2 DEF FlowInv, TypeOK, Request
    <2>2. QED BY <1>1, <1>2, <2>1, NowOrKept DEF InTime
  <1>3. QED BY <1>2 DEF InTime

\* Every step keeps all three.
LEMMA DeclinedStep ==
    ASSUME FlowInv, FlowInv', [Next]_vars, Pushed, DeclinedUnusable, InTime
    PROVE  Pushed' /\ DeclinedUnusable' /\ InTime'
  <1>a. /\ req \in [Requests -> Request \cup {Null}] /\ declined \subseteq RequestUris
        /\ par \in [RequestUris -> ParRow \cup {Null}]
    BY DEF FlowInv, TypeOK
  <1>b. RowsStay
    BY RowsAlwaysStay
  <1>c. \A r \in Requests : req[r] \in Request => req[r].uri \in RequestUris /\ par[req[r].uri] \in ParRow
    BY DEF Pushed, Request
  <1>1. ASSUME NEW i \in Interactions, interactions'[i] \in InteractionRow
        PROVE  par'[interactions'[i].uri] \in ParRow
    <2>1. interactions'[i].uri \in RequestUris
      BY <1>1 DEF InteractionRow
    <2>2. par[interactions'[i].uri] \in ParRow
      BY <1>1, <1>c, InteractionsFollow DEF Pushed
    <2>3. QED BY <1>b, <2>1, <2>2 DEF RowsStay
  <1>2. ASSUME NEW r \in Requests, req'[r] \in Request
        PROVE  par'[req'[r].uri] \in ParRow
    <2>1. req'[r].uri \in RequestUris
      BY <1>2 DEF Request
    <2>2. par[req'[r].uri] \in ParRow
      BY <1>2, <1>c, RequestsFollow
    <2>3. QED BY <1>b, <2>1, <2>2 DEF RowsStay
  <1>3. ASSUME NEW u \in RequestUris, par[u] \in ParRow, ~Usable(u, clock)
        PROVE  par'[u] \in ParRow /\ ~Usable(u, clock)'
    <2>1. /\ par'[u] \in ParRow /\ par'[u].expiresAt = par[u].expiresAt /\ par[u].expiresAt \in Nat
          /\ par[u].consumed => par'[u].consumed
      BY <1>b, <1>3 DEF RowsStay, ParRow
    <2>2. par[u] # Null /\ clock \in Nat /\ clock' \in Nat /\ clock <= clock'
      BY <1>b, <1>3, NullIsNoFlowRow DEF RowsStay, FlowInv, TypeOK
    <2>3. par[u].consumed \/ par[u].expiresAt <= clock
      BY <1>3, <2>1, <2>2 DEF Usable
    <2>4. QED BY <2>1, <2>2, <2>3 DEF Usable
  <1>4. ASSUME NEW u \in declined'
        PROVE  par'[u] \in ParRow /\ ~Usable(u, clock)'
    <2>1. CASE u \in declined
      BY <1>a, <1>3, <2>1 DEF DeclinedUnusable
    <2>2. CASE u \notin declined
      <3>1. PICK r \in Requests : Decline(r)
        <4>1. ASSUME NEW r \in Requests, ~Decline(r), Serve(r) \/ Abort(r)
              PROVE  declined' = declined
          BY <4>1 DEF Serve, Abort, AuthorizeSilently, ParkInteraction, ContextGone, Dispatch, ShowConsent,
                      CheckLogin, CheckConsent, Accept, Authenticate, RejectLogin, Complete, Decide,
                      Consume, IssueCode, answers
        <4>2. CASE Tick \/ Push \/ UNCHANGED vars \/ Visit \/ Submit
                   \/ \E b \in Browsers, i \in Interactions : Open(b, i) \/ SignIn(b, i)
          BY <1>4, <2>2, <4>2 DEF Tick, Push, PushAuthorizationRequest, vars, Visit, Submit, Open, SignIn,
                     Authorize, GetInteraction, SubmitLogin, SubmitConsent, answers
        <4>3. QED BY <1>4, <2>2, <4>1, <4>2 DEF Next
      <3>2. PICK now \in Captured(r) : par' = ConsumePar(req[r].uri, now)
        BY <3>1 DEF Decline
      <3>3. u = req[r].uri /\ req[r] \in Request /\ req[r] # Null /\ clock' = clock
        BY <1>4, <1>a, <2>2, <3>1 DEF Decline, At
      <3>4. u \in RequestUris /\ par[u] \in ParRow
        BY <1>c, <3>3
      <3>5. CASE Usable(u, now)
        BY <1>a, <3>2, <3>3, <3>4, <3>5, ConsumeTyped DEF Usable
      <3>6. CASE ~Usable(u, now)
        <4>1. ~Usable(u, clock)
          BY <3>3, <3>4, <3>6, CapturedTimes, UnusableLater
        <4>2. QED BY <1>3, <3>4, <4>1
      <3>7. QED BY <3>5, <3>6
    <2>3. QED BY <2>1, <2>2
  <1>5. QED BY <1>1, <1>2, <1>4, InTimeStep DEF Pushed, DeclinedUnusable

\* The end of a request makes nobody issue.
LEMMA FinishEnds ==
    ASSUME FlowInv, NEW r \in Requests, Finish(r), NEW u
    PROVE  \A p \in Requests : Issuing(p, u)' => Issuing(p, u)
  BY DEF FlowInv, TypeOK, Finish, Issuing, At

\* Who comes to par.consume now cannot use what is used up or has expired, and
\* who was there keeps the time it came.
LEMMA NoNewClaims ==
    ASSUME FlowInv, [Next]_vars, RowsStay, InTime, NEW u \in RequestUris, par[u] \in ParRow,
           ~Usable(u, clock), ~Claimable(u), \A r \in Requests : ~Issuing(r, u)'
    PROVE  ~Claimable(u)'
  <1>a. /\ req \in [Requests -> Request \cup {Null}] /\ clock \in Nat
        /\ par'[u] \in ParRow /\ par'[u].expiresAt = par[u].expiresAt
        /\ par[u].consumed => par'[u].consumed
    BY DEF FlowInv, TypeOK, RowsStay
  <1>b. \A t \in Nat : ~Usable(u, t) => ~Usable(u, t)'
    BY <1>a, NullIsNoFlowRow DEF Usable
  <1>1. ASSUME NEW r \in Requests, At(r, "par.consume")', req'[r].uri = u
        PROVE  ~Usable(u, req[r].now)'
    <2>1. CASE req'[r] = req[r]
      <3>1. At(r, "par.consume") /\ req[r].uri = u /\ req[r].now \in Nat
        BY <1>1, <1>a, <2>1 DEF At, Request
      <3>2. QED BY <1>b, <2>1, <3>1 DEF Claimable, Usable
    <2>2. CASE req'[r].now = clock
      BY <1>b, <1>a, <2>2 DEF Usable
    <2>3. QED BY <1>1, <2>1, <2>2, NowOrKept DEF At
  <1>2. QED BY <1>1 DEF Claimable

\* A request_uri that was answered access_denied (decline in the consent
\* handler and in interaction.ts) yields a code only to a request already past
\* par.consume, or already allowed and with a `now` from before the expiry.
THEOREM DeclineIsFinal == Spec => DeclinedForever
  <1>1. Init => Pushed /\ DeclinedUnusable /\ InTime
    BY NullIsNoFlowRow DEF Init, Pushed, DeclinedUnusable, InTime
  <1>2. FlowInv /\ FlowInv' /\ [Next]_vars /\ Pushed /\ DeclinedUnusable /\ InTime
            => Pushed' /\ DeclinedUnusable' /\ InTime'
    BY DeclinedStep
  <1>3. ASSUME FlowInv, FlowInv', Pushed, DeclinedUnusable, InTime, [Next]_vars, NEW u \in declined,
               ~Claimable(u)
        PROVE  (\A r \in Requests : ~Issuing(r, u)') /\ CodesOf(u)' = CodesOf(u)
    <2>1. /\ u \in RequestUris /\ par[u] \in ParRow /\ ~Usable(u, clock)
          /\ \A r \in Requests : ~Issuing(r, u)
      BY <1>3 DEF DeclinedUnusable, FlowInv, TypeOK, Claimable
    <2>2. CASE \E r \in Requests : Consume(r)
      <3>0. PICK r \in Requests : Consume(r)
        BY <2>2
      <3>1. PICK now \in Captured(r) :
                /\ At(r, "par.consume") /\ issued' = issued
                /\ IF Usable(req[r].uri, now) THEN Goto(r, "issue") ELSE Finish(r)
        BY <3>0 DEF Consume, answers
      <3>2. /\ req[r] \in Request /\ req[r] # Null /\ now \in Nat /\ req[r].now \in Nat
            /\ req[r].now <= now
        BY <1>3, <3>1, InFlight, CapturedTimes DEF At
      <3>3. CASE Usable(req[r].uri, now)
        <4>1. req[r].uri # u
          <5>1. SUFFICES ASSUME req[r].uri = u PROVE FALSE
            OBVIOUS
          <5>2. ~Usable(u, req[r].now)
            BY <1>3, <3>1, <5>1 DEF Claimable
          <5>3. QED BY <2>1, <3>2, <3>3, <5>1, <5>2, UnusableLater
        <4>2. Moves(r, "issue") /\ "issue" \in Steps
          BY <3>1, <3>3 DEF Moves, Steps
        <4>3. PICK q \in Request : req' = [req EXCEPT ![r] = q] /\ q.uri = req[r].uri
          BY <1>3, <3>2, <4>2, Moved
        <4>4. ASSUME NEW p \in Requests PROVE ~Issuing(p, u)'
          <5>1. CASE p = r
            BY <1>3, <4>1, <4>3, <5>1 DEF Issuing, At, FlowInv, TypeOK
          <5>2. CASE p # r
            BY <1>3, <2>1, <4>3, <5>2 DEF Issuing, At, FlowInv, TypeOK
          <5>3. QED BY <5>1, <5>2
        <4>5. QED BY <3>1, <4>4 DEF CodesOf
      <3>4. CASE ~Usable(req[r].uri, now)
        BY <1>3, <2>1, <3>1, <3>4, FinishEnds DEF CodesOf
      <3>5. QED BY <3>3, <3>4
    <2>3. CASE \E r \in Requests, c \in Codes : IssueCode(r, c)
      <3>1. PICK r \in Requests, c \in Codes : IssueCode(r, c)
        BY <2>3
      <3>2. req[r].uri # u /\ issued \in [Codes -> CodeRow \cup {Null}]
        BY <1>3, <2>1, <3>1 DEF IssueCode, Issuing, FlowInv, TypeOK
      <3>3. CodesOf(u)' = CodesOf(u)
        BY <3>1, <3>2 DEF IssueCode, CodesOf
      <3>4. QED BY <1>3, <2>1, <3>1, <3>3, FinishEnds DEF IssueCode
    <2>4. CASE \E r \in Requests : Abort(r) \/ Decline(r)
      BY <1>3, <2>1, <2>4, FinishEnds DEF Abort, Decline, answers, CodesOf
    <2>5. CASE Tick \/ Push \/ UNCHANGED vars
      BY <2>1, <2>5 DEF Tick, Push, PushAuthorizationRequest, vars, answers, Issuing, At, CodesOf
    <2>6. ASSUME NEW r \in Requests,
                 \/ \E b \in Browsers, v \in RequestUris : Authorize(r, b, v)
                 \/ \E b \in Browsers, i \in Interactions : GetInteraction(r, b, i)
                 \/ \E page \in pages : SubmitLogin(r, page)
                 \/ \E page \in pages, approved \in BOOLEAN : SubmitConsent(r, page, approved)
                 \/ AuthorizeSilently(r) \/ \E i \in Interactions : ParkInteraction(r, i)
                 \/ ContextGone(r) \/ Dispatch(r) \/ ShowConsent(r) \/ CheckLogin(r) \/ CheckConsent(r)
                 \/ Accept(r) \/ RejectLogin(r) \/ Complete(r)
                 \/ \E allowed \in BOOLEAN : Decide(r, allowed)
          PROVE  (\A p \in Requests : ~Issuing(p, u)') /\ CodesOf(u)' = CodesOf(u)
      BY <1>3, <2>1, <2>6, OtherStepsStay DEF CodesOf
    <2>7. QED
      BY <1>3, <2>2, <2>3, <2>4, <2>5, <2>6 DEF Next, Visit, Submit, Open, SignIn, Serve
  <1>4. FlowInv /\ FlowInv' /\ [Next]_vars /\ Pushed /\ DeclinedUnusable /\ InTime =>
          [\A u \in declined : ~Claimable(u) => ~Claimable(u)' /\ UNCHANGED CodesOf(u)]_vars
    <2>1. ASSUME FlowInv, FlowInv', [Next]_vars, Pushed, DeclinedUnusable, InTime, NEW u \in declined,
                 ~Claimable(u)
          PROVE  ~Claimable(u)' /\ CodesOf(u)' = CodesOf(u)
      <3>1. u \in RequestUris /\ par[u] \in ParRow /\ ~Usable(u, clock)
        BY <2>1 DEF DeclinedUnusable, FlowInv, TypeOK
      <3>2. QED BY <1>3, <2>1, <3>1, RowsAlwaysStay, NoNewClaims
    <2>2. QED BY <2>1
  <1>5. QED BY <1>1, <1>2, <1>4, FlowInvariant, PTL DEF Spec, DeclinedForever

-----------------------------------------------------------------------------
(* How old a login may be.  max_age is compared with the clock when the    *)
(* consent form is asked for, so what has to last until the code is that   *)
(* the form, through its CSRF token, goes with the login checked then.     *)

\* The login sessions that a browser keeps or a request carries.
Held == ({cookie[b] : b \in Browsers}
            \cup {req[r].session : r \in {q \in Requests : req[q] # Null}}) \ {Null}

\* The login of x was what the pushed request demands at time t.
Serves(x, u, t) == par[u] \in ParRow /\ Meets(x.authTime, u, t)

\* A request past the check on the session, until its form or its code is out.
Checked(q) == q.pc = "interactions.setSubject" \/ (q.at = "authorize" /\ q.pc \in Decided)

RequestsFresh == \A r \in Requests : req[r] # Null /\ Checked(req[r]) =>
    Serves(req[r].session, req[r].uri, req[r].checkedAt)

\* A consent form on display, and whoever holds the session it is tied to.
PagesFresh == \A p \in pages : p.form = "consent" =>
    /\ interactions[p.interaction] \in InteractionRow
    /\ par[interactions[p.interaction].uri] \in ParRow
    /\ par[interactions[p.interaction].uri].prompt # "login"
    /\ \A s \in Held : s.sid = p.csrf =>
          Serves(s, interactions[p.interaction].uri, p.checkedAt)

\* A code that was issued.
CodesFresh == \A c \in Codes : issued[c] # Null =>
    Serves(issued[c], issued[c].uri, issued[c].checkedAt)

\* Sessions with the same id are equal, hence CSRF tokens identify logins.
FreshInv ==
    /\ \A s, t \in Held : s.sid = t.sid => s = t
    /\ RequestsFresh /\ PagesFresh /\ CodesFresh

\* An interaction keeps its request_uri.
LEMMA InteractionsStay ==
    ASSUME FlowInv, [Next]_vars, NEW i \in Interactions, interactions[i] \in InteractionRow
    PROVE  interactions'[i] \in InteractionRow /\ interactions'[i].uri = interactions[i].uri
  <1> DEFINE Stays == interactions'[i] \in InteractionRow /\ interactions'[i].uri = interactions[i].uri
  <1>a. interactions \in [Interactions -> InteractionRow \cup {Null}]
    BY DEF FlowInv, TypeOK
  <1>0. interactions' = interactions => Stays
    OBVIOUS
  <1>1. ASSUME NEW r \in Requests, NEW j \in Interactions, ParkInteraction(r, j)
        PROVE  Stays
    <2>1. i # j
      BY <1>1, NullIsNoFlowRow DEF ParkInteraction
    <2>2. QED BY <1>a, <1>1, <2>1 DEF ParkInteraction
  <1>2. ASSUME NEW r \in Requests, ShowConsent(r) \/ Complete(r)
        PROVE  Stays
    <2>1. /\ req[r] # Null /\ req[r].at # "authorize" /\ req[r] \in Request
          /\ interactions[req[r].interaction] \in InteractionRow
          /\ req[r].pc = "interactions.setSubject" => req[r].session \in Session
      BY <1>2, InFlight DEF ShowConsent, Complete, At, RequestHolds
    <2>2. CASE i # req[r].interaction
      BY <1>a, <1>2, <2>2 DEF ShowConsent, Complete
    <2>3. CASE i = req[r].interaction /\ ShowConsent(r) /\ interactions' # interactions
      <3> DEFINE bound == [interactions[i] EXCEPT !.subject = req[r].session.sub]
      <3>1. interactions'[i] = bound
        BY <1>a, <2>3 DEF ShowConsent
      <3>2. bound \in InteractionRow /\ bound.uri = interactions[i].uri
        BY <2>1, <2>3 DEF InteractionRow, ShowConsent, At, Session
      <3>3. QED BY <3>1, <3>2
    <2>4. CASE i = req[r].interaction /\ Complete(r) /\ interactions' # interactions
      <3> DEFINE done == [interactions[i] EXCEPT !.completed = TRUE]
      <3>1. interactions'[i] = done
        BY <1>a, <2>4 DEF Complete
      <3>2. QED BY <3>1 DEF InteractionRow
    <2>5. QED BY <1>0, <1>2, <2>2, <2>3, <2>4
  <1>3. CASE Tick \/ Push \/ UNCHANGED vars
    BY <1>0, <1>3 DEF Tick, Push, PushAuthorizationRequest, vars, tables
  <1>4. CASE Visit \/ Submit \/ \E b \in Browsers, j \in Interactions : Open(b, j) \/ SignIn(b, j)
    BY <1>0, <1>4 DEF Visit, Submit, Open, SignIn, Authorize, GetInteraction, SubmitLogin, SubmitConsent, tables
  <1>5. ASSUME NEW r \in Requests,
               \/ AuthorizeSilently(r) \/ ContextGone(r) \/ Dispatch(r) \/ CheckLogin(r) \/ CheckConsent(r)
               \/ Accept(r) \/ RejectLogin(r) \/ Decline(r) \/ Consume(r) \/ Abort(r)
               \/ \E allowed \in BOOLEAN : Decide(r, allowed)
               \/ \E c \in Codes : IssueCode(r, c)
        PROVE  interactions' = interactions
    BY <1>5 DEF AuthorizeSilently, ContextGone, Dispatch, CheckLogin, CheckConsent, Accept, Authenticate,
                RejectLogin, Decline, Consume, Abort, Decide, IssueCode, tables
  <1>6. QED BY <1>0, <1>1, <1>2, <1>3, <1>4, <1>5 DEF Next, Serve

\* Where a request in flight comes from: it waits, it has just arrived with
\* the cookie of its browser, or it went on to its next await.
Waits(p) == req'[p] = req[p]
Arrives(p) == /\ req'[p].pc \in {"authorize", "par.peek"}
              /\ \E b \in Browsers : req'[p].session = cookie[b]
GoesOn(p) ==
    /\ req[p] # Null /\ req'[p] \in Request
    /\ req'[p].at = req[p].at /\ req'[p].uri = req[p].uri /\ req'[p].session = req[p].session
    /\ \/ req'[p].pc \notin Decided \cup {"interactions.setSubject"}
       \/ /\ req[p].pc \in Decided \cup {"interactions.complete"} /\ req'[p].pc \in Decided
          /\ req'[p].checkedAt = req[p].checkedAt
       \/ Dispatch(p) /\ req'[p].pc = "interactions.setSubject" /\ req'[p].checkedAt = clock
       \/ AuthorizeSilently(p) /\ req'[p].pc = "pdp.evaluate" /\ req'[p].checkedAt = clock

LEMMA RequestAfter ==
    ASSUME FlowInv, [Next]_vars, NEW p \in Requests, req'[p] # Null
    PROVE  Waits(p) \/ Arrives(p) \/ GoesOn(p)
  <1> DEFINE Goal == Waits(p) \/ Arrives(p) \/ GoesOn(p)
  <1>a. req \in [Requests -> Request \cup {Null}]
    BY DEF FlowInv, TypeOK
  <1>1. ASSUME NEW r \in Requests, NEW pc \in {"authorize", "par.peek"}, NEW at, NEW u, NEW i,
               NEW b \in Browsers, NEW s, NEW page, NEW approved,
               Start(r, pc, at, u, i, b, s, page, approved)
        PROVE  Goal
    <2>1. CASE p = r
      BY <1>a, <1>1, <2>1 DEF Start, Arrives
    <2>2. CASE p # r
      BY <1>a, <1>1, <2>2 DEF Start, Waits
    <2>3. QED BY <2>1, <2>2
  <1>2. ASSUME NEW r \in Requests, Finish(r)
        PROVE  Goal
    BY <1>a, <1>2 DEF Finish, Waits
  <1>3. ASSUME NEW r \in Requests, NEW pc \in Steps, req[r] # Null, Moves(r, pc),
               \/ pc \notin Decided \cup {"interactions.setSubject"}
               \/ /\ req[r].pc \in Decided \cup {"interactions.complete"} /\ pc \in Decided
                  /\ Goto(r, pc)
               \/ Dispatch(r) /\ pc = "interactions.setSubject" /\ Resume(r, pc, clock)
               \/ AuthorizeSilently(r) /\ pc = "pdp.evaluate" /\ Resume(r, pc, clock)
        PROVE  Goal
    <2>1. PICK q \in Request :
              /\ req' = [req EXCEPT ![r] = q] /\ q.pc = pc
              /\ Goto(r, pc) => q.checkedAt = req[r].checkedAt
              /\ Resume(r, pc, clock) => q.checkedAt = clock
              /\ q.at = req[r].at /\ q.uri = req[r].uri /\ q.session = req[r].session
      BY <1>3, Moved
    <2>2. CASE p # r
      BY <1>a, <2>1, <2>2 DEF Waits
    <2>3. CASE p = r
      <3>1. req'[p] = q
        BY <1>a, <2>1, <2>3
      <3>2. QED BY <1>3, <2>1, <2>3, <3>1 DEF GoesOn
    <2>4. QED BY <2>2, <2>3
  <1>4. CASE Tick \/ Push \/ UNCHANGED vars
    BY <1>4 DEF Tick, Push, PushAuthorizationRequest, vars, Waits
  <1>5. CASE Visit \/ \E b \in Browsers, i \in Interactions : Open(b, i)
    BY <1>1, <1>5 DEF Visit, Open, Authorize, GetInteraction
  <1>6. CASE Submit \/ \E b \in Browsers, i \in Interactions : SignIn(b, i)
    <2>1. \A page \in pages : page.browser \in Browsers
      BY DEF FlowInv, TypeOK, Page
    <2>2. QED BY <1>1, <1>6, <2>1 DEF Submit, SignIn, SubmitLogin, SubmitConsent
  <1>7. ASSUME NEW r \in Requests,
               \/ \E i \in Interactions : ParkInteraction(r, i)
               \/ ContextGone(r) \/ ShowConsent(r) \/ Accept(r) \/ RejectLogin(r) \/ Decline(r)
               \/ Abort(r) \/ \E c \in Codes : IssueCode(r, c)
        PROVE  Goal
    BY <1>2, <1>7 DEF ParkInteraction, ContextGone, ShowConsent, Accept, Authenticate, RejectLogin,
                      Decline, Abort, IssueCode
  <1>8. ASSUME NEW r \in Requests, Dispatch(r) \/ AuthorizeSilently(r)
        PROVE  Goal
    BY <1>2, <1>3, <1>8 DEF Dispatch, AuthorizeSilently, At, Moves, Steps
  <1>9. ASSUME NEW r \in Requests, CheckLogin(r) \/ CheckConsent(r)
        PROVE  Goal
    BY <1>2, <1>3, <1>9 DEF CheckLogin, CheckConsent, At, Decided, Moves, Steps
  <1>10. ASSUME NEW r \in Requests,
                Complete(r) \/ Consume(r) \/ \E allowed \in BOOLEAN : Decide(r, allowed)
         PROVE  Goal
    <2>1. Finish(r) \/ \E pc \in Decided :
              /\ req[r] # Null /\ req[r].pc \in Decided \cup {"interactions.complete"} /\ Goto(r, pc)
      BY <1>10 DEF Complete, Consume, Decide, At, Decided
    <2>2. QED BY <1>2, <1>3, <2>1 DEF Moves, Decided, Steps
  <1>11. QED BY <1>4, <1>5, <1>6, <1>7, <1>8, <1>9, <1>10 DEF Next, Serve

\* A session that is held was held before, or comes from a login that used a
\* session id nobody held and no form carried.
LEMMA SessionsFollow ==
    ASSUME FlowInv, [Next]_vars, NEW s \in Held', s \notin Held
    PROVE  /\ pages' = pages /\ \A p \in pages : p.csrf # s.sid
           /\ \A t \in Held : t.sid # s.sid
           /\ \A t \in Held' \ Held : t = s
  <1>a. /\ req \in [Requests -> Request \cup {Null}] /\ cookie \in [Browsers -> Session \cup {Null}]
    BY DEF FlowInv, TypeOK
  <1>1. ASSUME NEW t \in Held', t \notin Held
        PROVE  \E b \in Browsers : t = cookie'[b] /\ cookie'[b] # cookie[b]
    <2>1. t # Null
      BY DEF Held
    <2>2. CASE \E b \in Browsers : t = cookie'[b]
      BY <1>1, <2>1, <2>2 DEF Held
    <2>3. CASE \E p \in Requests : req'[p] # Null /\ t = req'[p].session
      <3>1. PICK p \in Requests : req'[p] # Null /\ t = req'[p].session
        BY <2>3
      <3>2. CASE req[p] # Null /\ req[p].session = t
        BY <1>1, <2>1, <3>2 DEF Held
      <3>3. CASE \E b \in Browsers : t = cookie[b]
        BY <1>1, <2>1, <3>3 DEF Held
      <3>4. CASE GoesOn(p)
        BY <3>1, <3>2, <3>4 DEF GoesOn
      <3>5. QED BY <3>1, <3>2, <3>3, <3>4, RequestAfter DEF Waits, Arrives
    <2>4. QED BY <1>1, <2>2, <2>3 DEF Held
  <1>2. cookie' # cookie
    BY <1>1
  <1>3. PICK r \in Requests, user \in Users, sid \in Sids : Authenticate(r, user, sid)
    <2>1. ASSUME NEW r \in Requests, Serve(r) \/ Abort(r), ~Accept(r)
          PROVE  cookie' = cookie
      BY <2>1 DEF Serve, Abort, AuthorizeSilently, ParkInteraction, ContextGone, Dispatch, ShowConsent,
                  CheckLogin, CheckConsent, RejectLogin, Complete, Decide, Decline,
                  Consume, IssueCode, browserState
    <2>2. CASE Tick \/ Push \/ UNCHANGED vars \/ Visit \/ Submit
               \/ \E b \in Browsers, i \in Interactions : Open(b, i) \/ SignIn(b, i)
      BY <1>2, <2>2 DEF Tick, Push, PushAuthorizationRequest, vars, Visit, Submit, Open, SignIn,
                 Authorize, GetInteraction, SubmitLogin, SubmitConsent, browserState
    <2>3. QED BY <1>2, <2>1, <2>2 DEF Next, Accept
  <1> DEFINE new == [sid |-> sid, sub |-> user, authTime |-> clock, exp |-> clock + SessionTtl]
  <1>4. cookie' = [cookie EXCEPT ![req[r].browser] = new] /\ pages' = pages /\ FreshSid(sid)
    BY <1>3 DEF Authenticate
  <1>5. \A t \in Held' : t \notin Held => t = new
    BY <1>a, <1>1, <1>4
  <1>6. \A t \in Held : t.sid # sid
    BY <1>4 DEF Held, FreshSid
  <1>7. new.sid = sid
    OBVIOUS
  <1> HIDE DEF new
  <1>8. QED BY <1>4, <1>5, <1>6, <1>7 DEF FreshSid

\* Who need not log in again meets the request's demands, as of now.
LEMMA FreshNow ==
    ASSUME FlowInv, NEW r \in Requests, req[r] # Null, par[req[r].uri] \in ParRow,
           ~NeedsReauthentication(Opened(req[r].session), req[r].uri)
    PROVE  Serves(req[r].session, req[r].uri, clock)
  <1>1. req[r].session \in Session /\ req[r].session # Null /\ clock \in Nat
    BY SessionOpened, NullIsNoFlowRow DEF FlowInv, TypeOK
  <1>2. Opened(req[r].session) = req[r].session
    BY <1>1 DEF Opened, NeedsReauthentication
  <1>3. /\ req[r].session.authTime \in Nat
        /\ par[req[r].uri].maxAge # Null => par[req[r].uri].maxAge \in Nat
    BY <1>1, FlowConstantsOK DEF Session, ParRow
  <1>4. /\ par[req[r].uri].prompt # "login"
        /\ par[req[r].uri].maxAge # Null => ~(clock - req[r].session.authTime > par[req[r].uri].maxAge)
    BY <1>2 DEF NeedsReauthentication
  <1>5. QED BY <1>1, <1>3, <1>4 DEF Serves, Meets

\* What a login served, it served for good: a row keeps its demands.
LEMMA ServesLasts ==
    ASSUME FlowInv, [Next]_vars, NEW x, NEW u \in RequestUris, NEW t, Serves(x, u, t)
    PROVE  par'[u] \in ParRow /\ par'[u].prompt # "login"
           /\ (par'[u].maxAge # Null => t - x.authTime <= par'[u].maxAge)
  <1>1. par[u] \in ParRow
    BY DEF Serves
  <1>2. par'[u] \in ParRow /\ par'[u].prompt = par[u].prompt /\ par'[u].maxAge = par[u].maxAge
    BY <1>1, RowsAlwaysStay DEF RowsStay
  <1>3. QED BY <1>2 DEF Serves, Meets

\* The requests in flight stay fresh from their check on.
LEMMA RequestsFreshStep ==
    ASSUME FlowInv, [Next]_vars, Pushed, RequestsFresh
    PROVE  RequestsFresh'
  <1>a. clock \in Nat /\ req \in [Requests -> Request \cup {Null}]
    BY DEF FlowInv, TypeOK
  <1>1. SUFFICES ASSUME NEW p \in Requests, req'[p] # Null, Checked(req'[p])
                 PROVE  Serves(req[p].session, req[p].uri, req[p].checkedAt)'
    BY DEF RequestsFresh, Checked
  <1>2. ASSUME NEW t, req[p] # Null, req'[p].uri = req[p].uri, req'[p].session = req[p].session,
               req'[p].checkedAt = t, Serves(req[p].session, req[p].uri, t)
        PROVE  Serves(req[p].session, req[p].uri, req[p].checkedAt)'
    <2>1. req[p].uri \in RequestUris
      BY <1>a, <1>2 DEF Request
    <2>2. QED BY <1>2, <2>1, ServesLasts DEF Serves, Meets
  <1>3. CASE Waits(p)
    BY <1>1, <1>2, <1>3 DEF Waits, RequestsFresh, Checked
  <1>4. CASE Arrives(p)
    BY <1>1, <1>4 DEF Arrives, Checked, Decided
  <1>5. CASE GoesOn(p)
    <2>1. req[p] # Null /\ req'[p].uri = req[p].uri /\ req'[p].session = req[p].session /\ req'[p].at = req[p].at
      BY <1>5 DEF GoesOn
    <2>2. par[req[p].uri] \in ParRow /\ (req[p].pc = "interactions.complete" => req[p].at # "authorize")
      BY <1>a, <2>1, InFlight DEF RequestHolds, Pushed
    <2>3. CASE req'[p].pc \notin Decided \cup {"interactions.setSubject"}
      BY <1>1, <2>3 DEF Checked
    <2>4. CASE /\ req[p].pc \in Decided \cup {"interactions.complete"} /\ req'[p].pc \in Decided
               /\ req'[p].checkedAt = req[p].checkedAt
      <3>1. Checked(req[p])
        BY <1>1, <2>1, <2>2, <2>4 DEF Checked, Decided
      <3>2. QED BY <1>2, <2>1, <2>4, <3>1 DEF RequestsFresh
    <2>5. CASE Dispatch(p) /\ req'[p].pc = "interactions.setSubject" /\ req'[p].checkedAt = clock
      <3>1. ~NeedsReauthentication(Opened(req[p].session), req[p].uri)
        BY <1>a, <1>1, <2>5 DEF Dispatch, Finish
      <3>2. QED BY <1>2, <2>1, <2>2, <2>5, <3>1, FreshNow
    <2>6. CASE AuthorizeSilently(p) /\ req'[p].pc = "pdp.evaluate" /\ req'[p].checkedAt = clock
      <3>1. ~NeedsReauthentication(Opened(req[p].session), req[p].uri)
        BY <1>a, <1>1, <2>6 DEF AuthorizeSilently, Finish
      <3>2. QED BY <1>2, <2>1, <2>2, <2>6, <3>1, FreshNow
    <2>7. QED BY <1>5, <2>3, <2>4, <2>5, <2>6 DEF GoesOn
  <1>6. QED BY <1>1, <1>3, <1>4, <1>5, RequestAfter

\* A consent form is shown to the holder of a login that was checked, and its
\* CSRF token stays with that login.
LEMMA PagesFreshStep ==
    ASSUME FlowInv, [Next]_vars, RequestsFresh, PagesFresh,
           \A s, t \in Held : s.sid = t.sid => s = t
    PROVE  PagesFresh'
  <1>a. /\ pages \subseteq Page /\ req \in [Requests -> Request \cup {Null}]
        /\ interactions \in [Interactions -> InteractionRow \cup {Null}]
    BY DEF FlowInv, TypeOK
  <1>1. ASSUME NEW p \in pages', p.form = "consent"
        PROVE  /\ interactions'[p.interaction] \in InteractionRow
               /\ par'[interactions'[p.interaction].uri] \in ParRow
               /\ par'[interactions'[p.interaction].uri].prompt # "login"
               /\ \A s \in Held' : s.sid = p.csrf =>
                     Serves(s, interactions[p.interaction].uri, p.checkedAt)'
    <2> DEFINE i == p.interaction
    <2>1. SUFFICES ASSUME /\ i \in Interactions /\ interactions[i] \in InteractionRow
                          /\ par[interactions[i].uri] \in ParRow /\ par[interactions[i].uri].prompt # "login"
                          /\ \A s \in Held' : s.sid = p.csrf => Serves(s, interactions[i].uri, p.checkedAt)
                   PROVE  /\ interactions'[i] \in InteractionRow
                          /\ par'[interactions'[i].uri] \in ParRow /\ par'[interactions'[i].uri].prompt # "login"
                          /\ \A s \in Held' : s.sid = p.csrf => Serves(s, interactions[i].uri, p.checkedAt)'
      <3>1. CASE p \in pages
        <4>1. i \in Interactions /\ interactions[i] \in InteractionRow
          BY <1>a, <1>1, <3>1 DEF Page, PagesFresh
        <4>2. \A s \in Held' : s.sid = p.csrf => s \in Held
          BY <3>1, SessionsFollow
        <4>3. QED BY <1>1, <2>1, <3>1, <4>1, <4>2 DEF PagesFresh
      <3>2. CASE p \notin pages
        <4>1. PICK r \in Requests : ShowConsent(r)
          <5>1. ASSUME NEW r \in Requests, Serve(r) \/ Abort(r), ~ShowConsent(r)
                PROVE  pages' = pages \/ p.form = "login"
            <6>1. CASE Dispatch(r)
              <7>1. pages' = pages \/ pages' = pages \cup {Login(req[r].browser, req[r].interaction)}
                BY <6>1 DEF Dispatch
              <7>2. QED BY <1>1, <3>2, <7>1 DEF Login
            <6>2. CASE ~Dispatch(r)
              BY <5>1, <6>2 DEF Serve, Abort, AuthorizeSilently, ParkInteraction, ContextGone, CheckLogin,
                          CheckConsent, Accept, Authenticate, RejectLogin, Complete, Decide, Decline,
                          Consume, IssueCode, browserState
            <6>3. QED BY <6>1, <6>2
          <5>2. CASE Tick \/ Push \/ UNCHANGED vars \/ Visit \/ Submit
                     \/ \E b \in Browsers, j \in Interactions : Open(b, j) \/ SignIn(b, j)
            BY <3>2, <5>2 DEF Tick, Push, PushAuthorizationRequest, vars, Visit, Submit, Open, SignIn,
                       Authorize, GetInteraction, SubmitLogin, SubmitConsent, browserState
          <5>3. QED BY <1>1, <3>2, <5>1, <5>2 DEF Next
        <4>2. /\ req[r] # Null /\ req[r].pc = "interactions.setSubject"
              /\ p = Consent(req[r].browser, req[r].interaction, req[r].session, req[r].checkedAt)
              /\ pages' # pages
          BY <3>2, <4>1 DEF ShowConsent, At
        <4>3. /\ req[r].session \in Session /\ i = req[r].interaction /\ i \in Interactions
              /\ interactions[i] \in InteractionRow /\ interactions[i].uri = req[r].uri
              /\ p.csrf = req[r].session.sid /\ p.checkedAt = req[r].checkedAt
          BY <4>2, InFlight DEF RequestHolds, Consent
        <4>4. req[r].session \in Held /\ Serves(req[r].session, req[r].uri, p.checkedAt)
          <5>1. req[r].session # Null
            BY <4>3, NullIsNoFlowRow
          <5>2. Serves(req[r].session, req[r].uri, req[r].checkedAt)
            BY <4>2 DEF RequestsFresh, Checked
          <5>3. QED BY <4>2, <4>3, <5>1, <5>2 DEF Held
        <4>5. \A s \in Held' : s \in Held
          BY <4>2, SessionsFollow
        <4>6. \A s \in Held' : s.sid = p.csrf => s = req[r].session
          BY <4>3, <4>4, <4>5
        <4>7. par[req[r].uri] \in ParRow /\ par[req[r].uri].prompt # "login"
          BY <4>4 DEF Serves, Meets
        <4>8. QED BY <2>1, <4>3, <4>4, <4>6, <4>7
      <3>3. QED BY <3>1, <3>2
    <2>2. /\ interactions[i].uri \in RequestUris /\ interactions'[i] \in InteractionRow
          /\ interactions'[i].uri = interactions[i].uri
          /\ par'[interactions[i].uri] \in ParRow /\ par'[interactions[i].uri].prompt # "login"
      BY <2>1, InteractionsStay, RowsAlwaysStay DEF InteractionRow, RowsStay
    <2>3. ASSUME NEW s \in Held', s.sid = p.csrf
          PROVE  Serves(s, interactions[i].uri, p.checkedAt)'
      BY <2>1, <2>2, <2>3, ServesLasts DEF Serves, Meets
    <2>4. QED BY <2>2, <2>3
  <1>2. QED BY <1>1 DEF PagesFresh

\* A code carries the login of the request it is issued to.
LEMMA CodesFreshStep ==
    ASSUME FlowInv, [Next]_vars, RequestsFresh, PagesFresh, CodesFresh
    PROVE  CodesFresh'
  <1>a. issued \in [Codes -> CodeRow \cup {Null}] /\ req \in [Requests -> Request \cup {Null}]
    BY DEF FlowInv, TypeOK
  <1>1. ASSUME NEW k \in CodeRow, Serves(k, k.uri, k.checkedAt)
        PROVE  Serves(k, k.uri, k.checkedAt)'
    BY <1>1, ServesLasts DEF CodeRow, Serves, Meets
  <1>2. ASSUME NEW c \in Codes, issued'[c] # Null
        PROVE  Serves(issued[c], issued[c].uri, issued[c].checkedAt)'
    <2>1. CASE issued'[c] = issued[c]
      BY <1>1, <1>2, <1>a, <2>1 DEF CodesFresh, Serves, Meets
    <2>2. CASE issued'[c] # issued[c]
      <3>1. PICK r \in Requests : IssueCode(r, c)
        <4>1. ASSUME NEW r \in Requests, Serve(r) \/ Abort(r), ~IssueCode(r, c)
              PROVE  issued'[c] = issued[c]
          BY <1>a, <4>1 DEF Serve, Abort, AuthorizeSilently, ParkInteraction, ContextGone, Dispatch,
                     ShowConsent, CheckLogin, CheckConsent, Accept, Authenticate, RejectLogin, Complete,
                     Decide, Decline, Consume, IssueCode, answers
        <4>2. CASE Tick \/ Push \/ UNCHANGED vars \/ Visit \/ Submit
                   \/ \E b \in Browsers, j \in Interactions : Open(b, j) \/ SignIn(b, j)
          BY <2>2, <4>2 DEF Tick, Push, PushAuthorizationRequest, vars, Visit, Submit, Open, SignIn,
                     Authorize, GetInteraction, SubmitLogin, SubmitConsent, answers
        <4>3. QED BY <2>2, <4>1, <4>2 DEF Next
      <3> DEFINE k == [uri |-> req[r].uri, page |-> req[r].page, subject |-> req[r].session.sub,
                       authTime |-> req[r].session.authTime,
                       checkedAt |-> IF req[r].page = Null THEN req[r].checkedAt ELSE req[r].page.checkedAt]
      <3>2. /\ issued'[c] = k /\ req[r] # Null /\ req[r].pc = "issue"
            /\ UNCHANGED <<par, interactions>>
        BY <1>a, <3>1 DEF IssueCode, At, tables
      <3>3. req[r].session \in Session /\ req[r].at \in {"authorize", "consent"}
        BY <3>2, InFlight DEF RequestHolds, Decided
      <3>4. CASE req[r].at = "authorize"
        <4>1. req[r].page = Null /\ Serves(req[r].session, req[r].uri, req[r].checkedAt)
          BY <3>2, <3>4, InFlight DEF RequestHolds, RequestsFresh, Checked, Decided
        <4>2. QED BY <3>2, <4>1 DEF Serves, Meets
      <3>5. CASE req[r].at = "consent"
        <4>1. /\ req[r].page \in pages /\ req[r].page.form = "consent"
              /\ req[r].page.interaction = req[r].interaction /\ req[r].page.csrf = req[r].session.sid
              /\ interactions[req[r].interaction].uri = req[r].uri
          BY <3>2, <3>5, InFlight DEF RequestHolds
        <4>2. req[r].session \in Held /\ req[r].page # Null
          BY <3>2, <3>3, <4>1, NullIsNoFlowRow DEF Held, FlowInv, TypeOK
        <4>3. Serves(req[r].session, req[r].uri, req[r].page.checkedAt)
          BY <4>1, <4>2 DEF PagesFresh
        <4>4. QED BY <3>2, <4>2, <4>3 DEF Serves, Meets
      <3>6. QED BY <3>3, <3>4, <3>5
    <2>3. QED BY <2>1, <2>2
  <1>3. QED BY <1>2 DEF CodesFresh

\* Every step keeps the login invariant.
LEMMA FreshStep ==
    ASSUME FlowInv, [Next]_vars, Pushed, FreshInv
    PROVE  FreshInv'
  <1>1. ASSUME NEW s \in Held', NEW t \in Held', s.sid = t.sid
        PROVE  s = t
    <2>1. CASE s \in Held /\ t \in Held
      BY <1>1, <2>1 DEF FreshInv
    <2>2. CASE s \notin Held
      BY <1>1, <2>2, SessionsFollow
    <2>3. CASE t \notin Held
      BY <1>1, <2>3, SessionsFollow
    <2>4. QED BY <2>1, <2>2, <2>3
  <1>2. QED
    BY <1>1, RequestsFreshStep, PagesFreshStep, CodesFreshStep DEF FreshInv

\* The login invariant holds throughout.
LEMMA FreshInvariant == Spec => []FreshInv
  <1>1. Init => FreshInv /\ Pushed /\ DeclinedUnusable /\ InTime
    BY NullIsNoFlowRow DEF Init, FreshInv, RequestsFresh, PagesFresh, CodesFresh, Held,
                           Pushed, DeclinedUnusable, InTime
  <1>2. ASSUME FlowInv, FlowInv', [Next]_vars, FreshInv, Pushed, DeclinedUnusable, InTime
        PROVE  FreshInv' /\ Pushed' /\ DeclinedUnusable' /\ InTime'
    BY <1>2, FreshStep, DeclinedStep
  <1>3. QED BY <1>1, <1>2, FlowInvariant, PTL DEF Spec

\* max_age lasts (needsReauthentication in the interaction handler, against
\* issueAuthorizationCode at the end): the login behind every code was no older
\* than the client asked for when the consent form was asked for, or when the
\* silent visit was checked.
THEOREM LoginRecentEnough == Spec => []AuthTimeMeetsDemand
  <1>1. FreshInv => AuthTimeMeetsDemand
    BY DEF FreshInv, CodesFresh, Serves, AuthTimeMeetsDemand
  <1>2. QED BY <1>1, FreshInvariant, PTL

\* With prompt=login nobody is ever asked for consent: needsReauthentication
\* does not tell a login made for this interaction from an older one.
NoConsentUnderPromptLogin ==
    \A p \in pages : p.form = "consent" => par[interactions[p.interaction].uri].prompt # "login"

\* The reason LoginLeadsToConsent fails in the run prompt_login, for any number
\* of people who log in any number of times.
THEOREM PromptLoginNeverServed == Spec => []NoConsentUnderPromptLogin
  <1>1. FreshInv => NoConsentUnderPromptLogin
    BY DEF FreshInv, PagesFresh, NoConsentUnderPromptLogin
  <1>2. QED BY <1>1, FreshInvariant, PTL

=============================================================================
