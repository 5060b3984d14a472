--------------------------- MODULE ParFrontProofs ---------------------------
(***************************************************************************)
(* The rate limiter keeps its bound and never locks an address out, and a  *)
(* code carries what was pushed, for any number of addresses, limits,      *)
(* registrations and requests.                                             *)
(***************************************************************************)
EXTENDS ParFront, FiniteSetTheorems, TLAPS

-----------------------------------------------------------------------------
(* The limiter.                                                            *)

\* After a sweep every entry is younger than a window was at that sweep.
StartsRecent ==
    /\ lastSweep <= clock
    /\ \A s \in Tracked :
        windows[s].start <= clock /\ lastSweep - windows[s].start < Window

LimiterInv ==
    /\ LimiterTypeOK
    /\ IsFiniteSet(Tracked)
    /\ KeysBounded
    /\ StartsRecent

\* A sweep leaves a part of the map.
LEMMA KeptFacts ==
    ASSUME LimiterInv
    PROVE  /\ Kept \subseteq Tracked
           /\ IsFiniteSet(Kept)
           /\ Cardinality(Kept) \in Nat /\ Cardinality(Tracked) \in Nat
           /\ Cardinality(Kept) <= Cardinality(Tracked)
           /\ Cardinality(Kept) = Cardinality(Tracked) => Kept = Tracked
  <1>1. Kept \subseteq Tracked
    BY DEF Kept
  <1>2. IsFiniteSet(Tracked)
    BY DEF LimiterInv
  <1>3. IsFiniteSet(Kept)
    BY <1>1, <1>2, FS_Subset
  <1>4. QED
    BY <1>1, <1>2, <1>3, FS_Subset, FS_CardinalityType

\* An entry that a sweep, when one is due, leaves is younger than a window.
LEMMA KeptRunning ==
    ASSUME SweepDue, NEW s \in Kept
    PROVE  s \in Tracked /\ Running(s)
  BY DEF Kept

\* What a call does to the bookkeeping, in terms of the set it leaves.
LEMMA OpenWindowDomain ==
    ASSUME LimiterInv, NEW s \in Sources, OpenWindow(s)
    PROVE  /\ Tracked' = IF FailClosed(s) THEN Kept ELSE Kept \cup {s}
           /\ \A k \in Tracked' :
                windows'[k] = IF k = s THEN [start |-> clock, count |-> 1] ELSE windows[k]
  BY DEF OpenWindow, Tracked

\* The cap holds after a call that opens a window: a new address found room,
\* and the entry of a known one is kept or swept, not added.
LEMMA CapKept ==
    ASSUME LimiterInv, NEW s \in Sources, OpenWindow(s)
    PROVE  IsFiniteSet(Tracked') /\ Cardinality(Tracked') <= MaxKeys
  <1>a. /\ Kept \subseteq Tracked /\ IsFiniteSet(Kept)
        /\ Cardinality(Kept) \in Nat /\ Cardinality(Tracked) \in Nat
        /\ Cardinality(Kept) <= Cardinality(Tracked)
    BY KeptFacts
  <1>b. Cardinality(Tracked) <= MaxKeys /\ IsFiniteSet(Tracked)
    BY DEF LimiterInv, KeysBounded
  <1>c. MaxKeys \in Nat
    BY LimiterConstantsOK
  <1>d. Tracked' = IF FailClosed(s) THEN Kept ELSE Kept \cup {s}
    BY OpenWindowDomain
  <1>e. IsFiniteSet(Kept \cup {s})
        /\ Cardinality(Kept \cup {s}) = IF s \in Kept THEN Cardinality(Kept) ELSE Cardinality(Kept) + 1
    BY <1>a, FS_AddElement
  <1>1. CASE FailClosed(s)
    BY <1>1, <1>a, <1>b, <1>c, <1>d
  <1>2. CASE ~FailClosed(s) /\ s \notin Tracked
    <2>1. Cardinality(Kept) < MaxKeys
      BY <1>2, <1>a, <1>c DEF FailClosed
    <2>2. QED BY <2>1, <1>2, <1>a, <1>c, <1>d, <1>e
  <1>3. CASE s \in Tracked /\ SweepDue
    <2>1. s \notin Kept
      BY <1>3, KeptRunning DEF OpenWindow, Live
    <2>2. Kept \in SUBSET (Tracked \ {s})
      BY <2>1, <1>a
    <2>3. IsFiniteSet(Tracked \ {s}) /\ Cardinality(Tracked \ {s}) = Cardinality(Tracked) - 1
      BY <1>3, <1>b, FS_RemoveElement
    <2>4. Cardinality(Kept) <= Cardinality(Tracked) - 1
      BY <2>2, <2>3, FS_Subset
    <2>5. Tracked' = Kept \cup {s}
      BY <1>3, <1>d DEF FailClosed
    <2>6. QED BY <2>1, <2>4, <2>5, <1>a, <1>b, <1>c, <1>e
  <1>4. CASE s \in Tracked /\ ~SweepDue
    <2>1. Kept = Tracked
      BY <1>4 DEF Kept
    <2>2. Tracked' = Tracked
      BY <2>1, <1>4, <1>d
    <2>3. QED BY <2>2, <1>b
  <1>5. QED BY <1>1, <1>2, <1>3, <1>4

\* Opening a window keeps the map's type and the age of its entries.
LEMMA OpenWindowStep ==
    ASSUME LimiterInv, NEW s \in Sources, OpenWindow(s), UNCHANGED clock
    PROVE  LimiterInv'
  <1>a. clock \in Nat /\ lastSweep \in Nat /\ lastSweep <= clock /\ Window \in Nat \ {0}
    BY LimiterConstantsOK DEF LimiterInv, LimiterTypeOK, StartsRecent
  <1>b. /\ Tracked' = IF FailClosed(s) THEN Kept ELSE Kept \cup {s}
        /\ \A k \in Tracked' :
             windows'[k] = IF k = s THEN [start |-> clock, count |-> 1] ELSE windows[k]
    BY OpenWindowDomain
  <1>c. Kept \subseteq Tracked
    BY KeptFacts
  <1>d. \A k \in Tracked : /\ windows[k] \in OneWindow /\ windows[k].start \in Nat
                           /\ windows[k].start <= clock
                           /\ lastSweep - windows[k].start < Window
    BY DEF LimiterInv, LimiterTypeOK, StartsRecent, Tracked, OneWindow
  <1>1. LimiterTypeOK'
    <2>1. DOMAIN windows' \subseteq Sources
      BY <1>b, <1>c DEF Tracked, LimiterInv, LimiterTypeOK
    <2>2. [start |-> clock, count |-> 1] \in OneWindow
      BY <1>a, LimiterConstantsOK DEF OneWindow
    <2>3. \A k \in Tracked' : windows'[k] \in OneWindow
      BY <2>2, <1>b, <1>c, <1>d
    <2>4. windows' = [k \in DOMAIN windows' |-> windows'[k]]
      BY DEF OpenWindow
    <2>5. lastSweep' \in Nat /\ clock' \in Nat
      BY <1>a DEF OpenWindow
    <2>6. QED BY <2>1, <2>3, <2>4, <2>5 DEF LimiterTypeOK, Tracked
  <1>2. StartsRecent'
    <2>1. ASSUME NEW k \in Tracked'
          PROVE  windows'[k].start <= clock' /\ lastSweep' - windows'[k].start < Window
      <3>1. CASE k = s
        <4>1. windows'[k].start = clock
          BY <3>1, <1>b
        <4>2. QED BY <4>1, <1>a DEF OpenWindow
      <3>2. CASE k # s
        <4>1. k \in Kept /\ k \in Tracked /\ windows'[k] = windows[k]
          BY <3>2, <1>b, <1>c
        <4>2. CASE SweepDue
          <5>1. clock - windows[k].start < Window
            BY <4>1, <4>2, KeptRunning DEF Running
          <5>2. lastSweep' = clock
            BY <4>2 DEF OpenWindow
          <5>3. QED BY <5>1, <5>2, <4>1, <1>d
        <4>3. CASE ~SweepDue
          <5>1. lastSweep' = lastSweep
            BY <4>3 DEF OpenWindow
          <5>2. QED BY <5>1, <4>1, <1>d
        <4>4. QED BY <4>2, <4>3
      <3>3. QED BY <3>1, <3>2
    <2>2. lastSweep' <= clock'
      BY <1>a DEF OpenWindow
    <2>3. QED BY <2>1, <2>2 DEF StartsRecent
  <1>3. IsFiniteSet(Tracked') /\ KeysBounded'
    BY CapKept DEF KeysBounded
  <1>4. QED BY <1>1, <1>2, <1>3 DEF LimiterInv

\* Counting a call keeps the invariant.
LEMMA CountCallStep ==
    ASSUME LimiterInv, NEW s \in Sources, CountCall(s), UNCHANGED clock
    PROVE  LimiterInv'
  <1>a. /\ clock \in Nat /\ lastSweep \in Nat /\ Limit \in Nat
        /\ DOMAIN windows \subseteq Sources /\ windows \in [DOMAIN windows -> OneWindow]
    BY LimiterConstantsOK DEF LimiterInv, LimiterTypeOK
  <1>1. s \in DOMAIN windows /\ DOMAIN windows' = DOMAIN windows /\ lastSweep' = lastSweep
    BY DEF CountCall, Live, Tracked
  <1>2. windows[s] \in OneWindow
    BY <1>a, <1>1
  <1>3. \A k \in DOMAIN windows : windows'[k] \in OneWindow /\ windows'[k].start = windows[k].start
    BY <1>a, <1>1, <1>2 DEF CountCall, OneWindow
  <1>4. windows' = [k \in DOMAIN windows' |-> windows'[k]]
    BY <1>a DEF CountCall
  <1>5. LimiterTypeOK'
    BY <1>a, <1>1, <1>3, <1>4 DEF LimiterTypeOK
  <1>6. Tracked' = Tracked
    BY <1>1 DEF Tracked
  <1>7. QED
    BY <1>1, <1>3, <1>5, <1>6 DEF LimiterInv, KeysBounded, StartsRecent, Tracked

\* Every step of the limiter keeps the invariant.
LEMMA LimiterStep ==
    ASSUME LimiterInv, [LimiterNext]_limiterVars
    PROVE  LimiterInv'
  <1>1. ASSUME NEW s \in Sources, Allow(s)
        PROVE  LimiterInv'
    <2>1. CASE Limit = 0
      BY <1>1, <2>1 DEF Allow, LimiterInv, LimiterTypeOK, KeysBounded, StartsRecent, Tracked
    <2>2. CASE Limit # 0
      BY <1>1, <2>2, CountCallStep, OpenWindowStep DEF Allow
    <2>3. QED BY <2>1, <2>2
  <1>2. CASE LimiterTick
    <2>1. LimiterTypeOK' /\ IsFiniteSet(Tracked') /\ KeysBounded'
      BY <1>2 DEF LimiterTick, LimiterInv, LimiterTypeOK, KeysBounded, Tracked
    <2>2. \A s \in Tracked : windows[s].start \in Nat
      BY DEF LimiterInv, LimiterTypeOK, Tracked, OneWindow
    <2>3. StartsRecent'
      BY <1>2, <2>2 DEF LimiterTick, LimiterInv, LimiterTypeOK, StartsRecent, Tracked
    <2>4. QED BY <2>1, <2>3 DEF LimiterInv
  <1>3. CASE UNCHANGED limiterVars
    BY <1>3 DEF limiterVars, LimiterInv, LimiterTypeOK, KeysBounded, StartsRecent, Tracked
  <1>4. QED BY <1>1, <1>2, <1>3 DEF LimiterNext

\* The limiter starts with an empty map.
LEMMA LimiterStart == LimiterInit => LimiterInv
  <1>. SUFFICES ASSUME LimiterInit PROVE LimiterInv
    OBVIOUS
  <1>1. Tracked = {}
    BY DEF LimiterInit, Tracked
  <1>2. LimiterTypeOK
    BY LimiterConstantsOK DEF LimiterInit, LimiterTypeOK
  <1>3. IsFiniteSet(Tracked) /\ KeysBounded
    BY <1>1, FS_EmptySet, LimiterConstantsOK DEF KeysBounded
  <1>4. StartsRecent
    BY <1>1, LimiterConstantsOK DEF StartsRecent, LimiterInit
  <1>5. QED BY <1>2, <1>3, <1>4 DEF LimiterInv

\* At the cap, either a sweep just showed that every entry is live, or the
\* last sweep is less than a window old and kept nothing older than that.
LEMMA WaitBounded == LimiterInv => NewcomersWaitTwoWindows
  <1>. SUFFICES ASSUME LimiterInv, NEW s \in Sources, FailClosed(s), NEW k \in Tracked
                PROVE  clock - windows[k].start < 2 * Window
    BY DEF NewcomersWaitTwoWindows
  <1>a. /\ clock \in Nat /\ lastSweep \in Nat /\ Window \in Nat \ {0} /\ MaxKeys \in Nat
        /\ windows[k].start \in Nat /\ lastSweep - windows[k].start < Window
    BY LimiterConstantsOK DEF LimiterInv, LimiterTypeOK, StartsRecent, Tracked, OneWindow
  <1>b. /\ Cardinality(Kept) \in Nat /\ Cardinality(Tracked) \in Nat
        /\ Cardinality(Kept) <= Cardinality(Tracked)
        /\ Cardinality(Kept) = Cardinality(Tracked) => Kept = Tracked
        /\ Cardinality(Kept) >= MaxKeys /\ Cardinality(Tracked) <= MaxKeys
    BY KeptFacts DEF FailClosed, LimiterInv, KeysBounded
  <1>1. CASE SweepDue
    <2>1. k \in Kept
      BY <1>a, <1>b
    <2>2. clock - windows[k].start < Window
      BY <2>1, <1>1, KeptRunning DEF Running
    <2>3. QED BY <2>2, <1>a
  <1>2. CASE ~SweepDue
    <2>1. clock - lastSweep < Window
      BY <1>2, <1>a, <1>b DEF SweepDue
    <2>2. QED BY <2>1, <1>a
  <1>3. QED BY <1>1, <1>2

-----------------------------------------------------------------------------
(* The request.                                                            *)

\* x is what was stored, but for an empty scope.
Carries(x, p) ==
    /\ x.redirectUri = p.redirectUri
    /\ x.dpopJkt = p.dpopJkt
    /\ p.scope # {} => x.scope = p.scope

\* The form f is one that was shown for u, whose stored parameters are p.
FormHolds(f, u, p) == f # Null => f.uri = u /\ (p.scope # {} => f.scope = p.scope)

PushedRight ==
    \A u \in RequestUris : par[u] \in ParRow =>
        /\ Valid(par[u].body, par[u].by)
        /\ SameKey(par[u].body)
        /\ par[u].params = Stored(par[u].body, par[u].by)

RequestHolds(r) ==
    req[r] # Null /\ req[r].pc # "par.insert" =>
        /\ par[req[r].uri] \in ParRow
        /\ client \in req[r].seen
        /\ FormHolds(req[r].form, req[r].uri, par[req[r].uri].params)
        /\ req[r].pc = "decide" =>
              /\ Carries(req[r].request, par[req[r].uri].params)
              /\ \E reg \in req[r].seen : req[r].request.redirectUri \in reg.redirectUris

FormsHold == \A f \in forms : par[f.uri] \in ParRow /\ FormHolds(f, f.uri, par[f.uri].params)

CodesHold ==
    \A u \in RequestUris : codes[u] # Null =>
        /\ par[u] \in ParRow
        /\ Carries(codes[u].request, par[u].params)
        /\ FormHolds(codes[u].form, u, par[u].params)

RequestInv ==
    /\ TypeOK
    /\ PushedRight
    /\ \A r \in Requests : RequestHolds(r)
    /\ FormsHold
    /\ CodesHold
    /\ RedirectsRegistered

\* The fields that a request has at each of its steps.
LEMMA RequestFields ==
    ASSUME TypeOK, NEW r \in Requests, req[r] # Null
    PROVE  /\ req[r] \in Request
           /\ req[r].pc = "par.insert" => req[r].body \in Body /\ req[r].client \in Registrations
           /\ req[r].pc # "par.insert" =>
                /\ req[r].uri \in RequestUris
                /\ req[r].form \in Form \cup {Null}
                /\ req[r].seen \in SUBSET Registrations
           /\ req[r].pc = "decide" => req[r].request \in Validated
  <1>1. req[r] \in Request
    BY DEF TypeOK
  <1>2. QED BY <1>1 DEF Request

\* What validation makes of a valid body is a validated request.
LEMMA NormalType ==
    ASSUME NEW p, NEW reg \in Registrations, Valid(p, reg),
           p.scope \in SUBSET Scopes, p.dpopJkt \in Keys \cup {Null},
           p.prompt \in {"unset", "none"}
    PROVE  /\ Normal(p, reg) \in Validated
           /\ Carries(Normal(p, reg), p)
           /\ Normal(p, reg).redirectUri \in reg.redirectUris
  <1>1. reg \in Registration
    BY RequestConstantsOK
  <1>2. reg.redirectUris \subseteq RedirectUris /\ reg.scope \in SUBSET Scopes
    BY <1>1 DEF Registration
  <1>3. EffectiveScope(p.scope, reg) \in SUBSET Scopes
    BY <1>2 DEF EffectiveScope
  <1>4. Normal(p, reg) \in Validated
    BY <1>2, <1>3 DEF Normal, Validated, Valid
  <1>5. Carries(Normal(p, reg), p)
    BY DEF Carries, Normal, EffectiveScope
  <1>6. QED BY <1>4, <1>5 DEF Normal, Valid

\* The row that a push inserts.
LEMMA StoredType ==
    ASSUME NEW body \in Body, NEW reg \in Registrations, Valid(body, reg)
    PROVE  Stored(body, reg) \in Validated
  <1>1. Normal(body, reg) \in Validated /\ body.proofJkt \in Keys \cup {Null}
    BY NormalType DEF Body
  <1>2. QED BY <1>1 DEF Stored, Validated

\* Rows of par_requests stay, with what was pushed; only consumed changes.
ParKept ==
    \A u \in RequestUris : par[u] \in ParRow =>
        /\ par'[u] \in ParRow
        /\ par'[u].params = par[u].params
        /\ par'[u].body = par[u].body
        /\ par'[u].by = par[u].by

\* The table stays typed and keeps its rows, and a row that is new was
\* validated before it was stored.
LEMMA ParStep ==
    ASSUME RequestInv, RequestNext \/ UNCHANGED requestVars
    PROVE  /\ par' \in [RequestUris -> ParRow \cup {Null}]
           /\ ParKept
           /\ PushedRight'
  <1>a. TypeOK /\ PushedRight /\ par \in [RequestUris -> ParRow \cup {Null}]
    BY DEF RequestInv, TypeOK
  <1>1. CASE UNCHANGED par
    BY <1>1, <1>a DEF ParKept, PushedRight
  <1>2. ASSUME NEW r \in Requests, NEW u \in RequestUris, PushAuthorizationRequest(r, u)
        PROVE  /\ par' \in [RequestUris -> ParRow \cup {Null}]
               /\ ParKept
               /\ PushedRight'
    <2> DEFINE body == req[r].body
               reg == req[r].client
               row == [params |-> Stored(body, reg), consumed |-> FALSE, body |-> body, by |-> reg]
    <2>1. body \in Body /\ reg \in Registrations
      BY <1>2, <1>a, RequestFields DEF PushAuthorizationRequest, At
    <2>2. Valid(body, reg) /\ SameKey(body) /\ par[u] = Null /\ par' = [par EXCEPT ![u] = row]
      BY <1>2 DEF PushAuthorizationRequest
    <2>3. row \in ParRow
      BY <2>1, <2>2, StoredType DEF ParRow
    <2>4. par[u] \notin ParRow
      BY <2>2, NullIsNoRecord
    <2> HIDE DEF row
    <2>5. par' \in [RequestUris -> ParRow \cup {Null}]
      BY <2>2, <2>3, <1>a
    <2>6. /\ par'[u] = row
          /\ \A v \in RequestUris \ {u} : par'[v] = par[v]
      BY <2>2, <1>a
    <2>7. ParKept
      BY <2>4, <2>6 DEF ParKept
    <2>8. Valid(row.body, row.by) /\ SameKey(row.body) /\ row.params = Stored(row.body, row.by)
      BY <2>2 DEF row
    <2>9. PushedRight'
      BY <2>6, <2>8, <1>a DEF PushedRight
    <2>10. QED BY <2>5, <2>7, <2>9
  <1>3. ASSUME NEW r \in Requests, NEW allowed \in BOOLEAN, Decide(r, allowed)
        PROVE  /\ par' \in [RequestUris -> ParRow \cup {Null}]
               /\ ParKept
               /\ PushedRight'
    <2> DEFINE u == req[r].uri
    <2>1. u \in RequestUris /\ par[u] \in ParRow
      BY <1>3, <1>a, RequestFields DEF Decide, At, RequestInv, RequestHolds
    <2>2. par' = [par EXCEPT ![u].consumed = TRUE]
      BY <1>3 DEF Decide
    <2> HIDE DEF u
    <2>3. /\ par'[u] \in ParRow
          /\ par'[u].params = par[u].params /\ par'[u].body = par[u].body /\ par'[u].by = par[u].by
      BY <2>1, <2>2, <1>a DEF ParRow
    <2>4. \A v \in RequestUris \ {u} : par'[v] = par[v]
      BY <2>2, <1>a
    <2>5. par' \in [RequestUris -> ParRow \cup {Null}]
      BY <2>1, <2>2, <2>3, <2>4, <1>a
    <2>6. ParKept
      BY <2>3, <2>4 DEF ParKept
    <2>7. PushedRight'
      BY <2>1, <2>3, <2>4, <1>a DEF PushedRight
    <2>8. QED BY <2>5, <2>6, <2>7
  <1>4. \/ UNCHANGED par
        \/ \E r \in Requests, u \in RequestUris : PushAuthorizationRequest(r, u)
        \/ \E r \in Requests, allowed \in BOOLEAN : Decide(r, allowed)
    BY DEF RequestNext, Handle, Push, Reseed, ReceivePush, RefusePush, Authorize, GetInteraction,
       SubmitConsent, Begin, AuthorizeChecked, LoginRequired, AuthorizeRefused, ShowConsent, CheckConsent,
       ContextGone, requestVars
  <1>5. QED BY <1>1, <1>2, <1>3, <1>4

\* The request that a handler goes on with, after it has validated it again.
LEMMA DecideFacts ==
    ASSUME RequestInv, NEW r \in Requests, req[r] # Null, req[r].pc # "par.insert",
           Revalidated(r)
    PROVE  LET request == Normal(par[req[r].uri].params, client) IN
           /\ request \in Validated
           /\ Carries(request, par[req[r].uri].params)
           /\ request.redirectUri \in client.redirectUris
           /\ client \in req[r].seen
  <1>1. par[req[r].uri] \in ParRow /\ client \in req[r].seen /\ client \in Registrations
    BY DEF RequestInv, RequestHolds, TypeOK
  <1>2. par[req[r].uri].params \in Validated
    BY <1>1 DEF ParRow
  <1>3. QED BY <1>1, <1>2, NormalType DEF Revalidated, Validated

\* A step that only moves the request r, to a position that holds.
LEMMA OneRequestMoves ==
    ASSUME RequestInv, ParKept, client' = client, NEW r \in Requests, NEW x,
           req' = [req EXCEPT ![r] = x], x \in Request \cup {Null}, RequestHolds(r)'
    PROVE  /\ req' \in [Requests -> Request \cup {Null}]
           /\ \A q \in Requests : RequestHolds(q)'
  <1>1. req \in [Requests -> Request \cup {Null}]
    BY DEF RequestInv, TypeOK
  <1>2. ASSUME NEW q \in Requests, q # r
        PROVE  RequestHolds(q)'
    <2>1. req'[q] = req[q] /\ RequestHolds(q)
      BY <1>1, <1>2 DEF RequestInv
    <2>2. CASE req[q] # Null /\ req[q].pc # "par.insert"
      <3>1. req[q].uri \in RequestUris /\ par[req[q].uri] \in ParRow
        BY <2>1, <2>2, RequestFields DEF RequestHolds, RequestInv
      <3>2. FormHolds(req[q].form, req[q].uri, par[req[q].uri].params)
        BY <2>1, <2>2 DEF RequestHolds
      <3>3. par'[req[q].uri] \in ParRow /\ par'[req[q].uri].params = par[req[q].uri].params
        BY <3>1 DEF ParKept
      <3>4. FormHolds(req[q].form, req[q].uri, par'[req[q].uri].params)
        BY <2>1, <3>1, <3>2, <3>3 DEF FormHolds
      <3>5. QED BY <2>1, <2>2, <3>3, <3>4 DEF RequestHolds, FormHolds
    <2>3. QED BY <2>1, <2>2 DEF RequestHolds
  <1>3. req' \in [Requests -> Request \cup {Null}]
    BY <1>1
  <1>4. QED BY <1>2, <1>3

\* A request that is over.
LEMMA RequestFinishes ==
    ASSUME RequestInv, ParKept, client' = client, NEW r \in Requests, Finish(r)
    PROVE  /\ req' \in [Requests -> Request \cup {Null}]
           /\ \A q \in Requests : RequestHolds(q)'
  <1>1. req' = [req EXCEPT ![r] = Null] /\ req \in [Requests -> Request \cup {Null}]
    BY DEF Finish, RequestInv, TypeOK
  <1>2. RequestHolds(r)'
    BY <1>1 DEF RequestHolds
  <1>3. QED BY <1>1, <1>2, OneRequestMoves

\* A lookup starts with a row that is there and the registration of the day.
LEMMA RequestBegins ==
    ASSUME RequestInv, ParKept, NEW r \in Requests, NEW pc \in {"authorize", "interaction", "consent"},
           NEW u \in RequestUris, NEW f \in Form \cup {Null}, FormHolds(f, u, par[u].params),
           Begin(r, pc, u, f)
    PROVE  /\ req' \in [Requests -> Request \cup {Null}]
           /\ \A q \in Requests : RequestHolds(q)'
  <1> DEFINE x == [pc |-> pc, uri |-> u, form |-> f, seen |-> {client}]
  <1>1. req' = [req EXCEPT ![r] = x] /\ par' = par /\ client' = client
    BY DEF Begin
  <1>2. client \in Registrations /\ par[u] \in ParRow
    BY DEF Begin, Usable, RequestInv, TypeOK
  <1>3. x \in Request
    BY <1>2 DEF Request
  <1>4. req'[r] = x
    BY <1>1 DEF RequestInv, TypeOK
  <1>5. RequestHolds(r)'
    BY <1>1, <1>2, <1>4 DEF RequestHolds, FormHolds
  <1> HIDE DEF x
  <1>6. QED BY <1>1, <1>3, <1>5, OneRequestMoves

\* Validated again, a request goes on to the decision.
LEMMA RequestGoesOn ==
    ASSUME RequestInv, ParKept, UNCHANGED <<par, client>>, NEW r \in Requests, req[r] # Null,
           req[r].pc # "par.insert", Revalidated(r), GotoDecide(r)
    PROVE  /\ req' \in [Requests -> Request \cup {Null}]
           /\ \A q \in Requests : RequestHolds(q)'
  <1> DEFINE request == Normal(par[req[r].uri].params, client)
             x == [pc |-> "decide", uri |-> req[r].uri, form |-> req[r].form,
                   seen |-> req[r].seen, request |-> request]
  <1>1. req' = [req EXCEPT ![r] = x] /\ req'[r] = x
    BY DEF GotoDecide, RequestInv, TypeOK
  <1>2. /\ request \in Validated
        /\ Carries(request, par[req[r].uri].params)
        /\ request.redirectUri \in client.redirectUris
        /\ client \in req[r].seen
    BY DecideFacts
  <1> HIDE DEF request
  <1>3. x \in Request
    BY <1>2, RequestFields DEF Request, RequestInv
  <1>4. RequestHolds(r)
    BY DEF RequestInv
  <1>5. RequestHolds(r)'
    BY <1>1, <1>2, <1>4 DEF RequestHolds, FormHolds, Carries
  <1> HIDE DEF x
  <1>6. QED BY <1>1, <1>3, <1>5, OneRequestMoves

\* The requests in flight stay typed and hold, whatever the step.
LEMMA RequestsStep ==
    ASSUME RequestInv, ParKept, RequestNext \/ UNCHANGED requestVars
    PROVE  /\ client' \in Registrations
           /\ req' \in [Requests -> Request \cup {Null}]
           /\ \A q \in Requests : RequestHolds(q)'
  <1>a. /\ client \in Registrations
        /\ req \in [Requests -> Request \cup {Null}]
        /\ \A q \in Requests : RequestHolds(q)
        /\ TypeOK
    BY DEF RequestInv, TypeOK
  <1>1. ASSUME NEW reg \in Registrations, Reseed(reg)
        PROVE  /\ client' \in Registrations
               /\ req' \in [Requests -> Request \cup {Null}]
               /\ \A q \in Requests : RequestHolds(q)'
    <2>1. client' = reg /\ par' = par
      BY <1>1 DEF Reseed
    <2>2. ASSUME NEW q \in Requests
          PROVE  req'[q] \in Request \cup {Null} /\ RequestHolds(q)'
      <3>1. CASE req[q] # Null /\ req[q].pc # "par.insert"
        <4>1. req'[q] = [req[q] EXCEPT !.seen = @ \cup {reg}]
          BY <3>1, <1>1 DEF Reseed
        <4>2. req[q] \in Request /\ req[q].pc \in {"authorize", "interaction", "consent", "decide"}
              /\ req[q].seen \in SUBSET Registrations
          BY <3>1, <1>a, RequestFields DEF Request
        <4>3. req'[q] \in Request
          BY <3>1, <4>1, <4>2 DEF Request
        <4>4. /\ req'[q].pc = req[q].pc /\ req'[q].uri = req[q].uri
              /\ req'[q].form = req[q].form
              /\ req'[q].seen = req[q].seen \cup {reg}
              /\ req[q].pc = "decide" => req'[q].request = req[q].request
          BY <3>1, <4>1, <4>2 DEF Request
        <4>5. RequestHolds(q)
          BY <1>a
        <4>6. RequestHolds(q)'
          BY <2>1, <3>1, <4>4, <4>5 DEF RequestHolds, FormHolds
        <4>7. QED BY <4>3, <4>6
      <3>2. CASE ~(req[q] # Null /\ req[q].pc # "par.insert")
        <4>1. req'[q] = req[q]
          BY <3>2, <1>1 DEF Reseed
        <4>2. QED BY <4>1, <3>2, <1>a DEF RequestHolds
      <3>3. QED BY <3>1, <3>2
    <2>3. req' = [q \in Requests |-> req'[q]]
      BY <1>1 DEF Reseed
    <2>4. QED BY <2>1, <2>2, <2>3
  <1>2. ASSUME NEW r \in Requests, NEW body \in Bodies, ReceivePush(r, body)
        PROVE  /\ client' \in Registrations
               /\ req' \in [Requests -> Request \cup {Null}]
               /\ \A q \in Requests : RequestHolds(q)'
    <2> DEFINE x == [pc |-> "par.insert", body |-> body, client |-> client]
    <2>1. req' = [req EXCEPT ![r] = x] /\ req'[r] = x /\ client' = client
      BY <1>2, <1>a DEF ReceivePush
    <2>2. x \in Request
      BY <1>a, RequestConstantsOK DEF Request
    <2>3. RequestHolds(r)'
      BY <2>1 DEF RequestHolds
    <2> HIDE DEF x
    <2>4. QED BY <2>1, <2>2, <2>3, <1>a, OneRequestMoves
  <1>3. ASSUME NEW r \in Requests, Handle(r)
        PROVE  /\ client' \in Registrations
               /\ req' \in [Requests -> Request \cup {Null}]
               /\ \A q \in Requests : RequestHolds(q)'
    <2>1. client' = client
      BY <1>3 DEF Handle, RefusePush, AuthorizeChecked, LoginRequired, AuthorizeRefused, ShowConsent, CheckConsent,
         ContextGone, Decide, PushAuthorizationRequest, Authorize, GetInteraction, SubmitConsent, Begin
    <2>2. CASE Finish(r)
      BY <2>1, <2>2, <1>a, RequestFinishes
    <2>3. CASE (AuthorizeChecked(r) \/ CheckConsent(r)) /\ GotoDecide(r)
      <3>1. req[r] # Null /\ req[r].pc # "par.insert" /\ Revalidated(r) /\ UNCHANGED <<par, client>>
        BY <2>3 DEF AuthorizeChecked, CheckConsent, At
      <3>2. QED BY <2>1, <2>3, <3>1, <1>a, RequestGoesOn
    <2>4. ASSUME NEW u \in RequestUris, Authorize(r, u) \/ GetInteraction(r, u)
          PROVE  /\ client' \in Registrations
                 /\ req' \in [Requests -> Request \cup {Null}]
                 /\ \A q \in Requests : RequestHolds(q)'
      <3>1. FormHolds(Null, u, par[u].params)
        BY DEF FormHolds
      <3>2. QED BY <2>1, <2>4, <3>1, <1>a, RequestBegins DEF Authorize, GetInteraction
    <2>5. ASSUME NEW form \in forms, SubmitConsent(r, form)
          PROVE  /\ client' \in Registrations
                 /\ req' \in [Requests -> Request \cup {Null}]
                 /\ \A q \in Requests : RequestHolds(q)'
      <3>1. form \in Form /\ form.uri \in RequestUris /\ FormHolds(form, form.uri, par[form.uri].params)
        BY DEF RequestInv, TypeOK, Form, FormsHold
      <3>2. QED BY <2>1, <2>5, <3>1, <1>a, RequestBegins DEF SubmitConsent
    <2>6. \/ Finish(r)
          \/ (AuthorizeChecked(r) \/ CheckConsent(r)) /\ GotoDecide(r)
          \/ \E u \in RequestUris : Authorize(r, u) \/ GetInteraction(r, u)
          \/ \E form \in forms : SubmitConsent(r, form)
      BY <1>3 DEF Handle, RefusePush, AuthorizeChecked, LoginRequired, AuthorizeRefused, ShowConsent, CheckConsent,
         ContextGone, Decide, PushAuthorizationRequest
    <2>7. QED BY <2>2, <2>3, <2>4, <2>5, <2>6
  <1>4. CASE UNCHANGED requestVars
    BY <1>4, <1>a DEF requestVars, RequestHolds, FormHolds
  <1>5. QED BY <1>1, <1>2, <1>3, <1>4 DEF RequestNext, Push

\* The forms shown stay typed and right: a new one shows the scope that was
\* stored, or the default of the day for an empty one.
LEMMA FormsStep ==
    ASSUME RequestInv, ParKept, RequestNext \/ UNCHANGED requestVars
    PROVE  forms' \subseteq Form /\ FormsHold'
  <1>a. forms \subseteq Form /\ FormsHold
    BY DEF RequestInv, TypeOK
  <1>b. \A f \in Form : f.uri \in RequestUris
    BY DEF Form
  <1>1. \A f \in forms : par'[f.uri] \in ParRow /\ FormHolds(f, f.uri, par'[f.uri].params)
    BY <1>a, <1>b DEF FormsHold, ParKept, FormHolds
  <1>2. ASSUME NEW r \in Requests, ShowConsent(r)
        PROVE  forms' \subseteq Form /\ FormsHold'
    <2> DEFINE u == req[r].uri
               scope == Normal(par[u].params, client).scope
               f == [uri |-> u, scope |-> scope]
    <2>1. req[r] # Null /\ req[r].pc = "interaction" /\ Revalidated(r)
          /\ forms' = forms \cup {f} /\ par' = par
      BY <1>2 DEF ShowConsent, At
    <2>2. u \in RequestUris /\ par[u] \in ParRow
      BY <2>1, RequestFields DEF RequestInv, RequestHolds
    <2>3. scope \in SUBSET Scopes /\ (par[u].params.scope # {} => scope = par[u].params.scope)
      BY <2>1, DecideFacts DEF Validated, Carries
    <2> HIDE DEF scope, u
    <2>4. f \in Form /\ f.uri = u /\ f.scope = scope
      BY <2>2, <2>3 DEF Form
    <2>5. FormHolds(f, u, par'[u].params)
      BY <2>1, <2>3, <2>4 DEF FormHolds
    <2>6. QED BY <1>a, <1>1, <2>1, <2>2, <2>4, <2>5 DEF FormsHold, FormHolds
  <1>3. CASE forms' = forms
    BY <1>3, <1>a, <1>1 DEF FormsHold, FormHolds
  <1>4. forms' = forms \/ \E r \in Requests : ShowConsent(r)
    BY DEF RequestNext, Handle, Push, Reseed, ReceivePush, RefusePush, Authorize, GetInteraction,
       SubmitConsent, Begin, AuthorizeChecked, LoginRequired, AuthorizeRefused, CheckConsent, ContextGone, Decide,
       PushAuthorizationRequest, requestVars
  <1>5. QED BY <1>2, <1>3, <1>4

\* The codes stay typed and carry what was stored; a redirect goes to a uri
\* that is registered or was when this request was validated.
LEMMA CodesStep ==
    ASSUME RequestInv, ParKept, RequestNext \/ UNCHANGED requestVars
    PROVE  /\ codes' \in [RequestUris -> Code \cup {Null}] /\ CodesHold'
           /\ answer' \in Answer \cup {Null} /\ RedirectsRegistered'
  <1>a. /\ codes \in [RequestUris -> Code \cup {Null}] /\ CodesHold
        /\ answer \in Answer \cup {Null} /\ RedirectsRegistered
        /\ client \in Registrations
    BY DEF RequestInv, TypeOK
  <1>1. \A u \in RequestUris : codes[u] # Null =>
            /\ par'[u] \in ParRow
            /\ Carries(codes[u].request, par'[u].params)
            /\ FormHolds(codes[u].form, u, par[u].params)
            /\ par'[u].params = par[u].params
    BY <1>a DEF CodesHold, ParKept
  <1>2. ASSUME codes' = codes
        PROVE  codes' \in [RequestUris -> Code \cup {Null}] /\ CodesHold'
    BY <1>2, <1>a, <1>1 DEF CodesHold, FormHolds
  <1>3. ASSUME answer' = answer
        PROVE  answer' \in Answer \cup {Null} /\ RedirectsRegistered'
    BY <1>3, <1>a DEF RedirectsRegistered
  <1>4. ASSUME NEW r \in Requests, NEW allowed \in BOOLEAN, Decide(r, allowed)
        PROVE  /\ codes' \in [RequestUris -> Code \cup {Null}] /\ CodesHold'
               /\ answer' \in Answer \cup {Null} /\ RedirectsRegistered'
    <2> DEFINE u == req[r].uri
               x == [request |-> req[r].request, form |-> req[r].form]
    <2>1. req[r] # Null /\ req[r].pc = "decide"
      BY <1>4 DEF Decide, At
    <2>2. /\ u \in RequestUris /\ req[r].request \in Validated
          /\ req[r].form \in Form \cup {Null} /\ req[r].seen \in SUBSET Registrations
      BY <2>1, RequestFields DEF RequestInv
    <2>3. /\ par[u] \in ParRow
          /\ FormHolds(req[r].form, u, par[u].params)
          /\ Carries(req[r].request, par[u].params)
          /\ \E reg \in req[r].seen : req[r].request.redirectUri \in reg.redirectUris
      BY <2>1 DEF RequestInv, RequestHolds
    <2>4. answer' = [to |-> req[r].request.redirectUri, seen |-> req[r].seen]
      BY <1>4 DEF Decide, Redirect
    <2>5. answer' \in Answer /\ RedirectsRegistered'
      BY <2>2, <2>3, <2>4 DEF Answer, Validated, RedirectsRegistered
    <2>6. CASE codes' = codes
      BY <2>5, <2>6, <1>2
    <2>7. CASE codes' = [codes EXCEPT ![u] = x]
      <3>1. x \in Code
        BY <2>2 DEF Code
      <3>2. par'[u] \in ParRow /\ par'[u].params = par[u].params
        BY <2>2, <2>3 DEF ParKept
      <3>3. x.request = req[r].request /\ x.form = req[r].form
        OBVIOUS
      <3> HIDE DEF x, u
      <3>4. codes' \in [RequestUris -> Code \cup {Null}]
            /\ codes'[u] = x /\ \A v \in RequestUris \ {u} : codes'[v] = codes[v]
        BY <2>2, <2>7, <3>1, <1>a
      <3>5. /\ Carries(codes'[u].request, par'[u].params)
            /\ FormHolds(codes'[u].form, u, par'[u].params)
        BY <2>3, <3>2, <3>3, <3>4 DEF FormHolds, u
      <3>6. \A v \in RequestUris \ {u} : codes'[v] # Null =>
                /\ par'[v] \in ParRow
                /\ Carries(codes'[v].request, par'[v].params)
                /\ FormHolds(codes'[v].form, v, par'[v].params)
        BY <1>1, <3>4 DEF FormHolds
      <3>7. CodesHold'
        BY <3>2, <3>5, <3>6 DEF CodesHold, Carries
      <3>8. QED BY <2>5, <3>4, <3>7
    <2>8. QED BY <1>4, <2>6, <2>7 DEF Decide
  <1>5. ASSUME NEW r \in Requests, AuthorizeRefused(r)
        PROVE  answer' \in Answer \cup {Null} /\ RedirectsRegistered'
    <2> DEFINE to == par[req[r].uri].params.redirectUri
    <2>1. req[r] # Null /\ req[r].pc = "authorize"
      BY <1>5 DEF AuthorizeRefused, At
    <2>2. client \in req[r].seen /\ par[req[r].uri] \in ParRow
          /\ req[r].seen \in SUBSET Registrations
      BY <2>1, RequestFields DEF RequestInv, RequestHolds
    <2>3. to \in RedirectUris
      BY <2>2 DEF ParRow, Validated
    <2>4. CASE Trusted(r)
      <3>1. answer' = [to |-> to, seen |-> req[r].seen] /\ to \in client.redirectUris
        BY <1>5, <2>4 DEF AuthorizeRefused, Redirect, Trusted
      <3>2. QED BY <2>2, <2>3, <3>1 DEF Answer, RedirectsRegistered
    <2>5. CASE ~Trusted(r)
      BY <1>5, <2>5, <1>3 DEF AuthorizeRefused
    <2>6. QED BY <2>4, <2>5
  <1>8. ASSUME NEW r \in Requests, LoginRequired(r)
        PROVE  answer' \in Answer \cup {Null} /\ RedirectsRegistered'
    <2> DEFINE to == par[req[r].uri].params.redirectUri
    <2>1. req[r] # Null /\ req[r].pc = "authorize"
      BY <1>8 DEF LoginRequired, At
    <2>2. client \in req[r].seen /\ par[req[r].uri] \in ParRow
          /\ req[r].seen \in SUBSET Registrations
      BY <2>1, RequestFields DEF RequestInv, RequestHolds
    <2>3. to \in RedirectUris
      BY <2>2 DEF ParRow, Validated
    <2>4. answer' = [to |-> to, seen |-> req[r].seen] /\ to \in client.redirectUris
      BY <1>8 DEF LoginRequired, Redirect, Revalidated, Valid
    <2>5. QED BY <2>2, <2>3, <2>4 DEF Answer, RedirectsRegistered
  <1>6. \/ UNCHANGED <<codes, answer>>
        \/ \E r \in Requests : codes' = codes /\ AuthorizeRefused(r)
        \/ \E r \in Requests : codes' = codes /\ LoginRequired(r)
        \/ \E r \in Requests, allowed \in BOOLEAN : Decide(r, allowed)
    BY DEF RequestNext, Handle, Push, Reseed, ReceivePush, RefusePush, Authorize, GetInteraction,
       SubmitConsent, Begin, AuthorizeChecked, LoginRequired, AuthorizeRefused, ShowConsent, CheckConsent,
       ContextGone, PushAuthorizationRequest, requestVars
  <1>7. QED BY <1>2, <1>3, <1>4, <1>5, <1>6, <1>8

\* The invariant holds to begin with and is kept by every step.
LEMMA RequestStart == RequestInit => RequestInv
  <1>. SUFFICES ASSUME RequestInit PROVE RequestInv
    OBVIOUS
  <1>1. TypeOK
    BY DEF RequestInit, TypeOK
  <1>2. PushedRight
    BY NullIsNoRecord DEF RequestInit, PushedRight
  <1>3. \A r \in Requests : RequestHolds(r)
    BY DEF RequestInit, RequestHolds
  <1>4. FormsHold /\ CodesHold /\ RedirectsRegistered
    BY DEF RequestInit, FormsHold, CodesHold, RedirectsRegistered
  <1>5. QED BY <1>1, <1>2, <1>3, <1>4 DEF RequestInv

\* Every step of the request keeps the invariant.
LEMMA RequestStep ==
    ASSUME RequestInv, [RequestNext]_requestVars
    PROVE  RequestInv'
  <1>1. ParKept /\ PushedRight' /\ par' \in [RequestUris -> ParRow \cup {Null}]
    BY ParStep
  <1>2. /\ client' \in Registrations
        /\ req' \in [Requests -> Request \cup {Null}]
        /\ \A q \in Requests : RequestHolds(q)'
    BY <1>1, RequestsStep
  <1>3. forms' \subseteq Form /\ FormsHold'
    BY <1>1, FormsStep
  <1>4. /\ codes' \in [RequestUris -> Code \cup {Null}] /\ CodesHold'
        /\ answer' \in Answer \cup {Null} /\ RedirectsRegistered'
    BY <1>1, CodesStep
  <1>5. TypeOK'
    BY <1>1, <1>2, <1>3, <1>4 DEF TypeOK
  <1>6. QED BY <1>1, <1>2, <1>3, <1>4, <1>5 DEF RequestInv

-----------------------------------------------------------------------------
(* The endpoint: every step is a step of the limiter or a stutter of it,   *)
(* and a step of the request or a stutter of it.                           *)

\* One step of the endpoint, seen by each of its parts.
LEMMA FrontParts ==
    ASSUME [FrontNext]_frontVars
    PROVE  [LimiterNext]_limiterVars /\ [RequestNext]_requestVars
  <1>1. ASSUME NEW r \in Requests, NEW s \in Sources, NEW body \in Bodies, PostPar(r, s, body)
        PROVE  LimiterNext /\ [RequestNext]_requestVars
    BY <1>1 DEF PostPar, LimiterNext, RequestNext, Push
  <1>2. ASSUME NEW s \in Sources, PostElsewhere(s)
        PROVE  LimiterNext /\ UNCHANGED requestVars
    BY <1>2 DEF PostElsewhere, LimiterNext
  <1>3. CASE LimiterTick /\ UNCHANGED requestVars
    BY <1>3 DEF LimiterNext
  <1>4. ASSUME (\E reg \in Registrations : Reseed(reg)) \/ (\E r \in Requests : Handle(r)),
               UNCHANGED limiterVars
        PROVE  RequestNext
    BY <1>4 DEF RequestNext
  <1>5. CASE UNCHANGED frontVars
    BY <1>5 DEF frontVars
  <1>6. QED BY <1>1, <1>2, <1>3, <1>4, <1>5 DEF FrontNext

\* The invariant of the endpoint, for any number of addresses, requests, limits
\* and registrations.
THEOREM FrontInvariant == FrontSpec => [](LimiterInv /\ RequestInv)
  <1>1. FrontInit => LimiterInv /\ RequestInv
    BY LimiterStart, RequestStart DEF FrontInit
  <1>2. LimiterInv /\ RequestInv /\ [FrontNext]_frontVars => (LimiterInv /\ RequestInv)'
    BY FrontParts, LimiterStep, RequestStep
  <1>3. QED BY <1>1, <1>2, PTL DEF FrontSpec

\* maxKeys in rate-limit.ts: the map never grows past its cap.
THEOREM MapBounded == FrontSpec => []KeysBounded
  <1>1. LimiterInv => KeysBounded
    BY DEF LimiterInv
  <1>2. QED BY <1>1, FrontInvariant, PTL

\* The sweep in allow(): an address without an entry is never turned away for
\* an entry that started two windows ago.
THEOREM NobodyLockedOut == FrontSpec => []NewcomersWaitTwoWindows
  <1>1. QED BY WaitBounded, FrontInvariant, PTL

\* allow(): no call and no sweep ends, restarts or discounts a running window.
THEOREM WindowsKept == FrontSpec => LiveWindowsKept
  <1> DEFINE Kept1 == \A s \in Tracked : clock' - windows[s].start < Window =>
                          /\ s \in Tracked'
                          /\ windows'[s].start = windows[s].start
                          /\ windows'[s].count >= windows[s].count
  <1>1. ASSUME LimiterInv, [LimiterNext]_limiterVars
        PROVE  Kept1
    <2>a. /\ Limit \in Nat
          /\ \A s \in Tracked : windows[s].count \in Nat /\ windows[s].start \in Nat
      BY <1>1, LimiterConstantsOK DEF LimiterInv, LimiterTypeOK, Tracked, OneWindow
    <2>1. CASE windows' = windows
      BY <2>1, <2>a DEF Tracked
    <2>2. ASSUME NEW s \in Sources, CountCall(s)
          PROVE  Kept1
      <3>1. Tracked' = Tracked /\ \A k \in Tracked : windows'[k].start = windows[k].start
        BY <1>1, <2>2 DEF CountCall, Tracked, LimiterInv, LimiterTypeOK, OneWindow
      <3>2. \A k \in Tracked : windows'[k].count >= windows[k].count
        BY <1>1, <2>2, <2>a DEF CountCall, Tracked, LimiterInv, LimiterTypeOK, OneWindow
      <3>3. QED BY <3>1, <3>2
    <2>3. ASSUME NEW s \in Sources, OpenWindow(s), clock' = clock
          PROVE  Kept1
      <3>1. ASSUME NEW k \in Tracked, clock' - windows[k].start < Window
            PROVE  k \in Tracked' /\ windows'[k] = windows[k]
        <4>1. k \in Kept
          BY <2>3, <3>1 DEF Kept, Running
        <4>2. k # s
          BY <2>3, <3>1 DEF OpenWindow, Live, Running
        <4>3. QED BY <1>1, <2>3, <4>1, <4>2, OpenWindowDomain
      <3>2. QED BY <3>1, <2>a
    <2>4. \/ windows' = windows
          \/ \E s \in Sources : CountCall(s)
          \/ \E s \in Sources : OpenWindow(s) /\ clock' = clock
      BY <1>1 DEF LimiterNext, Allow, LimiterTick, limiterVars
    <2>5. QED BY <2>1, <2>2, <2>3, <2>4
  <1>2. LimiterInv /\ [FrontNext]_frontVars => [Kept1]_limiterVars
    BY <1>1, FrontParts
  <1>3. FrontSpec => [][Kept1]_limiterVars
    BY <1>2, FrontInvariant, PTL DEF FrontSpec
  <1>4. QED BY <1>3 DEF LiveWindowsKept

\* validateAuthorizationRequest and toStoredParams: the code carries the
\* redirect_uri, the scope and the key that were pushed.
THEOREM CodeCarriesPush == FrontSpec => []CodeAsPushed
  <1>1. ASSUME RequestInv
        PROVE  CodeAsPushed
    <2>1. ASSUME NEW u \in RequestUris, codes[u] # Null
          PROVE  LET body == par[u].body
                     asked == IF body.scope = {} THEN par[u].by.scope ELSE body.scope
                     issued == codes[u].request IN
                 /\ issued.redirectUri = body.redirectUri
                 /\ asked # {} => issued.scope = asked
                 /\ \A key \in {body.dpopJkt, body.proofJkt} \ {Null} : issued.dpopJkt = key
                 /\ issued.dpopJkt \in {body.dpopJkt, body.proofJkt}
      <3>1. /\ par[u] \in ParRow
            /\ Carries(codes[u].request, par[u].params)
        BY <1>1, <2>1 DEF RequestInv, CodesHold
      <3>2. SameKey(par[u].body) /\ par[u].params = Stored(par[u].body, par[u].by)
        BY <1>1, <3>1 DEF RequestInv, PushedRight
      <3>3. /\ par[u].params.redirectUri = par[u].body.redirectUri
            /\ par[u].params.scope = EffectiveScope(par[u].body.scope, par[u].by)
            /\ par[u].params.dpopJkt = IF par[u].body.proofJkt # Null THEN par[u].body.proofJkt
                                       ELSE par[u].body.dpopJkt
        BY <3>2 DEF Stored, Normal
      <3>4. QED BY <3>1, <3>2, <3>3 DEF Carries, SameKey, EffectiveScope
    <2>2. QED BY <2>1 DEF CodeAsPushed
  <1>2. QED BY <1>1, FrontInvariant, PTL

\* renderConsent and issueAuthorizationCode: the scope that was shown is the
\* scope that is granted.
THEOREM ShownScopeGranted == FrontSpec => []ScopeAsShown
  <1>1. ASSUME RequestInv
        PROVE  ScopeAsShown
    BY <1>1 DEF RequestInv, CodesHold, ScopeAsShown, FormHolds, Carries
  <1>2. QED BY <1>1, FrontInvariant, PTL

\* The error handling of handleAuthorize: a redirect goes to a redirect_uri that
\* is registered when the request is validated again.
THEOREM RedirectsTrusted == FrontSpec => []RedirectsRegistered
  <1>1. RequestInv => RedirectsRegistered
    BY DEF RequestInv
  <1>2. QED BY <1>1, FrontInvariant, PTL

=============================================================================
