------------------------------ MODULE ParFront ------------------------------
(***************************************************************************)
(* The PAR endpoint behind its rate limiter: the limiter is asked before   *)
(* anything else, and the token, revocation and introspection endpoints    *)
(* ask the same one.                                                       *)
(***************************************************************************)
EXTENDS AuthzRequest, RateLimiter

frontVars == <<requestVars, limiterVars>>

\* 429 leaves the tables alone.
PostPar(r, s, body) ==
    /\ req[r] = Null
    /\ Allow(s)
    /\ IF Allowed(s) THEN ReceivePush(r, body) ELSE UNCHANGED requestVars

\* POST to /token, /revoke or /introspect, as far as the limiter goes.
PostElsewhere(s) == Allow(s) /\ UNCHANGED requestVars

FrontInit == RequestInit /\ LimiterInit

FrontNext ==
    \/ \E r \in Requests, s \in Sources, body \in Bodies : PostPar(r, s, body)
    \/ \E s \in Sources : PostElsewhere(s)
    \/ LimiterTick /\ UNCHANGED requestVars
    \/ /\ \/ \E reg \in Registrations : Reseed(reg)
          \/ \E r \in Requests : Handle(r)
       /\ UNCHANGED limiterVars

FrontSpec == FrontInit /\ [][FrontNext]_frontVars

=============================================================================
