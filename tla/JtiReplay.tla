----------------------------- MODULE JtiReplay -----------------------------
(***************************************************************************)
(* The replay guard: DPoP proofs (verifyDpopProof) and client assertions   *)
(* (authenticateClient) are checked against a `now` that is captured when  *)
(* the handler starts, and their jti is registered after several awaits    *)
(* with that same `now`.  An entry of the guard expires, and expired       *)
(* entries are claimed by a later use or reaped, in Postgres by a separate *)
(* statement of any replica, in the memory adapter by a sweep.             *)
(*                                                                         *)
(* Checks compare whole seconds, rows carry milliseconds: a point in time  *)
(* is a second and a fraction of it.  The wall clocks of the replicas      *)
(* agree.  Signature, audience and the optional iat and nbf checks refuse  *)
(* a proof for good and are left out, so every proof here passes them.     *)
(***************************************************************************)
EXTENDS Naturals, FiniteSets

CONSTANTS
    DpopProofs,        \* (jkt, jti) pairs of DPoP proofs for one endpoint
    Assertions,        \* (client, jti) pairs of client assertions
    Requests,          \* requests in flight at the same time
    Stamps,            \* seconds that iat and exp claims are taken from
    Fractions,         \* fractions of a second that those claims have
    SubSec,            \* fractions in a second (1000 in the code)
    Skew,              \* CLOCK_SKEW_FUTURE_ACCEPT_SEC
    MaxAge,            \* DPOP_PROOF_MAX_AGE_SEC
    MaxLifetime,       \* CLIENT_ASSERTION_MAX_LIFETIME_SEC
    Stores,            \* the adapters: "pg", "memory"
    SweepAt, HardCap,  \* 4096 and 8192 in the memory adapter
    Lag,               \* bound: seconds a request stays in flight
    MaxSec,            \* bound on the clock
    MaxUses,           \* bound: a proof accepted this often is not sent again
    Null

Proofs == DpopProofs \cup Assertions

ASSUME ReplayConstantsOK ==
    /\ DpopProofs \cap Assertions = {}
    /\ Stamps \subseteq Nat
    /\ SubSec \in Nat \ {0}
    /\ Fractions \subseteq 0..(SubSec - 1)
    /\ Skew \in Nat /\ MaxAge \in Nat /\ MaxLifetime \in Nat
    /\ Stores \subseteq {"pg", "memory"}
    /\ SweepAt \in Nat /\ HardCap \in Nat
    /\ Lag \in Nat /\ MaxSec \in Nat /\ MaxUses \in Nat

VARIABLES
    clock,             \* the wall clock
    store,             \* the adapter this deployment runs on
    stamp,             \* iat of a DPoP proof, exp of an assertion
    rows,              \* jti_replay: expires_at of a registered jti
    lastSweep,         \* of the memory adapter
    req,               \* the requests in flight
    uses               \* how often a proof was accepted

vars == <<clock, store, stamp, rows, lastSweep, req, uses>>

Time == [sec : Nat, frac : 0..(SubSec - 1)]
ASSUME NullIsNoTime == Null \notin Time

Request == [pc : {"register", "insert"}, proof : Proofs, now : Time]

\* The guard's entries, the claims and the captured times have their types.
TypeOK ==
    /\ clock \in Time
    /\ store \in Stores
    /\ stamp \in [Proofs -> [sec : Stamps, frac : Fractions]]
    /\ rows \in [Proofs -> Time \cup {Null}]
    /\ lastSweep \in Time \cup {Null}
    /\ req \in [Requests -> Request \cup {Null}]
    /\ uses \in [Proofs -> Nat]

Init ==
    /\ clock = [sec |-> 0, frac |-> 0]
    /\ store \in Stores
    /\ stamp \in [Proofs -> [sec : Stamps, frac : Fractions]]
    /\ rows = [p \in Proofs |-> Null]
    /\ lastSweep = Null
    /\ req = [r \in Requests |-> Null]
    /\ uses = [p \in Proofs |-> 0]

-----------------------------------------------------------------------------
(* Conditions of the code, by name.                                        *)

Before(s, t) == s.sec < t.sec \/ (s.sec = t.sec /\ s.frac < t.frac)

\* expires_at <= now
Expired(t, now) == ~Before(now, t)

\* iat is at most Skew ahead of the whole second of now and at most MaxAge
\* behind it.
DpopFresh(iat, now) ==
    /\ iat.sec < now.sec + Skew \/ (iat.sec = now.sec + Skew /\ iat.frac = 0)
    /\ now.sec <= iat.sec + MaxAge

\* exp is after the whole second of now and at most MaxLifetime ahead of it.
AssertionFresh(exp, now) ==
    /\ now.sec < exp.sec \/ (now.sec = exp.sec /\ exp.frac > 0)
    /\ \/ exp.sec < now.sec + MaxLifetime
       \/ exp.sec = now.sec + MaxLifetime /\ exp.frac = 0

Fresh(p, now) == IF p \in DpopProofs THEN DpopFresh(stamp[p], now)
                                     ELSE AssertionFresh(stamp[p], now)

\* Mutant: the guard forgets a proof when it is MaxAge old.
ExpiresAtNoSkew(p) == IF p \in DpopProofs
                      THEN [stamp[p] EXCEPT !.sec = @ + MaxAge]
                      ELSE stamp[p]

\* Mutant: seconds are added to a number of milliseconds.
ExpiresAtWrongUnit(p) == IF p \in DpopProofs
                         THEN [stamp[p] EXCEPT !.frac = @ + MaxAge + Skew]
                         ELSE stamp[p]

\* Until when the guard remembers a use.
ExpiresAt(p) == IF p \in DpopProofs
                THEN [stamp[p] EXCEPT !.sec = @ + MaxAge + Skew]
                ELSE stamp[p]

Stale(now) == {p \in Proofs : rows[p] # Null /\ Expired(rows[p], now)}
Without(gone) == [p \in Proofs |-> IF p \in gone THEN Null ELSE rows[p]]
Size(table) == Cardinality({p \in Proofs : table[p] # Null})

\* Mutant: one entry too many.
OverFull(table) == Size(table) > HardCap

\* The memory adapter takes no new entry.
Full(table) == Size(table) >= HardCap

\* What both adapters do with the slot: refuse if a live entry holds it.
Claim(r, table) ==
    LET p == req[r].proof IN
    IF table[p] # Null /\ ~Expired(table[p], req[r].now)
    THEN /\ rows' = table
         /\ UNCHANGED uses
    ELSE /\ rows' = [table EXCEPT ![p] = ExpiresAt(p)]
         /\ uses' = [uses EXCEPT ![p] = @ + 1]

-----------------------------------------------------------------------------
\* The handler captures now and its checks pass; the proof's signature and the
\* client's row are awaited before the registration.
Receive(r, p) ==
    /\ req[r] = Null
    /\ uses[p] < MaxUses
    /\ Fresh(p, clock)
    /\ req' = [req EXCEPT ![r] = [pc |-> "register", proof |-> p, now |-> clock]]
    /\ UNCHANGED <<clock, store, stamp, rows, lastSweep, uses>>

\* One call in a hundred first deletes expired entries, at most 1000 of them.
Reap(r, gone) ==
    /\ store = "pg"
    /\ req[r] # Null /\ req[r].pc = "register"
    /\ gone \subseteq Stale(req[r].now)
    /\ rows' = Without(gone)
    /\ req' = [req EXCEPT ![r].pc = "insert"]
    /\ UNCHANGED <<clock, store, stamp, lastSweep, uses>>

\* insert ... on conflict do update ... where expires_at <= now
RegisterPg(r) ==
    /\ store = "pg"
    /\ req[r] # Null
    /\ Claim(r, rows)
    /\ req' = [req EXCEPT ![r] = Null]
    /\ UNCHANGED <<clock, store, stamp, lastSweep>>

SweepDue(now) ==
    /\ Size(rows) >= SweepAt
    /\ lastSweep = Null \/ ~Before(now, [lastSweep EXCEPT !.sec = @ + 1])

\* The sweep, the cap that fails closed, then the slot, with no await.
RegisterMemory(r) ==
    LET now == req[r].now
        table == IF SweepDue(now) THEN Without(Stale(now)) ELSE rows IN
    /\ store = "memory"
    /\ req[r] # Null
    /\ lastSweep' = IF SweepDue(now) THEN now ELSE lastSweep
    /\ IF Full(table)
       THEN rows' = table /\ UNCHANGED uses
       ELSE Claim(r, table)
    /\ req' = [req EXCEPT ![r] = Null]
    /\ UNCHANGED <<clock, store, stamp>>

Abort(r) ==
    /\ req[r] # Null
    /\ req' = [req EXCEPT ![r] = Null]
    /\ UNCHANGED <<clock, store, stamp, rows, lastSweep, uses>>

\* Time passes while requests wait, but none waits for more than Lag seconds.
Tick ==
    /\ clock.sec < MaxSec
    /\ clock' = IF clock.frac + 1 < SubSec
                THEN [clock EXCEPT !.frac = @ + 1]
                ELSE [sec |-> clock.sec + 1, frac |-> 0]
    /\ \A r \in Requests : req[r] # Null => clock'.sec <= req[r].now.sec + Lag
    /\ UNCHANGED <<store, stamp, rows, lastSweep, req, uses>>

Handle(r) ==
    \/ \E p \in Proofs : Receive(r, p)
    \/ \E gone \in SUBSET Proofs : Reap(r, gone)
    \/ RegisterPg(r)
    \/ RegisterMemory(r)
    \/ Abort(r)

Next == Tick \/ \E r \in Requests : Handle(r)

Spec == Init /\ [][Next]_vars

-----------------------------------------------------------------------------
(* Properties.                                                             *)

\* Replay protection as the comments above both calls of jti.register have it:
\* however many requests present a proof, on however many replicas, one of them
\* is accepted.
SingleUse == \A p \in Proofs : uses[p] <= 1

\* The request in flight registers early enough: the seconds of the clock have
\* not moved on by Skew since it captured `now`, or the assertion's exp is
\* still to come.
Timely(r) ==
    LET p == req[r].proof IN
    IF p \in DpopProofs THEN clock.sec < req[r].now.sec + Skew
                        ELSE Before(clock, stamp[p])

\* What the guard does promise, for every configuration: a timely request is
\* accepted only if nobody was accepted with its proof before, whatever other
\* requests are in flight, however old their `now` is and whatever they reap
\* or sweep with it.  A request that is not timely may find the entry of an
\* earlier use expired, or reaped by another replica, and be accepted: an
\* assertion whose exp passes during the awaits, and with skew 0 any DPoP proof
\* at the end of its age.
AcceptedOnceInTime ==
    [][\A r \in Requests :
        req[r] # Null /\ Timely(r) /\ req'[r] = Null /\ uses' # uses
            => uses[req[r].proof] = 0]_vars

\* The memory adapter stays within its hard cap without evicting a live entry.
StoreBounded ==
    store = "memory" =>
        /\ Size(rows) <= HardCap
        /\ \A p \in Proofs : uses[p] > 0 /\ rows[p] = Null => Expired(ExpiresAt(p), clock)

\* A use is remembered until the guard's expiry.
UseRemembered ==
    \A p \in Proofs :
        /\ rows[p] # Null => rows[p] = ExpiresAt(p) /\ uses[p] > 0
        /\ rows[p] = Null => uses[p] = 0 \/ Expired(ExpiresAt(p), clock)

RequestsCurrent ==
    \A r \in Requests : req[r] # Null =>
        /\ Fresh(req[r].proof, req[r].now)
        /\ ~Before(clock, req[r].now)

ReplayInv == TypeOK /\ UseRemembered /\ RequestsCurrent

=============================================================================
