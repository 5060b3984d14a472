-------------------------- MODULE JtiReplayProofs --------------------------
(***************************************************************************)
(* What the replay guard promises for every configuration and any number   *)
(* of proofs, requests and replicas: a use is remembered until the expiry  *)
(* of its entry (UseRemembered), which a timely request cannot have passed *)
(* (TimelyMeansLive), so it is refused after any earlier use.              *)
(***************************************************************************)
EXTENDS JtiReplay, FiniteSetTheorems, TLAPS

\* Expiry is monotone: what was expired at a captured now is expired later.
LEMMA ExpiredLater ==
    ASSUME NEW s \in Time, NEW t \in Time, NEW e \in Time, ~Before(t, s), Expired(e, s)
    PROVE  Expired(e, t)
  BY DEF Time, Before, Expired

\* The expiry that the guard stores is a point in time.
LEMMA ExpiresAtTime ==
    ASSUME TypeOK, NEW p \in Proofs
    PROVE  ExpiresAt(p) \in Time /\ stamp[p] \in Time
  <1>1. stamp[p] \in [sec : Stamps, frac : Fractions]
    BY DEF TypeOK
  <1>2. stamp[p].sec \in Nat /\ stamp[p].frac \in 0..(SubSec - 1)
    BY <1>1, ReplayConstantsOK
  <1>3. stamp[p] \in Time
    BY <1>1, <1>2 DEF Time
  <1>4. [stamp[p] EXCEPT !.sec = @ + MaxAge + Skew] \in Time
    BY <1>3, ReplayConstantsOK DEF Time
  <1>5. QED BY <1>3, <1>4 DEF ExpiresAt

\* A timely request registers before the entry of an earlier use expires.
LEMMA TimelyMeansLive ==
    ASSUME ReplayInv, NEW r \in Requests, req[r] # Null, Timely(r)
    PROVE  ~Expired(ExpiresAt(req[r].proof), clock)
  <1> DEFINE p == req[r].proof
             now == req[r].now
  <1>1. p \in Proofs /\ now \in Time /\ clock \in Time /\ Fresh(p, now)
    BY DEF ReplayInv, TypeOK, Request, RequestsCurrent
  <1>2. stamp[p] \in Time /\ ExpiresAt(p) \in Time
    BY <1>1, ExpiresAtTime DEF ReplayInv
  <1>3. CASE p \in DpopProofs
    <2>1. ExpiresAt(p).sec = stamp[p].sec + MaxAge + Skew
      BY <1>2, <1>3 DEF ExpiresAt, Time
    <2>2. now.sec <= stamp[p].sec + MaxAge /\ clock.sec < now.sec + Skew
      BY <1>1, <1>3 DEF Fresh, DpopFresh, Timely
    <2>3. clock.sec < ExpiresAt(p).sec
      BY <1>1, <1>2, <2>1, <2>2, ReplayConstantsOK DEF Time
    <2>4. QED BY <2>3 DEF Expired, Before
  <1>4. CASE p \notin DpopProofs
    BY <1>4 DEF Timely, ExpiresAt, Expired
  <1>5. QED BY <1>3, <1>4

\* The table that a registration decides on: rows, or what is left of it once
\* entries that had expired at the request's now are gone.
Reduced(table, r) ==
    /\ table \in [Proofs -> Time \cup {Null}]
    /\ \A p \in Proofs : \/ table[p] = rows[p]
                         \/ table[p] = Null /\ rows[p] # Null /\ Expired(rows[p], req[r].now)

\* A reduced table still remembers each use until its expiry.
LEMMA ReducedRemembers ==
    ASSUME ReplayInv, NEW r \in Requests, req[r] # Null, NEW table, Reduced(table, r), NEW p \in Proofs
    PROVE  /\ table[p] # Null => table[p] = ExpiresAt(p) /\ uses[p] > 0
           /\ table[p] = Null => uses[p] = 0 \/ Expired(ExpiresAt(p), clock)
  <1>1. /\ TypeOK /\ UseRemembered /\ clock \in Time
        /\ req[r].now \in Time /\ ~Before(clock, req[r].now)
    BY DEF ReplayInv, TypeOK, Request, RequestsCurrent
  <1>2. CASE table[p] = rows[p]
    BY <1>1, <1>2 DEF UseRemembered
  <1>3. CASE table[p] = Null /\ rows[p] # Null /\ Expired(rows[p], req[r].now)
    <2>1. rows[p] = ExpiresAt(p) /\ ExpiresAt(p) \in Time
      BY <1>1, <1>3, ExpiresAtTime DEF UseRemembered
    <2>2. Expired(ExpiresAt(p), clock)
      BY <1>1, <1>3, <2>1, ExpiredLater
    <2>3. QED BY <1>3, <2>2
  <1>4. QED BY <1>2, <1>3 DEF Reduced

\* So nothing is forgotten when the table is replaced by a reduced one.
LEMMA ReducedKept ==
    ASSUME ReplayInv, NEW r \in Requests, req[r] # Null, NEW table, Reduced(table, r),
           rows' = table, clock' = clock, stamp' = stamp, uses' = uses
    PROVE  UseRemembered'
  <1>1. \A p \in Proofs : ExpiresAt(p)' = ExpiresAt(p)
    BY DEF ExpiresAt
  <1>2. \A p \in Proofs : /\ table[p] # Null => table[p] = ExpiresAt(p) /\ uses[p] > 0
                          /\ table[p] = Null => uses[p] = 0 \/ Expired(ExpiresAt(p), clock)
    BY ReducedRemembers
  <1>3. QED BY <1>1, <1>2 DEF UseRemembered

\* Deciding on such a table keeps every use remembered, and a timely request
\* is not accepted after an earlier use.
LEMMA ClaimStep ==
    ASSUME ReplayInv, NEW r \in Requests, req[r] # Null, NEW table, Reduced(table, r),
           Claim(r, table), clock' = clock, stamp' = stamp
    PROVE  /\ rows' \in [Proofs -> Time \cup {Null}]
           /\ uses' \in [Proofs -> Nat]
           /\ UseRemembered'
           /\ Timely(r) /\ uses' # uses => uses[req[r].proof] = 0
  <1> DEFINE p == req[r].proof
             now == req[r].now
  <1>1. /\ TypeOK /\ p \in Proofs /\ now \in Time /\ clock \in Time /\ ~Before(clock, now)
        /\ ExpiresAt(p) \in Time /\ uses \in [Proofs -> Nat]
        /\ table \in [Proofs -> Time \cup {Null}]
    BY ExpiresAtTime DEF ReplayInv, TypeOK, Request, RequestsCurrent, Reduced
  <1>2. \A q \in Proofs : ExpiresAt(q)' = ExpiresAt(q)
    BY DEF ExpiresAt
  <1>3. \A q \in Proofs : /\ table[q] # Null => table[q] = ExpiresAt(q) /\ uses[q] > 0
                          /\ table[q] = Null => uses[q] = 0 \/ Expired(ExpiresAt(q), clock)
    BY ReducedRemembers
  <1>4. CASE table[p] # Null /\ ~Expired(table[p], now)
    <2>1. rows' = table /\ uses' = uses
      BY <1>4 DEF Claim
    <2>2. UseRemembered'
      BY <1>2, <1>3, <2>1 DEF UseRemembered
    <2>3. QED BY <1>1, <2>1, <2>2
  <1>5. CASE ~(table[p] # Null /\ ~Expired(table[p], now))
    <2>1. /\ rows' = [table EXCEPT ![p] = ExpiresAt(p)]
          /\ uses' = [uses EXCEPT ![p] = @ + 1]
      BY <1>5 DEF Claim
    <2>2. rows' \in [Proofs -> Time \cup {Null}] /\ uses' \in [Proofs -> Nat]
      BY <1>1, <2>1
    <2>3. ASSUME NEW q \in Proofs
          PROVE  /\ rows'[q] # Null => rows'[q] = ExpiresAt(q) /\ uses'[q] > 0
                 /\ rows'[q] = Null => uses'[q] = 0 \/ Expired(ExpiresAt(q), clock)
      <3>1. CASE q = p
        BY <1>1, <2>1, <3>1, NullIsNoTime
      <3>2. CASE q # p
        <4>1. rows'[q] = table[q] /\ uses'[q] = uses[q]
          BY <1>1, <2>1, <3>2
        <4>2. QED BY <1>3, <4>1
      <3>3. QED BY <3>1, <3>2
    <2>4. UseRemembered'
      BY <1>2, <2>3 DEF UseRemembered
    <2>5. Timely(r) => uses[p] = 0
      <3>1. SUFFICES ASSUME Timely(r), uses[p] # 0 PROVE FALSE
        OBVIOUS
      <3>2. ~Expired(ExpiresAt(p), clock)
        BY <3>1, TimelyMeansLive
      <3>3. table[p] = ExpiresAt(p) /\ table[p] # Null
        BY <1>1, <1>3, <3>1, <3>2
      <3>4. QED BY <1>1, <1>5, <3>2, <3>3, ExpiredLater
    <2>6. QED BY <2>2, <2>4, <2>5
  <1>6. QED BY <1>4, <1>5

\* Reaping keeps every entry that has not expired.
LEMMA WithoutStale ==
    ASSUME TypeOK, NEW now, NEW gone \in SUBSET Stale(now)
    PROVE  /\ Without(gone) \in [Proofs -> Time \cup {Null}]
           /\ \A p \in Proofs : \/ Without(gone)[p] = rows[p]
                                \/ /\ Without(gone)[p] = Null /\ rows[p] # Null
                                   /\ Expired(rows[p], now)
  BY DEF Without, Stale, TypeOK

\* The registration of the memory adapter decides on a swept table.
SweptTable(r) == IF SweepDue(req[r].now) THEN Without(Stale(req[r].now)) ELSE rows

LEMMA SweptReduced ==
    ASSUME TypeOK, NEW r \in Requests
    PROVE  Reduced(SweptTable(r), r)
  <1>1. CASE SweepDue(req[r].now)
    BY <1>1, WithoutStale DEF SweptTable, Reduced
  <1>2. CASE ~SweepDue(req[r].now)
    BY <1>2 DEF SweptTable, Reduced, TypeOK
  <1>3. QED BY <1>1, <1>2

\* Either adapter registers a request with what ClaimStep says, or refuses it.
LEMMA RegisterStep ==
    ASSUME ReplayInv, NEW r \in Requests, RegisterPg(r) \/ RegisterMemory(r)
    PROVE  /\ req[r] # Null /\ req' = [req EXCEPT ![r] = Null]
           /\ UNCHANGED <<clock, store, stamp>>
           /\ rows' \in [Proofs -> Time \cup {Null}]
           /\ uses' \in [Proofs -> Nat]
           /\ UseRemembered'
           /\ Timely(r) /\ uses' # uses => uses[req[r].proof] = 0
  <1>1. TypeOK /\ Reduced(rows, r) /\ Reduced(SweptTable(r), r)
    BY SweptReduced DEF ReplayInv, TypeOK, Reduced
  <1>2. CASE RegisterPg(r)
    BY <1>1, <1>2, ClaimStep DEF RegisterPg
  <1>3. CASE RegisterMemory(r)
    <2>1. /\ req[r] # Null /\ req' = [req EXCEPT ![r] = Null]
          /\ UNCHANGED <<clock, store, stamp>>
          /\ (rows' = SweptTable(r) /\ uses' = uses) \/ Claim(r, SweptTable(r))
      BY <1>3 DEF RegisterMemory, SweptTable
    <2>2. CASE Claim(r, SweptTable(r))
      BY <1>1, <2>1, <2>2, ClaimStep
    <2>3. CASE rows' = SweptTable(r) /\ uses' = uses
      <3>1. UseRemembered'
        BY <1>1, <2>1, <2>3, ReducedKept
      <3>2. QED BY <1>1, <2>1, <2>3, <3>1 DEF Reduced, TypeOK
    <2>4. QED BY <2>1, <2>2, <2>3
  <1>4. QED BY <1>2, <1>3

\* The requests that stay in flight are as they were.
LEMMA RequestEnds ==
    ASSUME ReplayInv, NEW r \in Requests, req' = [req EXCEPT ![r] = Null],
           clock' = clock, stamp' = stamp
    PROVE  req' \in [Requests -> Request \cup {Null}] /\ RequestsCurrent'
  <1>1. req' \in [Requests -> Request \cup {Null}]
    BY DEF ReplayInv, TypeOK
  <1>2. \A q \in Requests : req'[q] # Null => req'[q] = req[q] /\ q # r
    BY DEF ReplayInv, TypeOK
  <1>3. RequestsCurrent'
    BY <1>2 DEF ReplayInv, RequestsCurrent, Fresh
  <1>4. QED BY <1>1, <1>3

\* Every step preserves the invariant.
LEMMA ReplayStep ==
    ASSUME ReplayInv, [Next]_vars
    PROVE  ReplayInv'
  <1>1. CASE UNCHANGED vars
    BY <1>1 DEF vars, ReplayInv, TypeOK, UseRemembered, RequestsCurrent, ExpiresAt, Fresh
  <1>2. CASE Tick
    <2>1. clock' \in Time /\ clock \in Time /\ Before(clock, clock')
      <3>1. clock \in Time
        BY DEF ReplayInv, TypeOK
      <3>2. clock.sec \in Nat /\ clock.frac \in 0..(SubSec - 1)
        BY <3>1 DEF Time
      <3>3. CASE clock.frac + 1 < SubSec
        <4>1. clock' = [clock EXCEPT !.frac = @ + 1]
          BY <1>2, <3>3 DEF Tick
        <4>2. clock'.sec = clock.sec /\ clock'.frac = clock.frac + 1
          BY <3>1, <4>1 DEF Time
        <4>3. clock' \in Time
          BY <3>1, <3>2, <3>3, <4>1, ReplayConstantsOK DEF Time
        <4>4. QED BY <3>1, <3>2, <4>2, <4>3 DEF Before
      <3>4. CASE ~(clock.frac + 1 < SubSec)
        <4>1. clock' = [sec |-> clock.sec + 1, frac |-> 0]
          BY <1>2, <3>4 DEF Tick
        <4>2. clock' \in Time
          BY <3>2, <4>1, ReplayConstantsOK DEF Time
        <4>3. QED BY <3>1, <3>2, <4>1, <4>2 DEF Before
      <3>5. QED BY <3>3, <3>4
    <2>2. UNCHANGED <<store, stamp, rows, lastSweep, req, uses>>
      BY <1>2 DEF Tick
    <2>3. TypeOK'
      BY <2>1, <2>2 DEF ReplayInv, TypeOK
    <2>4. \A p \in Proofs : ExpiresAt(p)' = ExpiresAt(p)
      BY <2>2 DEF ExpiresAt
    <2>5. ~Before(clock', clock)
      BY <2>1 DEF Before, Time
    <2>6. UseRemembered'
      <3>1. ASSUME NEW p \in Proofs, Expired(ExpiresAt(p), clock)
            PROVE  Expired(ExpiresAt(p), clock')
        BY <2>1, <2>5, <3>1, ExpiresAtTime, ExpiredLater DEF ReplayInv
      <3>2. QED BY <2>2, <2>4, <3>1 DEF ReplayInv, UseRemembered
    <2>7. RequestsCurrent'
      <3>1. ASSUME NEW r \in Requests, req[r] # Null
            PROVE  Fresh(req[r].proof, req[r].now) /\ ~Before(clock', req[r].now)
        <4>1. /\ Fresh(req[r].proof, req[r].now) /\ ~Before(clock, req[r].now)
              /\ req[r].now \in Time
          BY <3>1 DEF ReplayInv, RequestsCurrent, TypeOK, Request
        <4>2. ~Before(clock', req[r].now)
          BY <2>1, <4>1 DEF Before, Time
        <4>3. QED BY <4>1, <4>2
      <3>2. QED BY <2>2, <3>1 DEF RequestsCurrent, Fresh
    <2>8. QED BY <2>3, <2>6, <2>7 DEF ReplayInv
  <1>3. ASSUME NEW r \in Requests, NEW p \in Proofs, Receive(r, p)
        PROVE  ReplayInv'
    <2> DEFINE new == [pc |-> "register", proof |-> p, now |-> clock]
    <2>1. /\ req' = [req EXCEPT ![r] = new] /\ Fresh(p, clock)
          /\ UNCHANGED <<clock, store, stamp, rows, lastSweep, uses>>
      BY <1>3 DEF Receive
    <2>2. new \in Request /\ clock \in Time
      BY DEF ReplayInv, TypeOK, Request
    <2>3. TypeOK'
      BY <2>1, <2>2 DEF ReplayInv, TypeOK
    <2>4. UseRemembered'
      BY <2>1 DEF ReplayInv, UseRemembered, ExpiresAt
    <2>5. ~Before(clock, clock)
      BY <2>2 DEF Before, Time
    <2>6. ASSUME NEW q \in Requests, req'[q] # Null
          PROVE  Fresh(req'[q].proof, req'[q].now) /\ ~Before(clock, req'[q].now)
      <3>1. CASE q = r
        <4>1. req'[q] = new
          BY <2>1, <3>1 DEF ReplayInv, TypeOK
        <4>2. QED BY <2>1, <2>5, <4>1
      <3>2. CASE q # r
        <4>1. req'[q] = req[q]
          BY <2>1, <3>2 DEF ReplayInv, TypeOK
        <4>2. QED BY <2>6, <4>1 DEF ReplayInv, RequestsCurrent
      <3>3. QED BY <3>1, <3>2
    <2>7. RequestsCurrent'
      BY <2>1, <2>6 DEF RequestsCurrent, Fresh
    <2>8. QED BY <2>3, <2>4, <2>7 DEF ReplayInv
  <1>4. ASSUME NEW r \in Requests, NEW gone \in SUBSET Proofs, Reap(r, gone)
        PROVE  ReplayInv'
    <2>1. /\ rows' = Without(gone) /\ gone \in SUBSET Stale(req[r].now) /\ req[r] # Null
          /\ req' = [req EXCEPT ![r].pc = "insert"]
          /\ UNCHANGED <<clock, store, stamp, lastSweep, uses>>
      BY <1>4 DEF Reap
    <2>2. /\ TypeOK /\ UseRemembered /\ RequestsCurrent
          /\ req[r] \in Request /\ req[r].now \in Time /\ clock \in Time
      BY <2>1 DEF ReplayInv, TypeOK, Request
    <2>3. /\ rows' \in [Proofs -> Time \cup {Null}]
          /\ \A p \in Proofs : \/ rows'[p] = rows[p]
                               \/ /\ rows'[p] = Null /\ rows[p] # Null
                                  /\ Expired(rows[p], req[r].now)
      BY <2>1, <2>2, WithoutStale
    <2>4. [req[r] EXCEPT !.pc = "insert"] \in Request
      BY <2>2 DEF Request
    <2>5. req' \in [Requests -> Request \cup {Null}]
      BY <2>1, <2>2, <2>4 DEF TypeOK
    <2>6. TypeOK'
      BY <2>1, <2>2, <2>3, <2>5 DEF TypeOK
    <2>7. Reduced(Without(gone), r)
      BY <2>1, <2>2, WithoutStale DEF Reduced
    <2>8. UseRemembered'
      BY <2>1, <2>7, ReducedKept
    <2>9. \A q \in Requests : /\ req'[q] # Null => req[q] # Null
                              /\ req'[q] # Null => req'[q].proof = req[q].proof
                              /\ req'[q] # Null => req'[q].now = req[q].now
      <3>1. req'[r] = [req[r] EXCEPT !.pc = "insert"]
        BY <2>1, <2>2 DEF TypeOK
      <3>2. req'[r].proof = req[r].proof /\ req'[r].now = req[r].now
        BY <2>2, <3>1 DEF Request
      <3>3. \A q \in Requests : q # r => req'[q] = req[q]
        BY <2>1, <2>2 DEF TypeOK
      <3>4. QED BY <2>1, <3>2, <3>3
    <2>10. RequestsCurrent'
      BY <2>1, <2>2, <2>9 DEF RequestsCurrent, Fresh
    <2>11. QED BY <2>6, <2>8, <2>10 DEF ReplayInv
  <1>5. ASSUME NEW r \in Requests, RegisterPg(r) \/ RegisterMemory(r)
        PROVE  ReplayInv'
    <2>1. /\ req[r] # Null /\ req' = [req EXCEPT ![r] = Null] /\ UNCHANGED <<clock, store, stamp>>
          /\ rows' \in [Proofs -> Time \cup {Null}] /\ uses' \in [Proofs -> Nat] /\ UseRemembered'
      BY <1>5, RegisterStep
    <2>2. req' \in [Requests -> Request \cup {Null}] /\ RequestsCurrent'
      BY <2>1, RequestEnds
    <2>3. lastSweep' \in Time \cup {Null}
      BY <1>5, <2>1 DEF RegisterPg, RegisterMemory, ReplayInv, TypeOK, Request
    <2>4. TypeOK'
      BY <2>1, <2>2, <2>3 DEF ReplayInv, TypeOK
    <2>5. QED BY <2>1, <2>2, <2>4 DEF ReplayInv
  <1>6. ASSUME NEW r \in Requests, Abort(r)
        PROVE  ReplayInv'
    <2>1. /\ req' = [req EXCEPT ![r] = Null]
          /\ UNCHANGED <<clock, store, stamp, rows, lastSweep, uses>>
      BY <1>6 DEF Abort
    <2>2. req' \in [Requests -> Request \cup {Null}] /\ RequestsCurrent'
      BY <2>1, RequestEnds
    <2>3. TypeOK' /\ UseRemembered'
      BY <2>1, <2>2 DEF ReplayInv, TypeOK, UseRemembered, ExpiresAt
    <2>4. QED BY <2>2, <2>3 DEF ReplayInv
  <1>7. QED BY <1>1, <1>2, <1>3, <1>4, <1>5, <1>6 DEF Next, Handle

\* The empty guard satisfies the invariant.
LEMMA ReplayInit == Init => ReplayInv
  <1> SUFFICES ASSUME Init PROVE ReplayInv
    OBVIOUS
  <1>1. clock \in Time
    BY ReplayConstantsOK DEF Init, Time
  <1>2. TypeOK
    BY <1>1 DEF Init, TypeOK
  <1>3. UseRemembered /\ RequestsCurrent
    BY DEF Init, UseRemembered, RequestsCurrent
  <1>4. QED BY <1>2, <1>3 DEF ReplayInv

\* A DPoP proof or a client assertion that was accepted is not accepted from a
\* timely request again, in any configuration.
THEOREM ReplayRefused == Spec => AcceptedOnceInTime
  <1>1. Init => ReplayInv
    BY ReplayInit
  <1>2. ReplayInv /\ [Next]_vars => ReplayInv'
    BY ReplayStep
  <1>3. ASSUME ReplayInv, [Next]_vars, NEW r \in Requests, req[r] # Null, Timely(r), req'[r] = Null,
               uses' # uses
        PROVE  uses[req[r].proof] = 0
    <2>1. PICK q \in Requests : RegisterPg(q) \/ RegisterMemory(q)
      BY <1>3 DEF Next, Handle, Tick, Receive, Reap, Abort, vars
    <2>2. /\ req' = [req EXCEPT ![q] = Null]
          /\ Timely(q) => uses[req[q].proof] = 0
      BY <1>3, <2>1, RegisterStep
    <2>3. q = r
      BY <1>3, <2>2 DEF ReplayInv, TypeOK
    <2>4. QED BY <1>3, <2>2, <2>3
  <1>4. ReplayInv /\ [Next]_vars =>
          [\A r \in Requests :
              req[r] # Null /\ Timely(r) /\ req'[r] = Null /\ uses' # uses
                  => uses[req[r].proof] = 0]_vars
    BY <1>3
  <1>5. QED BY <1>1, <1>2, <1>4, PTL DEF Spec, AcceptedOnceInTime

\* The guard's entries, the claims and the captured times keep their types.
THEOREM ReplayTypeCorrect == Spec => []TypeOK
  <1>1. Init => ReplayInv
    BY ReplayInit
  <1>2. ReplayInv /\ [Next]_vars => ReplayInv'
    BY ReplayStep
  <1>3. ReplayInv => TypeOK
    BY DEF ReplayInv
  <1>4. QED BY <1>1, <1>2, <1>3, PTL DEF Spec

-----------------------------------------------------------------------------
(* The memory adapter's cap.                                               *)

Held(table) == {p \in Proofs : table[p] # Null}

\* The guard holds finitely many entries, and in memory no more than the cap.
CapInv == IsFiniteSet(Held(rows)) /\ (store = "memory" => Size(rows) <= HardCap)

\* Dropping entries leaves no more of them.
LEMMA DropBound ==
    ASSUME NEW small, NEW big, IsFiniteSet(Held(big)), \A p \in Proofs : small[p] # Null => big[p] # Null
    PROVE  IsFiniteSet(Held(small)) /\ Size(small) <= Size(big) /\ Size(small) \in Nat /\ Size(big) \in Nat
  <1>1. Held(small) \subseteq Held(big)
    BY DEF Held
  <1>2. IsFiniteSet(Held(small)) /\ Cardinality(Held(small)) <= Cardinality(Held(big))
    BY <1>1, FS_Subset
  <1>3. Cardinality(Held(small)) \in Nat /\ Cardinality(Held(big)) \in Nat
    BY <1>2, FS_CardinalityType
  <1>4. QED BY <1>2, <1>3 DEF Size, Held

\* Claiming a slot takes at most one entry more.
LEMMA ClaimBound ==
    ASSUME NEW r \in Requests, NEW table, IsFiniteSet(Held(table)), Claim(r, table),
           table = [p \in Proofs |-> table[p]]
    PROVE  IsFiniteSet(Held(rows')) /\ Size(rows') \in Nat /\ Size(table) \in Nat /\ Size(rows') <= Size(table) + 1
  <1> DEFINE p == req[r].proof
  <1>1. \A q \in Proofs : rows'[q] # Null => table[q] # Null \/ q = p
    BY DEF Claim
  <1>2. Held(rows') \subseteq Held(table) \cup {p}
    BY <1>1 DEF Held
  <1> HIDE DEF p
  <1>3. IsFiniteSet(Held(table) \cup {p}) /\ Cardinality(Held(table)) \in Nat
        /\ Cardinality(Held(table) \cup {p}) <= Cardinality(Held(table)) + 1
    BY FS_AddElement, FS_CardinalityType
  <1>4. IsFiniteSet(Held(rows')) /\ Cardinality(Held(rows')) <= Cardinality(Held(table) \cup {p})
        /\ Cardinality(Held(rows')) \in Nat /\ Cardinality(Held(table) \cup {p}) \in Nat
    BY <1>2, <1>3, FS_Subset, FS_CardinalityType
  <1>5. QED BY <1>3, <1>4 DEF Size, Held

\* No step grows the guard past its cap.
LEMMA CapStep ==
    ASSUME TypeOK, CapInv, [Next]_vars
    PROVE  CapInv'
  <1>a. /\ rows \in [Proofs -> Time \cup {Null}] /\ Size(rows) \in Nat /\ HardCap \in Nat
        /\ IsFiniteSet(Held(rows)) /\ (store = "memory" => Size(rows) <= HardCap)
    BY DropBound, ReplayConstantsOK DEF TypeOK, CapInv
  <1>1. ASSUME UNCHANGED <<rows, store>> PROVE CapInv'
    BY <1>1, <1>a DEF CapInv, Held, Size
  <1>2. CASE Tick \/ UNCHANGED vars
    BY <1>1, <1>2 DEF Tick, vars
  <1>3. ASSUME NEW r \in Requests, (\E p \in Proofs : Receive(r, p)) \/ Abort(r) PROVE CapInv'
    BY <1>1, <1>3 DEF Receive, Abort
  <1>4. ASSUME NEW r \in Requests, NEW gone \in SUBSET Proofs, Reap(r, gone) PROVE CapInv'
    <2>1. store' = store /\ store = "pg" /\ rows' = Without(gone)
      BY <1>4 DEF Reap
    <2>2. IsFiniteSet(Held(rows'))
      BY <1>a, <2>1, DropBound DEF Without
    <2>3. QED BY <2>1, <2>2 DEF CapInv
  <1>5. ASSUME NEW r \in Requests, RegisterPg(r) PROVE CapInv'
    <2>1. store' = store /\ store = "pg" /\ Claim(r, rows)
      BY <1>5 DEF RegisterPg
    <2>2. IsFiniteSet(Held(rows'))
      BY <1>a, <2>1, ClaimBound
    <2>3. QED BY <2>1, <2>2 DEF CapInv
  <1>6. ASSUME NEW r \in Requests, RegisterMemory(r) PROVE CapInv'
    <2> DEFINE table == IF SweepDue(req[r].now) THEN Without(Stale(req[r].now)) ELSE rows
    <2>1. /\ store' = store /\ store = "memory"
          /\ IF Full(table) THEN rows' = table ELSE Claim(r, table)
      BY <1>6 DEF RegisterMemory
    <2>2. table = [p \in Proofs |-> table[p]] /\ \A p \in Proofs : table[p] # Null => rows[p] # Null
      BY <1>a DEF Without
    <2> HIDE DEF table
    <2>3. IsFiniteSet(Held(table)) /\ Size(table) <= Size(rows) /\ Size(table) \in Nat
      BY <1>a, <2>2, DropBound
    <2>4. CASE Full(table)
      <3>1. rows' = table
        BY <2>1, <2>4
      <3>2. QED BY <1>a, <2>1, <2>3, <3>1 DEF CapInv
    <2>5. CASE ~Full(table)
      <3>1. IsFiniteSet(Held(rows')) /\ Size(rows') \in Nat /\ Size(rows') <= Size(table) + 1
        BY <2>1, <2>2, <2>3, <2>5, ClaimBound
      <3>2. QED BY <1>a, <2>1, <2>3, <2>5, <3>1 DEF Full, CapInv
    <2>6. QED BY <2>4, <2>5
  <1>7. QED BY <1>2, <1>3, <1>4, <1>5, <1>6 DEF Next, Handle

\* The memory adapter refuses rather than grow past its cap, and what it forgot
\* had expired.
THEOREM GuardBounded == Spec => []StoreBounded
  <1>1. Init => ReplayInv /\ CapInv
    <2>1. ASSUME Init PROVE CapInv
      <3>1. Held(rows) = {}
        BY <2>1 DEF Init, Held
      <3>2. IsFiniteSet(Held(rows)) /\ Cardinality(Held(rows)) = 0
        BY <3>1, FS_EmptySet
      <3>3. QED BY <3>2, ReplayConstantsOK DEF CapInv, Size, Held
    <2>2. QED BY <2>1, ReplayInit
  <1>2. ReplayInv /\ CapInv /\ [Next]_vars => (ReplayInv /\ CapInv)'
    BY ReplayStep, CapStep DEF ReplayInv
  <1>3. ReplayInv /\ CapInv => StoreBounded
    BY DEF ReplayInv, CapInv, UseRemembered, StoreBounded
  <1>4. QED BY <1>1, <1>2, <1>3, PTL DEF Spec

=============================================================================
