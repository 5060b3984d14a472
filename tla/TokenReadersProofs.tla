------------------------- MODULE TokenReadersProofs -------------------------
(***************************************************************************)
(* Proofs about TokenReaders, for any number of requests that read.        *)
(*                                                                         *)
(* What a reading request holds is a copy of a row.  The invariant says    *)
(* what of the copy stays true while the tables move on: the grant, its    *)
(* client, subject and scope and the code's key (RowHolds), because no     *)
(* step changes them; and that a copy taken after a confirmed revocation   *)
(* says so (ReaderHolds), because a confirmed revocation is in the row.    *)
(***************************************************************************)
EXTENDS TokenReaders, TokenLifecycleProofs

\* What the copy of a row says of its grant, at userinfo of its key too.
RowHolds(row, at) ==
    LET g == row.grantId IN
    /\ g \in Grants /\ grants[g] # Null /\ codes[g] # Null
    /\ row.clientId = grants[g].clientId
    /\ row.scope \subseteq grants[g].scope
    /\ at = "userinfo" =>
          /\ row.subject = grants[g].subject
          /\ codes[g].dpopJkt \in {Null, row.cnfJkt} \/ Of(refreshTokens, g) # {}

\* What a reading request has checked.
Checked(m) ==
    /\ m.before => m.row.revoked
    /\ m.pc # "check" => ~m.row.revoked
    /\ m.pc = "proof" => m.at = "userinfo"
    /\ m.pc = "active" /\ m.at = "introspection" => m.row.clientId = m.client
    /\ m.pc = "active" /\ m.at = "userinfo" => m.row.cnfJkt = m.jkt

ReaderHolds(m) == Checked(m) /\ RowHolds(m.row, m.at)

ReadersInv ==
    /\ LifecycleInv
    /\ reader \in [Readers -> Reader \cup {Null}]
    /\ \A q \in Readers : reader[q] # Null => ReaderHolds(reader[q])

\* A step of the requests that write keeps the rows there are.
LEMMA WritersKeepRows ==
    ASSUME LifecycleInv, [Next]_vars
    PROVE  RowsPersist
  <1>1. CASE Tick \/ UNCHANGED vars
    BY <1>1 DEF Tick, vars, tables, RowsPersist
  <1>2. ASSUME NEW r \in Requests, Step(r) PROVE RowsPersist
    BY <1>2, StepFacts
  <1>3. QED BY <1>1, <1>2 DEF Next

\* A grant that has a refresh token keeps it.
LEMMA StepKeepsTokens ==
    ASSUME LifecycleInv, TypeOK', RowsPersist, NEW g, Of(refreshTokens, g) # {}
    PROVE  Of(refreshTokens', g) # {}
  BY DEF Of, RowsPersist, LifecycleInv, TypeOK

\* The tables move on under the copy of a row.
LEMMA RowHoldsOn ==
    ASSUME LifecycleInv, TypeOK', RowsPersist, NEW row, NEW at, RowHolds(row, at)
    PROVE  RowHolds(row, at)'
  <1> DEFINE g == row.grantId
  <1>1. /\ g \in Grants /\ grants'[g] # Null /\ codes'[g] # Null
        /\ grants'[g].clientId = grants[g].clientId /\ grants'[g].subject = grants[g].subject
        /\ grants'[g].scope = grants[g].scope /\ codes'[g].dpopJkt = codes[g].dpopJkt
    BY DEF RowHolds, RowsPersist
  <1>2. Of(refreshTokens, g) # {} => Of(refreshTokens', g) # {}
    BY StepKeepsTokens
  <1>3. QED BY <1>1, <1>2 DEF RowHolds, Of

\* The copy that findByJti takes of an access token's row.
LEMMA AccessRowHolds ==
    ASSUME LifecycleInv, NEW a \in AccessTokens, a \in sent, NEW at
    PROVE  /\ accessTokens[a] \in AccessTokenRow
           /\ RowHolds(accessTokens[a], at)
           /\ a \in confirmed => accessTokens[a].revoked
  <1>1. accessTokens[a] # Null /\ accessTokens[a] \in AccessTokenRow
    BY DEF LifecycleInv, RowsLinked, TypeOK
  <1>2. accessTokens[a].grantId \in Grants
    BY <1>1 DEF AccessTokenRow
  <1> DEFINE g == accessTokens[a].grantId
  <1>3. /\ codes[g] # Null /\ accessTokens[a].clientId = grants[g].clientId
        /\ accessTokens[a].subject = grants[g].subject /\ accessTokens[a].scope \subseteq grants[g].scope
    BY <1>1 DEF LifecycleInv, TokensMatchGrant
  <1>4. grants[g] # Null
    BY <1>2, <1>3 DEF LifecycleInv, RowsLinked
  <1>5. codes[g].dpopJkt \in {Null, accessTokens[a].cnfJkt} \/ Of(refreshTokens, g) # {}
    BY <1>1 DEF LifecycleInv, PinnedKey
  <1>6. QED BY <1>1, <1>2, <1>3, <1>4, <1>5 DEF RowHolds, LifecycleInv, AnswersHold

\* The copy that findByHash takes of a refresh token's row.
LEMMA RefreshRowHolds ==
    ASSUME LifecycleInv, NEW x \in RefreshTokens, x \in sent
    PROVE  /\ refreshTokens[x] \in RefreshTokenRow
           /\ RowHolds(refreshTokens[x], "introspection")
           /\ x \in confirmed => refreshTokens[x].revoked
  <1>1. refreshTokens[x] # Null /\ refreshTokens[x] \in RefreshTokenRow
    BY DEF LifecycleInv, RowsLinked, TypeOK
  <1>2. refreshTokens[x].grantId \in Grants
    BY <1>1 DEF RefreshTokenRow
  <1> DEFINE g == refreshTokens[x].grantId
  <1>3. codes[g] # Null /\ grants[g] # Null
    BY <1>1, <1>2 DEF LifecycleInv, RowsLinked
  <1>4. /\ refreshTokens[x].clientId = grants[g].clientId /\ refreshTokens[x].scope = grants[g].scope
    BY <1>1 DEF LifecycleInv, TokensMatchGrant
  <1>5. QED BY <1>1, <1>2, <1>3, <1>4 DEF RowHolds, LifecycleInv, AnswersHold

-----------------------------------------------------------------------------
(* The steps of a reading request.                                         *)

\* A lookup holds what the row says.
LEMMA FindStep ==
    ASSUME ReadersInv, NEW q \in Readers, Introspect(q) \/ Present(q)
    PROVE  \E m \in Reader : reader' = [reader EXCEPT ![q] = m] /\ ReaderHolds(m)
  <1>1. ASSUME NEW at \in {"introspection", "userinfo"}, NEW c \in Clients \cup {Null},
               NEW x \in AccessTokens \cup RefreshTokens, NEW row \in TokenRow, Find(q, at, c, x, row),
               RowHolds(row, at), x \in confirmed => row.revoked
        PROVE  \E m \in Reader : reader' = [reader EXCEPT ![q] = m] /\ ReaderHolds(m)
    <2> DEFINE m == [pc |-> "check", at |-> at, client |-> c, jkt |-> Null, token |-> x,
                     row |-> row, before |-> x \in confirmed]
    <2>1. m \in Reader
      BY DEF Reader
    <2>2. Checked(m) /\ m.row = row /\ m.at = at
      BY <1>1 DEF Checked
    <2>3. reader' = [reader EXCEPT ![q] = m]
      BY <1>1 DEF Find
    <2> HIDE DEF m
    <2>4. QED BY <1>1, <2>1, <2>2, <2>3 DEF ReaderHolds
  <1>2. CASE Introspect(q)
    <2>1. ASSUME NEW c \in Clients, NEW a \in AccessTokens, Find(q, "introspection", c, a, accessTokens[a])
          PROVE  \E m \in Reader : reader' = [reader EXCEPT ![q] = m] /\ ReaderHolds(m)
      <3>1. a \in sent
        BY <2>1 DEF Find
      <3>2. /\ accessTokens[a] \in TokenRow /\ RowHolds(accessTokens[a], "introspection")
            /\ a \in confirmed => accessTokens[a].revoked
        BY <3>1, AccessRowHolds DEF ReadersInv, TokenRow
      <3>3. QED BY <1>1, <2>1, <3>2
    <2>2. ASSUME NEW c \in Clients, NEW x \in RefreshTokens, Find(q, "introspection", c, x, refreshTokens[x])
          PROVE  \E m \in Reader : reader' = [reader EXCEPT ![q] = m] /\ ReaderHolds(m)
      <3>1. x \in sent
        BY <2>2 DEF Find
      <3>2. /\ refreshTokens[x] \in TokenRow /\ RowHolds(refreshTokens[x], "introspection")
            /\ x \in confirmed => refreshTokens[x].revoked
        BY <3>1, RefreshRowHolds DEF ReadersInv, TokenRow
      <3>3. QED BY <1>1, <2>2, <3>2
    <2>3. QED BY <1>2, <2>1, <2>2 DEF Introspect
  <1>3. CASE Present(q)
    <2>1. PICK a \in AccessTokens : Find(q, "userinfo", Null, a, accessTokens[a])
      BY <1>3 DEF Present
    <2>2. a \in sent
      BY <2>1 DEF Find
    <2>3. /\ accessTokens[a] \in TokenRow /\ RowHolds(accessTokens[a], "userinfo")
          /\ a \in confirmed => accessTokens[a].revoked
      BY <2>2, AccessRowHolds DEF ReadersInv, TokenRow
    <2>4. QED BY <1>1, <2>1, <2>3
  <1>4. QED BY <1>2, <1>3

\* A check of the copy passes, or the request is answered.
LEMMA CheckStep ==
    ASSUME ReadersInv, NEW q \in Readers,
           CheckIntrospection(q) \/ CheckUserinfo(q) \/ \E k \in Keys : VerifyProof(q, k)
    PROVE  \/ Answered(q)
           \/ \E m \in Reader : reader' = [reader EXCEPT ![q] = m] /\ ReaderHolds(m)
  <1>1. PICK m : m = reader[q]
    OBVIOUS
  <1>2. m \in Reader /\ Checked(m) /\ RowHolds(m.row, m.at)
    BY <1>1 DEF CheckIntrospection, CheckUserinfo, VerifyProof, Reads, ReadersInv, ReaderHolds
  <1>3. ASSUME NEW pc \in {"proof", "active"}, NEW k \in Keys \cup {Null},
               Checked([m EXCEPT !.pc = pc, !.jkt = k]),
               reader' = [reader EXCEPT ![q] = [m EXCEPT !.pc = pc, !.jkt = k]]
        PROVE  \E n \in Reader : reader' = [reader EXCEPT ![q] = n] /\ ReaderHolds(n)
    <2> DEFINE n == [m EXCEPT !.pc = pc, !.jkt = k]
    <2>1. n \in Reader /\ n.row = m.row /\ n.at = m.at
      BY <1>2 DEF Reader
    <2>2. Checked(n) /\ reader' = [reader EXCEPT ![q] = n]
      BY <1>3
    <2> HIDE DEF n
    <2>3. QED BY <1>2, <2>1, <2>2 DEF ReaderHolds
  <1>4. [m EXCEPT !.jkt = m.jkt] = m /\ m.jkt \in Keys \cup {Null}
    BY <1>2 DEF Reader
  <1>5. ASSUME NEW pc \in {"proof", "active"}, Proceed(q, pc), Checked([m EXCEPT !.pc = pc])
        PROVE  \E n \in Reader : reader' = [reader EXCEPT ![q] = n] /\ ReaderHolds(n)
    <2>1. [m EXCEPT !.pc = pc, !.jkt = m.jkt] = [m EXCEPT !.pc = pc]
      BY <1>2 DEF Reader
    <2>2. QED BY <1>1, <1>3, <1>4, <1>5, <2>1 DEF Proceed
  <1>6. CASE CheckIntrospection(q)
    <2>1. m.pc = "check" /\ m.at = "introspection"
      BY <1>1, <1>6 DEF CheckIntrospection, Reads
    <2>2. CASE m.row.clientId = m.client /\ LiveRow(m.row)
      <3>1. Proceed(q, "active")
        BY <1>1, <1>6, <2>2 DEF CheckIntrospection
      <3>2. Checked([m EXCEPT !.pc = "active"])
        BY <1>2, <2>1, <2>2 DEF Checked, LiveRow, Reader
      <3>3. QED BY <1>5, <3>1, <3>2
    <2>3. CASE ~(m.row.clientId = m.client /\ LiveRow(m.row))
      BY <1>1, <1>6, <2>3 DEF CheckIntrospection
    <2>4. QED BY <2>2, <2>3
  <1>7. CASE CheckUserinfo(q)
    <2>1. m.pc = "check" /\ m.at = "userinfo"
      BY <1>1, <1>7 DEF CheckUserinfo, Reads
    <2>2. CASE LiveRow(m.row)
      <3>1. Proceed(q, "proof")
        BY <1>1, <1>7, <2>2 DEF CheckUserinfo
      <3>2. Checked([m EXCEPT !.pc = "proof"])
        BY <1>2, <2>1, <2>2 DEF Checked, LiveRow, Reader
      <3>3. QED BY <1>5, <3>1, <3>2
    <2>3. CASE ~LiveRow(m.row)
      BY <1>1, <1>7, <2>3 DEF CheckUserinfo
    <2>4. QED BY <2>2, <2>3
  <1>8. ASSUME NEW k \in Keys, VerifyProof(q, k)
        PROVE  \/ Answered(q)
               \/ \E n \in Reader : reader' = [reader EXCEPT ![q] = n] /\ ReaderHolds(n)
    <2>1. m.pc = "proof"
      BY <1>1, <1>8 DEF VerifyProof, Reads
    <2>2. CASE k = m.row.cnfJkt
      <3>1. reader' = [reader EXCEPT ![q] = [m EXCEPT !.pc = "active", !.jkt = k]]
        BY <1>1, <1>8, <2>2 DEF VerifyProof
      <3>2. Checked([m EXCEPT !.pc = "active", !.jkt = k])
        BY <1>2, <2>1, <2>2 DEF Checked, Reader
      <3>3. QED BY <1>3, <3>1, <3>2
    <2>3. CASE k # m.row.cnfJkt
      BY <1>1, <1>8, <2>3 DEF VerifyProof
    <2>4. QED BY <2>2, <2>3
  <1>9. QED BY <1>6, <1>7, <1>8

\* Every step keeps the invariant.
LEMMA ReadersStep ==
    ASSUME ReadersInv, [ReadersNext]_readerVars
    PROVE  ReadersInv'
  <1>a. /\ reader \in [Readers -> Reader \cup {Null}]
        /\ \A q \in Readers : reader[q] # Null => ReaderHolds(reader[q])
    BY DEF ReadersInv
  <1>1. ASSUME [Next]_vars, reader' = reader
        PROVE  ReadersInv'
    <2>1. LifecycleInv /\ LifecycleInv' /\ TypeOK' /\ RowsPersist
      BY <1>1, InvariantStep, WritersKeepRows DEF ReadersInv, LifecycleInv
    <2>2. ASSUME NEW q \in Readers, reader'[q] # Null
          PROVE  ReaderHolds(reader[q])'
      <3>1. PICK m : m = reader[q]
        OBVIOUS
      <3>2. Checked(m) /\ RowHolds(m.row, m.at)
        BY <1>1, <2>2, <3>1 DEF ReadersInv, ReaderHolds
      <3>3. RowHolds(m.row, m.at)'
        BY <2>1, <3>2, RowHoldsOn
      <3>4. reader'[q] = m
        BY <1>1, <3>1
      <3>5. QED BY <3>2, <3>3, <3>4 DEF ReaderHolds, Checked, RowHolds
    <2>3. QED BY <1>1, <2>1, <2>2 DEF ReadersInv
  <1>2. ASSUME NEW q \in Readers, Read(q), UNCHANGED <<vars, calm>>
        PROVE  ReadersInv'
    <2>1. \/ Answered(q)
          \/ \E m \in Reader : reader' = [reader EXCEPT ![q] = m] /\ ReaderHolds(m)
      BY <1>2, FindStep, CheckStep DEF Read, Leave
    <2>2. PICK m \in Reader \cup {Null} : /\ reader' = [reader EXCEPT ![q] = m]
                                          /\ m # Null => ReaderHolds(m)
      BY <2>1 DEF Answered
    <2>m. m \in Reader \cup {Null} /\ q \in Readers
      BY <1>2, <2>2
    <2>3. UNCHANGED <<grants, codes, refreshTokens>> /\ LifecycleInv'
      BY <1>2, InvariantStep DEF ReadersInv, vars, tables
    <2>4. reader' \in [Readers -> Reader \cup {Null}]
      BY <1>a, <2>2, <2>m
    <2>5. ASSUME NEW p \in Readers, reader'[p] # Null
          PROVE  ReaderHolds(reader[p])'
      <3>1. PICK n : n = reader'[p]
        OBVIOUS
      <3>2. ReaderHolds(n)
        <4>1. CASE p = q
          BY <1>a, <2>2, <2>m, <2>5, <3>1, <4>1
        <4>2. CASE p # q
          BY <1>a, <2>2, <2>m, <2>5, <3>1, <4>2
        <4>3. QED BY <4>1, <4>2
      <3>3. ReaderHolds(n)'
        BY <2>3, <3>2 DEF ReaderHolds, Checked, RowHolds, Of
      <3>4. QED BY <3>1, <3>3 DEF ReaderHolds, Checked, RowHolds, Of
    <2>6. QED BY <2>3, <2>4, <2>5 DEF ReadersInv
  <1>3. QED BY <1>1, <1>2 DEF ReadersNext, readerVars

\* No request reads yet.
LEMMA ReadersStart == ReadersInit => ReadersInv
  BY InvariantInit DEF ReadersInit, ReadersInv

-----------------------------------------------------------------------------
(* The theorems.                                                           *)

\* The invariant of the requests that write and the requests that read.
THEOREM ReadersInvariant == ReadersSpec => []ReadersInv
  BY ReadersStart, ReadersStep, PTL DEF ReadersSpec

\* A token whose revocation was confirmed before it was looked up is not
\* answered with its data (LiveRow in introspect.ts and userinfo.ts).
THEOREM RevokedNotActive == ReadersSpec => []NotActiveOnceRevoked
  <1>1. ReadersInv => NotActiveOnceRevoked
    BY DEF ReadersInv, NotActiveOnceRevoked, Reads, ReaderHolds, Checked
  <1>2. QED BY <1>1, ReadersInvariant, PTL

\* Introspection answers the client of the grant, userinfo the holder of the
\* key (the checks of introspect.ts and userinfo.ts, against a copy).
THEOREM AnsweredWithinGrant == ReadersSpec => []AnswersWithinGrant
  <1>1. ASSUME ReadersInv, NEW q \in Readers, Reads(q, "active")
        PROVE  LET row == reader[q].row  g == row.grantId IN
               /\ reader[q].at = "introspection" => grants[g].clientId = reader[q].client
               /\ reader[q].at = "userinfo" =>
                   /\ grants[g].subject = row.subject
                   /\ \/ codes[g].dpopJkt \in {Null, reader[q].jkt}
                      \/ Of(refreshTokens, g) # {}
               /\ row.scope \subseteq grants[g].scope
    <2>1. reader[q].pc = "active" /\ Checked(reader[q]) /\ RowHolds(reader[q].row, reader[q].at)
      BY <1>1 DEF ReadersInv, Reads, ReaderHolds
    <2>2. QED BY <2>1 DEF Checked, RowHolds
  <1>2. ReadersInv => AnswersWithinGrant
    BY <1>1 DEF AnswersWithinGrant
  <1>3. QED BY <1>2, ReadersInvariant, PTL


-----------------------------------------------------------------------------
(* A cascade that finds its grant sealed.                                  *)

CascadeSteps == {"grants.revoke", "at.revokeByGrant", "rt.revokeByGrant"}

\* Every access token that the grant has is revoked.
AccessTokensRevoked(g) == \A a \in Of(accessTokens, g) : accessTokens[a].revoked

\* A calm cascade is on its way, about a sealed grant, and past the UPDATE of
\* the access tokens none of them is live.
CalmInv == \A r \in calm :
    /\ r \in Requests /\ req[r].pc \in CascadeSteps
    /\ req[r].grant \in Grants /\ Sealed(req[r].grant)
    /\ req[r].pc = "rt.revokeByGrant" => AccessTokensRevoked(req[r].grant)

\* How a request comes to its next write of the cascade.
LEMMA CascadeMoves ==
    ASSUME TypeOK, NEW r \in Requests, Step(r), req'[r].pc \in CascadeSteps
    PROVE  /\ req'[r].grant = req[r].grant /\ req[r].pc \in ReplaySteps
           /\ req'[r].pc = "rt.revokeByGrant" => RevokeAccessTokensByGrant(r)
  <1>a. req \in [Requests -> Request]
    BY DEF TypeOK
  <1>1. req'[r] # Idle /\ req'[r].pc \notin {"codes.insert", "codes.select", "grants.find", "at.insert",
                                             "rt.insert", "rt.revoke", "at.cascade", "at.revoke",
                                             "at.unknown"}
    BY DEF CascadeSteps, Idle
  <1>b. req[r] \in Request
    BY <1>a
  <1>2. ~Issue(r) /\ ~Mint(r) /\ ~Abort(r)
    <2>1. ~Abort(r)
      BY <1>a, <1>1 DEF Abort, Finish
    <2>2. ASSUME NEW g \in Grants, NEW c \in Clients, NEW s \in Subjects, NEW sc \in SUBSET Scopes,
                 InsertGrant(r, g, c, s, sc) PROVE FALSE
      BY <1>a, <1>1, <2>2 DEF InsertGrant, Idle
    <2>3. ASSUME NEW u, NEW v, NEW k, NEW now, InsertCode(r, u, v, k, now) PROVE FALSE
      BY <1>a, <1>1, <2>3 DEF InsertCode, Finish
    <2>4. ASSUME NEW x, NEW c, NEW k, NEW now, FindRefreshToken(r, x, c, k, now) PROVE FALSE
      BY <1>a, <1>1, <2>4 DEF FindRefreshToken, Idle
    <2>5. ~FindGrantForCode(r)
      BY <1>a, <1>b, <1>1 DEF FindGrantForCode, Finish, Request
    <2>6. ASSUME NEW requested, FindGrantForRefresh(r, requested) PROVE FALSE
      BY <1>a, <1>b, <1>1, <2>6 DEF FindGrantForRefresh, Finish, Request
    <2>7. ASSUME NEW x, NEW now, InsertAccessToken(r, x, now) \/ InsertRefreshToken(r, x, now) PROVE FALSE
      BY <1>a, <1>b, <1>1, <2>7 DEF InsertAccessToken, InsertRefreshToken, Finish, Request
    <2>8. QED BY <2>1, <2>2, <2>3, <2>4, <2>5, <2>6, <2>7 DEF Issue, Mint
  <1>3. ~Revoke(r)
    <2>1. ASSUME NEW x, ResolveRefreshToken(r, x) \/ ResolveAccessToken(r, x) \/ MissAccessToken(r, x)
          PROVE  FALSE
      BY <1>a, <1>1, <2>1 DEF ResolveRefreshToken, ResolveAccessToken, MissAccessToken, Idle
    <2>2. ~RevokeRefreshToken(r)
      BY <1>a, <1>b, <1>1 DEF RevokeRefreshToken, Goto, Request
    <2>3. ~(CascadeToAccessTokens(r) \/ RevokeAccessToken(r) \/ AnswerUnknown(r))
      BY <1>a, <1>1 DEF CascadeToAccessTokens, RevokeAccessToken, AnswerUnknown, Finish, Idle
    <2>4. QED BY <2>1, <2>2, <2>3 DEF Revoke
  <1>4. Redeem(r)
    BY <1>2, <1>3 DEF Step
  <1>5. CASE \E g \in Grants, c \in Clients, u \in RedirectUris, v \in Verifiers, k \in Keys, now \in Captured :
                RedeemOk(r, g, c, u, v, k, now)
    BY <1>a, <1>1, <1>5 DEF RedeemOk, Idle, Request
  <1>6. CASE \E g \in Grants, c \in Clients, u \in RedirectUris, v \in Verifiers, k \in Keys, now \in Captured :
                RedeemBurned(r, g, c, u, v, k, now)
    BY <1>a, <1>1, <1>6 DEF RedeemBurned, Idle, Request
  <1>7. CASE \E g \in Grants, now \in Captured : RedeemMiss(r, g, now)
    BY <1>a, <1>1, <1>7 DEF RedeemMiss, Idle, Request
  <1>8. CASE SelectConsumed(r) \/ RevokeGrant(r) \/ RevokeAccessTokensByGrant(r) \/ RevokeRefreshTokensByGrant(r)
    <2>1. req[r].pc \in ReplaySteps
      BY <1>8 DEF SelectConsumed, RevokeGrant, RevokeAccessTokensByGrant, RevokeRefreshTokensByGrant, ReplaySteps
    <2>2. ASSUME NEW pc, Goto(r, pc) PROVE req'[r].grant = req[r].grant /\ req'[r].pc = pc
      BY <1>a, <1>b, <2>2 DEF Goto, Request
    <2>3. ~Finish(r)
      BY <1>a, <1>1 DEF Finish
    <2>4. CASE SelectConsumed(r) \/ RevokeGrant(r)
      <3>1. Goto(r, "grants.revoke") \/ Goto(r, "at.revokeByGrant")
        BY <2>3, <2>4 DEF SelectConsumed, RevokeGrant
      <3>2. QED BY <2>1, <2>2, <3>1
    <2>5. CASE RevokeAccessTokensByGrant(r)
      BY <2>1, <2>2, <2>5 DEF RevokeAccessTokensByGrant
    <2>6. QED BY <1>8, <2>3, <2>4, <2>5 DEF RevokeRefreshTokensByGrant
  <1>9. QED BY <1>4, <1>5, <1>6, <1>7, <1>8 DEF Redeem

\* The UPDATE of the access tokens leaves none of the grant live.
LEMMA AccessUpdateRevokes ==
    ASSUME TypeOK, NEW g \in Grants, accessTokens' = RevokeByGrant(accessTokens, g)
    PROVE  \A a \in Of(accessTokens, g) : accessTokens'[a].revoked
  BY DEF TypeOK, Of, RevokeByGrant, AccessTokenRow

\* The UPDATE of the refresh tokens leaves none of the grant live.
LEMMA RefreshUpdateRevokes ==
    ASSUME TypeOK, NEW g \in Grants, refreshTokens' = RevokeByGrant(refreshTokens, g)
    PROVE  \A x \in Of(refreshTokens, g) : refreshTokens'[x].revoked
  BY DEF TypeOK, Of, RevokeByGrant, RefreshTokenRow

\* A step of the requests that write keeps the calm cascades calm.
LEMMA CalmStep ==
    ASSUME LifecycleInv, CalmInv, [ReadersNext]_readerVars
    PROVE  CalmInv'
  <1>1. CASE Next /\ NoteCalm
    <2>a. TypeOK /\ TypeOK' /\ RowsPersist /\ LifecycleInv'
      BY <1>1, InvariantStep, WritersKeepRows DEF LifecycleInv
    <2>1. ASSUME NEW r \in Requests, req'[r].pc \in CascadeSteps, r \in calm \/ (req[r].pc = "codes.select" /\ Sealed(req[r].grant))
          PROVE  \E g \in Grants : /\ g = req'[r].grant /\ Sealed(g)'
                                   /\ req'[r].pc = "rt.revokeByGrant" => AccessTokensRevoked(g)'
      <3>1. PICK g : g = req[r].grant
        OBVIOUS
      <3>2. g \in Grants /\ Sealed(g)
        <4>1. RequestHolds(r)
          BY DEF LifecycleInv
        <4>2. QED BY <2>1, <3>1, <4>1 DEF CalmInv, RequestHolds, ReplaySteps
      <3>3. Sealed(g)' /\ UNCHANGED TokensOf(g)
        BY <1>1, <3>2, SealedKept
      <3>4. Of(accessTokens, g)' = Of(accessTokens, g)
        BY <3>3 DEF TokensOf
      <3>5. CASE req'[r] = req[r]
        <4>1. req[r].pc # "codes.select"
          BY <2>1, <3>5 DEF CascadeSteps
        <4>2. req'[r].pc = "rt.revokeByGrant" => AccessTokensRevoked(g)
          BY <2>1, <3>1, <3>5, <4>1 DEF CalmInv
        <4>3. AccessTokensRevoked(g) => AccessTokensRevoked(g)'
          BY <2>a, <3>4 DEF AccessTokensRevoked, RowsPersist, Of, TypeOK
        <4>4. QED BY <3>1, <3>2, <3>3, <3>5, <4>2, <4>3
      <3>6. CASE req'[r] # req[r]
        <4>1. Step(r)
          <5>1. PICK q \in Requests : Step(q)
            BY <1>1, <3>6 DEF Next, Tick
          <5>2. NewPosition(q)
            BY <5>1, StepFacts
          <5>3. QED BY <3>6, <5>1, <5>2, <2>1 DEF NewPosition
        <4>2. /\ req'[r].grant = g
              /\ req'[r].pc = "rt.revokeByGrant" => RevokeAccessTokensByGrant(r)
          BY <2>a, <2>1, <3>1, <4>1, CascadeMoves
        <4>3. RevokeAccessTokensByGrant(r) => AccessTokensRevoked(g)'
          BY <2>a, <3>1, <3>2, <3>4, AccessUpdateRevokes DEF RevokeAccessTokensByGrant, AccessTokensRevoked
        <4>4. QED BY <3>2, <3>3, <4>2, <4>3
      <3>7. QED BY <3>5, <3>6
    <2>2. \A r \in calm' : /\ r \in Requests /\ req'[r].pc \in CascadeSteps
                           /\ r \in calm \/ (req[r].pc = "codes.select" /\ Sealed(req[r].grant))
      BY <1>1 DEF NoteCalm, ReplaySteps, CascadeSteps
    <2>3. ASSUME NEW r \in calm'
          PROVE  /\ r \in Requests /\ req'[r].pc \in CascadeSteps
                 /\ req'[r].grant \in Grants /\ Sealed(req[r].grant)'
                 /\ req'[r].pc = "rt.revokeByGrant" => AccessTokensRevoked(req[r].grant)'
      <3>1. PICK g \in Grants : /\ g = req'[r].grant /\ Sealed(g)'
                                /\ req'[r].pc = "rt.revokeByGrant" => AccessTokensRevoked(g)'
        BY <2>1, <2>2, <2>3
      <3>2. QED BY <2>2, <2>3, <3>1 DEF Sealed, AccessTokensRevoked, Of
    <2>4. QED BY <2>3 DEF CalmInv
  <1>2. CASE UNCHANGED <<vars, calm>>
    BY <1>2 DEF CalmInv, Sealed, AccessTokensRevoked, Of, vars, tables
  <1>3. QED BY <1>1, <1>2 DEF ReadersNext, readerVars

\* A replay cascade that runs to its end over a sealed grant leaves no live
\* token of it, whatever an earlier cascade left behind when it died.
THEOREM RetryCompletes == ReadersSpec => RetryCompletesCascade
  <1>1. ReadersInit => CalmInv
    BY DEF ReadersInit, CalmInv
  <1>2. ReadersInv => LifecycleInv
    BY DEF ReadersInv
  <1>3. LifecycleInv /\ CalmInv /\ [ReadersNext]_readerVars => CalmInv'
    BY CalmStep
  <1>4. ASSUME LifecycleInv, CalmInv, NEW r \in calm, RevokeRefreshTokensByGrant(r)
        PROVE  LET g == req[r].grant IN
               /\ \A a \in Of(accessTokens, g) : accessTokens'[a].revoked
               /\ \A x \in Of(refreshTokens, g) : refreshTokens'[x].revoked
    <2>1. PICK g : g = req[r].grant
      OBVIOUS
    <2>2. g \in Grants /\ AccessTokensRevoked(g) /\ accessTokens' = accessTokens
      BY <1>4, <2>1 DEF CalmInv, RevokeRefreshTokensByGrant
    <2>3. \A x \in Of(refreshTokens, g) : refreshTokens'[x].revoked
      BY <1>4, <2>1, <2>2, RefreshUpdateRevokes DEF RevokeRefreshTokensByGrant, LifecycleInv
    <2>4. QED BY <2>1, <2>2, <2>3 DEF AccessTokensRevoked
  <1>5. LifecycleInv /\ CalmInv /\ [ReadersNext]_readerVars =>
          [\A r \in calm : RevokeRefreshTokensByGrant(r) =>
              LET g == req[r].grant IN
              /\ \A a \in Of(accessTokens, g) : accessTokens'[a].revoked
              /\ \A x \in Of(refreshTokens, g) : refreshTokens'[x].revoked]_readerVars
    BY <1>4
  <1>6. QED BY <1>1, <1>2, <1>3, <1>5, ReadersInvariant, PTL DEF ReadersSpec, RetryCompletesCascade


=============================================================================
