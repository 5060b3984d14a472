---------------------------- MODULE TokenReaders ----------------------------
(***************************************************************************)
(* TokenLifecycle with the requests that only read: POST /introspect       *)
(* (endpoints/introspect.ts) and the userinfo endpoint, which is the       *)
(* resource server (endpoints/userinfo.ts).  Both look a token up, and     *)
(* what they hold afterwards is a copy of its row: issuance, replay and    *)
(* revocation go on while they await the lookup and the DPoP proof.        *)
(*                                                                         *)
(* resolveToken tries both kinds in the order of the hint and an access    *)
(* token is never found as a refresh token or the other way round, so one  *)
(* statement, on the token's own table, decides.  A server that does not   *)
(* know the key of an access token answers "inactive" or the challenge     *)
(* without a lookup; that changes nothing and is not a step.               *)
(***************************************************************************)
EXTENDS TokenLifecycle

CONSTANT Readers       \* reading requests in flight at the same time

ASSUME ReadersOK == Null \notin Readers

VARIABLES
    reader,            \* the reading requests
    calm               \* cascades that found their grant already sealed

readerVars == <<vars, reader, calm>>

TokenRow == AccessTokenRow \cup RefreshTokenRow

\* before: the token's revocation had been carried out and answered when its
\* row was read.
Reader == [pc : {"check", "proof", "active"}, at : {"introspection", "userinfo"},
           client : Clients \cup {Null}, jkt : Keys \cup {Null},
           token : AccessTokens \cup RefreshTokens,
           row : TokenRow, before : BOOLEAN]

ReadersInit ==
    /\ Init
    /\ reader = [q \in Readers |-> Null]
    /\ calm = {}

Reads(q, pc) == reader[q] # Null /\ reader[q].pc = pc
Proceed(q, pc) == reader' = [reader EXCEPT ![q].pc = pc]
Answered(q) == reader' = [reader EXCEPT ![q] = Null]

-----------------------------------------------------------------------------
(* The answer "inactive" (introspection) and the challenge (userinfo) end  *)
(* a reading request; "active" is the answer with the token's data.        *)

\* The lookup by findByJti or findByHash, with the arrival of the request.
Find(q, at, c, x, row) ==
    /\ reader[q] = Null
    /\ x \in sent
    /\ reader' = [reader EXCEPT ![q] =
          [pc |-> "check", at |-> at, client |-> c, jkt |-> Null, token |-> x,
           row |-> row, before |-> x \in confirmed]]

\* An authenticated client introspects a token, its own or not.
Introspect(q) ==
    \E c \in Clients :
        \/ \E a \in AccessTokens : Find(q, "introspection", c, a, accessTokens[a])
        \/ \E x \in RefreshTokens : Find(q, "introspection", c, x, refreshTokens[x])

\* Whoever has an access token presents it to the userinfo endpoint.
Present(q) == \E a \in AccessTokens : Find(q, "userinfo", Null, a, accessTokens[a])

\* Mutant: only the expiry of the row is looked at.
UnexpiredRow(row) == row.expiresAt > clock

\* The state check of both endpoints, against the copy.
LiveRow(row) == ~row.revoked /\ row.expiresAt > clock

\* Mutant: the owner of the token is not compared with the client.
CheckAnyOwner(q) ==
    /\ Reads(q, "check") /\ reader[q].at = "introspection"
    /\ IF LiveRow(reader[q].row) THEN Proceed(q, "active") ELSE Answered(q)

CheckIntrospection(q) ==
    /\ Reads(q, "check") /\ reader[q].at = "introspection"
    /\ IF reader[q].row.clientId = reader[q].client /\ LiveRow(reader[q].row)
       THEN Proceed(q, "active")
       ELSE Answered(q)

CheckUserinfo(q) ==
    /\ Reads(q, "check") /\ reader[q].at = "userinfo"
    /\ IF LiveRow(reader[q].row) THEN Proceed(q, "proof") ELSE Answered(q)

\* Mutant: a valid proof is enough, whatever key it was made with.
AnyProof(q, k) ==
    /\ Reads(q, "proof")
    /\ reader' = [reader EXCEPT ![q].pc = "active", ![q].jkt = k]

\* verifyDpopProof has awaited and found a proof by key k; the row is not read
\* again.
VerifyProof(q, k) ==
    /\ Reads(q, "proof")
    /\ IF k = reader[q].row.cnfJkt
       THEN reader' = [reader EXCEPT ![q].pc = "active", ![q].jkt = k]
       ELSE Answered(q)

\* A lookup or the proof fails, or the answer "active" is sent.
Leave(q) == reader[q] # Null /\ Answered(q)

Read(q) ==
    \/ Introspect(q) \/ CheckIntrospection(q)
    \/ Present(q) \/ CheckUserinfo(q) \/ (\E k \in Keys : VerifyProof(q, k))
    \/ Leave(q)

\* History: the cascades whose SELECT found a revoked grant with no request
\* left that could still insert a token, which is what a retry after a cascade
\* that died half-way finds.
NoteCalm ==
    calm' = {r \in Requests :
                /\ req'[r].pc \in ReplaySteps \ {"codes.select"}
                /\ r \in calm \/ (req[r].pc = "codes.select" /\ Sealed(req[r].grant))}

ReadersNext ==
    \/ Next /\ NoteCalm /\ UNCHANGED reader
    \/ \E q \in Readers : Read(q) /\ UNCHANGED <<vars, calm>>

ReadersSpec == ReadersInit /\ [][ReadersNext]_readerVars

-----------------------------------------------------------------------------
(* Properties.                                                             *)

\* The requests that read, and the rows they hold, have their types.
ReadersTypeOK ==
    /\ reader \in [Readers -> Reader \cup {Null}]
    /\ calm \subseteq Requests

\* RFC 7009 and RFC 7662 together: once a revocation was carried out and its
\* owner answered 200, no request that is looked up later is answered with the
\* token's data, whatever was in flight meanwhile.  The 200 of a server that
\* does not know the token's key (AnswerUnknown) promises nothing of the kind;
\* LoadedServersVerify of KeyStore says which servers know it.
NotActiveOnceRevoked ==
    \A q \in Readers : Reads(q, "active") => ~reader[q].before

\* Whoever is answered may be: introspection serves the client of the grant
\* only, userinfo the holder of the key that the code was pinned to when the
\* request was pushed, unless the client has refreshed with another key since,
\* and both speak of the grant's own subject and scope.
AnswersWithinGrant ==
    \A q \in Readers : Reads(q, "active") =>
        LET row == reader[q].row  g == row.grantId IN
        /\ reader[q].at = "introspection" => grants[g].clientId = reader[q].client
        /\ reader[q].at = "userinfo" =>
            /\ grants[g].subject = row.subject
            /\ \/ codes[g].dpopJkt \in {Null, reader[q].jkt}
               \/ Of(refreshTokens, g) # {}
        /\ row.scope \subseteq grants[g].scope

\* The replay cascade is three statements and may die between them; nothing
\* reads the grant when a token is presented, so what it left behind is live.
\* But the code stays consumed and the next replay starts the cascade again:
\* one that runs to its end with no exchange in flight leaves no live token of
\* the grant, however often the cascade failed before.
RetryCompletesCascade ==
    [][\A r \in calm : RevokeRefreshTokensByGrant(r) =>
        LET g == req[r].grant IN
        /\ \A a \in Of(accessTokens, g) : accessTokens'[a].revoked
        /\ \A x \in Of(refreshTokens, g) : refreshTokens'[x].revoked]_readerVars

=============================================================================
