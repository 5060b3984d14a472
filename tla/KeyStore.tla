------------------------------ MODULE KeyStore ------------------------------
(***************************************************************************)
(* The signing keys: table signing_keys, the KeyStore that every server    *)
(* process loads lazily on first use and then keeps, and the rotation CLI, *)
(* a process of its own that loads a KeyStore and calls rotate().          *)
(*                                                                         *)
(* One action per await on the table.  The partial unique index            *)
(* signing_keys_one_active_idx makes an insert of a second active row      *)
(* fail, so a list never returns two active rows and init has nothing to   *)
(* heal.  Loading and decrypting a key may fail; that is Fail.             *)
(***************************************************************************)
EXTENDS Naturals, FiniteSets

CONSTANTS
    Servers,           \* server processes
    Rotators,          \* runs of npm run keys:rotate
    Kids,              \* key ids (thumbprints of generated keys)
    TokenTtl,          \* ACCESS_TOKEN_TTL_SEC, at most 24h
    Retention,         \* RETIRED_KEY_RETENTION_MS, 24h
    MaxTime,           \* bound on the clock
    Null

ASSUME KeyConstantsOK ==
    /\ Servers \cap Rotators = {}
    /\ TokenTtl \in Nat \ {0} /\ Retention \in Nat /\ TokenTtl <= Retention
    /\ MaxTime \in Nat
    /\ Null \notin Nat \cup Kids

VARIABLES
    clock,
    rows,              \* table signing_keys
    mem,               \* each process's KeyStore
    tokens             \* signed tokens that have not expired

vars == <<clock, rows, mem, tokens>>

Processes == Servers \cup Rotators

\* retiredAt = Null is an active key.
KeyRow == [retiredAt : Nat \cup {Null}]
Table == [Kids -> KeyRow \cup {Null}]

ASSUME NullIsNoKeyRow == Null \notin KeyRow

\* "up": ensure() has resolved.  "done": the CLI has ended.
\* listed (history): the active key came with the list that ensure() loaded.
Memory == [pc : {"down", "insert", "adopt", "up", "done"}, rotating : BOOLEAN,
           listed : BOOLEAN, keys : Table, active : Kids \cup {Null}]

\* late: signed when the key was already retired in the table.
Token == [kid : Kids, exp : Nat, late : BOOLEAN]

\* The key table, the loaded keystores and the tokens have their types.
TypeOK ==
    /\ clock \in Nat
    /\ rows \in Table
    /\ mem \in [Processes -> Memory]
    /\ tokens \subseteq Token

NoKeys == [k \in Kids |-> Null]
Unloaded == [pc |-> "down", rotating |-> FALSE, listed |-> FALSE, keys |-> NoKeys, active |-> Null]
Exited == [Unloaded EXCEPT !.pc = "done"]

Init ==
    /\ clock = 0
    /\ rows = NoKeys
    /\ mem = [p \in Processes |-> Unloaded]
    /\ tokens = {}

-----------------------------------------------------------------------------
Active(table) == {k \in Kids : table[k] # Null /\ table[k].retiredAt = Null}

\* The active key of a list, or none.
ActiveKey(table) == IF Active(table) = {} THEN Null
                    ELSE CHOOSE k \in Active(table) : TRUE

NewKid(k) == rows[k] = Null /\ \A p \in Processes : mem[p].keys[k] = Null

\* Mutant: a retired key leaves the JWKS at once.
PublishedActive(p) ==
    {k \in Kids : mem[p].keys[k] # Null /\ mem[p].keys[k].retiredAt = Null}

\* publicJwks: what is active in memory, or retired for less than Retention.
Published(p) ==
    {k \in Kids :
        /\ mem[p].keys[k] # Null
        /\ \/ mem[p].keys[k].retiredAt = Null
           \/ clock - mem[p].keys[k].retiredAt < Retention}

\* A finished rotate() ends the CLI, but leaves a booting process up and
\* signing with the key k of the row it inserted or adopted.
Settle(p, k, row) ==
    mem' = [mem EXCEPT ![p] =
        IF @.rotating THEN Exited
        ELSE [@ EXCEPT !.pc = "up", !.keys[k] = row, !.active = k]]

-----------------------------------------------------------------------------
\* What init() makes of a list of the table: sign with the active key; on first
\* boot there is none and it goes on to rotate().
Listed(table) ==
    LET first == Active(table) = {} IN
    [pc |-> IF first THEN "insert" ELSE "up", rotating |-> FALSE,
     listed |-> ~first, keys |-> table, active |-> ActiveKey(table)]

\* Mutant: only the active row is listed.
LoadActive(p) ==
    /\ mem[p].pc = "down"
    /\ mem' = [mem EXCEPT ![p] =
          Listed([k \in Kids |-> IF k \in Active(rows) THEN rows[k] ELSE Null])]
    /\ UNCHANGED <<clock, rows, tokens>>

\* ensure() and init(): all rows are loaded, the retired ones too.
Load(p) ==
    /\ mem[p].pc = "down"
    /\ mem' = [mem EXCEPT ![p] = Listed(rows)]
    /\ UNCHANGED <<clock, rows, tokens>>

\* Mutant: the end of the retention is stored in place of its start, counted
\* the wrong way.
RetireBackdated(p) ==
    LET k == mem[p].active IN
    /\ p \in Rotators
    /\ mem[p].pc = "up"
    /\ rows' = [rows EXCEPT ![k].retiredAt = clock - Retention]
    /\ mem' = [mem EXCEPT ![p].keys[k].retiredAt = clock - Retention,
                          ![p].rotating = TRUE, ![p].pc = "insert"]
    /\ UNCHANGED <<clock, tokens>>

\* rotate() of the CLI: retire the key that this process loaded as active, in
\* the table and in memory, whatever the table says by now.
Retire(p) ==
    LET k == mem[p].active IN
    /\ p \in Rotators
    /\ mem[p].pc = "up"
    /\ rows' = [rows EXCEPT ![k].retiredAt = clock]
    /\ mem' = [mem EXCEPT ![p].keys[k].retiredAt = clock,
                          ![p].rotating = TRUE, ![p].pc = "insert"]
    /\ UNCHANGED <<clock, tokens>>

\* Mutant: no unique index on active keys.
InsertSecondKey(p, k) ==
    /\ mem[p].pc = "insert"
    /\ NewKid(k)
    /\ rows' = [rows EXCEPT ![k] = [retiredAt |-> Null]]
    /\ Settle(p, k, rows'[k])
    /\ UNCHANGED <<clock, tokens>>

\* The new key is signed with only after its row is stored.
InsertKey(p, k) ==
    /\ mem[p].pc = "insert"
    /\ NewKid(k)
    /\ Active(rows) = {}
    /\ rows' = [rows EXCEPT ![k] = [retiredAt |-> Null]]
    /\ Settle(p, k, rows'[k])
    /\ UNCHANGED <<clock, tokens>>

\* Mutant: a server that lost the race goes on with the key it could not store.
KeepUnstoredKey(p) ==
    /\ p \in Servers
    /\ mem[p].pc = "insert"
    /\ Active(rows) # {}
    /\ \E k \in Kids : NewKid(k) /\ Settle(p, k, [retiredAt |-> Null])
    /\ UNCHANGED <<clock, rows, tokens>>

\* Unique violation: another process won the race, look for its key.
LoseRace(p) ==
    /\ mem[p].pc = "insert"
    /\ Active(rows) # {}
    /\ mem' = [mem EXCEPT ![p].pc = "adopt"]
    /\ UNCHANGED <<clock, rows, tokens>>

\* The winner may be retired by now: then rotate() throws.
Adopt(p) ==
    LET winner == ActiveKey(rows) IN
    /\ mem[p].pc = "adopt"
    /\ winner # Null
    /\ Settle(p, winner, rows[winner])
    /\ UNCHANGED <<clock, rows, tokens>>

\* A call fails or throws: a server tries init again on its next request, the
\* CLI ends.
Fail(p) ==
    /\ mem[p].pc \in {"insert", "adopt"} \/ (p \in Rotators /\ mem[p].pc = "up")
    /\ mem' = [mem EXCEPT ![p] = IF p \in Servers THEN Unloaded ELSE Exited]
    /\ UNCHANGED <<clock, rows, tokens>>

Restart(p) ==
    /\ p \in Servers
    /\ mem[p] # Unloaded
    /\ mem' = [mem EXCEPT ![p] = Unloaded]
    /\ UNCHANGED <<clock, rows, tokens>>

\* signJwt with the active key of this process.
Sign(p) ==
    LET k == mem[p].active IN
    /\ p \in Servers
    /\ mem[p].pc = "up"
    /\ tokens' = tokens \cup {[kid |-> k, exp |-> clock + TokenTtl,
                               late |-> rows[k] # Null /\ rows[k].retiredAt # Null]}
    /\ UNCHANGED <<clock, rows, mem>>

Tick ==
    /\ clock < MaxTime
    /\ clock' = clock + 1
    /\ tokens' = {t \in tokens : t.exp > clock'}
    /\ UNCHANGED <<rows, mem>>

Next ==
    \/ Tick
    \/ \E p \in Processes :
        \/ Load(p) \/ Retire(p) \/ LoseRace(p) \/ Adopt(p) \/ Fail(p) \/ Restart(p) \/ Sign(p)
        \/ \E k \in Kids : InsertKey(p, k)

Spec == Init /\ [][Next]_vars

-----------------------------------------------------------------------------
(* Properties.                                                             *)

\* A crash never loses a signing key: the key of every live token is in the table,
\* so a process that starts later can publish it.
SignedKeysStored ==
    \A t \in tokens : rows[t.kid] # Null

\* However the boots of servers and CLI runs race, servers that are up sign
\* with the same key unless the key of one of them was retired since.
BootAgreement ==
    \A p, q \in Servers :
        mem[p].pc = "up" /\ mem[q].pc = "up" /\ mem[p].active # mem[q].active =>
            \E k \in {mem[p].active, mem[q].active} : rows[k].retiredAt # Null

\* A server publishes a loaded key at least until the last token that was
\* signed before its retirement has expired.
RetentionSuffices ==
    \A p \in Servers, t \in tokens :
        mem[p].pc = "up" /\ mem[p].keys[t.kid] # Null /\ ~t.late =>
            t.kid \in Published(p)

\* keys-rotate.ts: the previous key "remains published", so that outstanding tokens
\* verify.  A server whose key is the one in force, and was there when it loaded,
\* verifies every token that any server signed with a key in force, however many
\* rotations lie between; only a server that runs since before the last rotation,
\* or that stored or adopted the key itself, may lack the key of another's token.
LoadedServersVerify ==
    \A p \in Servers, t \in tokens :
        mem[p].pc = "up" /\ mem[p].listed /\ rows[mem[p].active].retiredAt = Null /\ ~t.late =>
            t.kid \in Published(p)

\* The comment on ACCESS_TOKEN_TTL_SEC: it is capped so that retired keys can
\* safely age out of the JWKS after every signed token expired.
AgeOutSafe ==
    \A p \in Servers, t \in tokens :
        mem[p].pc = "up" /\ mem[p].keys[t.kid] # Null =>
            t.kid \in Published(p)

=============================================================================
