-------------------------- MODULE DeploymentProofs --------------------------
(***************************************************************************)
(* The keystore keeps every signing key it ever signed with, servers agree *)
(* after a racing boot, and retirement leaves tokens time to expire, for   *)
(* any number of servers, rotations and keys; migrations stay in order for *)
(* any number of files and runs; and both hold when they share a database. *)
(***************************************************************************)
EXTENDS Deployment, TLAPS

-----------------------------------------------------------------------------
(* The keystore.                                                           *)

\* A loaded keystore m is backed by the table rws: an active key that is
\* stored, and a copy is retired only if its row is, and not before the last
\* of the tokens toks was signed with it in good time.  While the active key that
\* came with a list is in force, no row has been added that the list lacked.
MemHolds(m, rws, toks) ==
    /\ m.pc = "up" => /\ m.active \in Kids
                      /\ rws[m.active] \in KeyRow
                      /\ m.keys[m.active] \in KeyRow
    /\ \A k \in Kids : m.keys[k] \in KeyRow /\ m.keys[k].retiredAt # Null =>
        /\ rws[k] \in KeyRow
        /\ rws[k].retiredAt # Null
        /\ \A t \in toks : t.kid = k /\ ~t.late => t.exp - TokenTtl <= m.keys[k].retiredAt
    /\ m.pc \in {"insert", "adopt"} /\ ~m.rotating => ~m.listed
    /\ m.pc = "up" /\ m.listed /\ rws[m.active].retiredAt = Null =>
        \A k \in Kids : rws[k] \in KeyRow => m.keys[k] \in KeyRow

\* A token t that lives at c has its key in rws, retired no sooner than t was
\* signed.
TokenHolds(t, rws, c) ==
    /\ rws[t.kid] \in KeyRow
    /\ c < t.exp /\ t.exp <= c + TokenTtl
    /\ ~t.late /\ rws[t.kid].retiredAt # Null => t.exp - TokenTtl <= rws[t.kid].retiredAt

UniqueActive(rws) == \A j, k \in Active(rws) : j = k

KeyInv ==
    /\ TypeOK
    /\ UniqueActive(rows)
    /\ \A p \in Processes : MemHolds(mem[p], rows, tokens)
    /\ \A t \in tokens : TokenHolds(t, rows, clock)

\* Rows stay, a retired key stays retired, and none is added beside a key that
\* stays in force.
RowsKept ==
    \A k \in Kids : rows[k] \in KeyRow =>
        /\ rows'[k] \in KeyRow
        /\ rows[k].retiredAt # Null => rows'[k].retiredAt # Null
        /\ rows'[k].retiredAt = Null => \A j \in Kids : rows'[j] \in KeyRow => rows[j] \in KeyRow

\* A keystore that was backed by the table stays so.
LEMMA MemKept ==
    ASSUME NEW m \in Memory, MemHolds(m, rows, tokens), RowsKept, tokens' \subseteq tokens
    PROVE  MemHolds(m, rows', tokens')
  BY DEF MemHolds, RowsKept, Memory

\* What an active key of a table is.
LEMMA ActiveKeyFacts ==
    ASSUME NEW table \in Table
    PROVE  /\ Active(table) # {} =>
                /\ ActiveKey(table) \in Kids
                /\ table[ActiveKey(table)] \in KeyRow
                /\ table[ActiveKey(table)].retiredAt = Null
           /\ Active(table) = {} => ActiveKey(table) = Null
  BY DEF Active, ActiveKey, Table

\* A step that changes the keystore of one process only.
LEMMA OneProcess ==
    ASSUME KeyInv, NEW p \in Processes, NEW m \in Memory, mem' = [mem EXCEPT ![p] = m],
           MemHolds(m, rows', tokens'), RowsKept, tokens' \subseteq tokens
    PROVE  /\ mem' \in [Processes -> Memory]
           /\ \A q \in Processes : MemHolds(mem'[q], rows', tokens')
  <1>1. mem \in [Processes -> Memory] /\ \A q \in Processes : MemHolds(mem[q], rows, tokens)
    BY DEF KeyInv, TypeOK
  <1>2. mem' \in [Processes -> Memory]
    BY <1>1
  <1>3. ASSUME NEW q \in Processes
        PROVE  MemHolds(mem'[q], rows', tokens')
    <2>1. CASE q = p
      BY <1>1, <2>1
    <2>2. CASE q # p
      <3>1. mem'[q] = mem[q] /\ mem[q] \in Memory
        BY <1>1, <2>2
      <3>2. QED BY <1>1, <3>1, MemKept
    <2>3. QED BY <2>1, <2>2
  <1>4. QED BY <1>2, <1>3

\* A keystore that is not loaded holds nothing.
LEMMA UnloadedHolds ==
    /\ Unloaded \in Memory /\ Exited \in Memory
    /\ \A rws, toks : MemHolds(Unloaded, rws, toks) /\ MemHolds(Exited, rws, toks)
  <1>1. Unloaded \in Memory /\ Exited \in Memory
    BY DEF Unloaded, Exited, Memory, NoKeys, Table
  <1>2. \A k \in Kids : Unloaded.keys[k] \notin KeyRow /\ Exited.keys[k] \notin KeyRow
    BY NullIsNoKeyRow DEF Unloaded, Exited, NoKeys
  <1>3. Unloaded.pc = "down" /\ Exited.pc = "done"
    BY DEF Unloaded, Exited
  <1>4. QED BY <1>1, <1>2, <1>3 DEF MemHolds

\* Where a finished rotate() leaves the process: ended, or up with a key that
\* is in the table and active.
LEMMA SettleStep ==
    ASSUME KeyInv, NEW p \in Processes, NEW k \in Kids, NEW row \in KeyRow,
           mem[p].pc \in {"insert", "adopt"}, Settle(p, k, row), row.retiredAt = Null,
           rows'[k] \in KeyRow, RowsKept,
           tokens' \subseteq tokens
    PROVE  /\ mem' \in [Processes -> Memory]
           /\ \A q \in Processes : MemHolds(mem'[q], rows', tokens')
  <1> DEFINE m == [mem[p] EXCEPT !.pc = "up", !.keys[k] = row, !.active = k]
  <1>1. mem[p] \in Memory /\ MemHolds(mem[p], rows', tokens')
    BY MemKept DEF KeyInv, TypeOK
  <1>2. CASE mem[p].rotating
    <2>1. mem' = [mem EXCEPT ![p] = Exited]
      BY <1>2 DEF Settle
    <2>2. QED BY <2>1, UnloadedHolds, OneProcess
  <1>3. CASE ~mem[p].rotating
    <2>1. mem' = [mem EXCEPT ![p] = m]
      BY <1>3 DEF Settle
    <2>2. m \in Memory
      BY <1>1 DEF Memory, Table
    <2>3. /\ m.pc = "up" /\ ~m.listed /\ m.active = k /\ m.keys[k] = row
          /\ \A j \in Kids \ {k} : m.keys[j] = mem[p].keys[j]
      BY <1>1, <1>3 DEF Memory, Table, MemHolds
    <2> HIDE DEF m
    <2>4. MemHolds(m, rows', tokens')
      BY <1>1, <2>3 DEF MemHolds
    <2>5. QED BY <2>1, <2>2, <2>4, OneProcess
  <1>4. QED BY <1>2, <1>3

\* Tokens that are left over keep their keys when no row is retired.
LEMMA TokensKept ==
    ASSUME KeyInv, tokens' \subseteq tokens, RowsKept,
           \A k \in Kids : rows[k] \in KeyRow => rows'[k] = rows[k]
    PROVE  \A t \in tokens' : TokenHolds(t, rows', clock)
  <1>1. \A t \in tokens' : t.kid \in Kids /\ TokenHolds(t, rows, clock)
    BY DEF KeyInv, TypeOK, Token
  <1>2. QED BY <1>1 DEF TokenHolds

\* Loading the table.
LEMMA LoadStep ==
    ASSUME KeyInv, NEW p \in Processes, Load(p)
    PROVE  KeyInv'
  <1> DEFINE m == Listed(rows)
  <1>1. mem' = [mem EXCEPT ![p] = m] /\ UNCHANGED <<clock, rows, tokens>>
    BY DEF Load
  <1>2. TypeOK /\ rows \in Table /\ RowsKept
    BY <1>1 DEF KeyInv, TypeOK, RowsKept
  <1>3. m \in Memory
    BY <1>2, ActiveKeyFacts DEF Memory, Listed
  <1>4. \A t \in tokens : TokenHolds(t, rows, clock)
    BY DEF KeyInv
  <1>5. MemHolds(m, rows, tokens)
    BY <1>2, <1>4, ActiveKeyFacts DEF MemHolds, TokenHolds, Listed
  <1> HIDE DEF m
  <1>6. /\ mem' \in [Processes -> Memory]
        /\ \A q \in Processes : MemHolds(mem'[q], rows', tokens')
    BY <1>1, <1>2, <1>3, <1>5, OneProcess
  <1>7. QED BY <1>1, <1>2, <1>4, <1>6 DEF KeyInv, TypeOK

\* Retiring the key that was loaded as active.
LEMMA RetireStep ==
    ASSUME KeyInv, NEW p \in Processes, Retire(p)
    PROVE  KeyInv'
  <1> DEFINE k == mem[p].active
             m == [mem[p] EXCEPT !.keys[k].retiredAt = clock, !.rotating = TRUE, !.pc = "insert"]
  <1>a. /\ TypeOK /\ UniqueActive(rows) /\ mem[p] \in Memory /\ clock \in Nat /\ rows \in Table
        /\ mem[p].pc = "up" /\ tokens \subseteq Token
        /\ \A t \in tokens : TokenHolds(t, rows, clock)
        /\ MemHolds(mem[p], rows, tokens)
    BY DEF KeyInv, TypeOK, Retire
  <1>b. k \in Kids /\ rows[k] \in KeyRow /\ mem[p].keys[k] \in KeyRow
    BY <1>a DEF MemHolds
  <1>1. /\ rows' = [rows EXCEPT ![k].retiredAt = clock]
        /\ UNCHANGED <<clock, tokens>>
    BY DEF Retire
  <1>2. mem' = [mem EXCEPT ![p] = m]
    BY <1>a DEF Retire, KeyInv, TypeOK
  <1>c. clock # Null
    BY <1>a, KeyConstantsOK
  <1>3. m \in Memory
    BY <1>a, <1>b DEF Memory, Table, KeyRow
  <1>4. /\ m.pc = "insert" /\ m.rotating /\ m.keys[k].retiredAt = clock
        /\ \A j \in Kids \ {k} : m.keys[j] = mem[p].keys[j]
    BY <1>a, <1>b DEF Memory, Table, KeyRow
  <1> HIDE DEF m, k
  <1>5. /\ rows' \in Table
        /\ rows'[k] \in KeyRow /\ rows'[k].retiredAt = clock
        /\ \A j \in Kids \ {k} : rows'[j] = rows[j]
    BY <1>a, <1>b, <1>1 DEF Table, KeyRow
  <1>6. RowsKept
    BY <1>b, <1>c, <1>5 DEF RowsKept
  <1>7. \A t \in tokens : t.exp \in Nat /\ t.kid \in Kids /\ t.exp - TokenTtl <= clock
    BY <1>a, KeyConstantsOK DEF Token, TokenHolds
  <1>8. MemHolds(m, rows', tokens')
    BY <1>a, <1>c, <1>1, <1>4, <1>5, <1>7 DEF MemHolds
  <1>9. /\ mem' \in [Processes -> Memory]
        /\ \A q \in Processes : MemHolds(mem'[q], rows', tokens')
    BY <1>1, <1>2, <1>3, <1>6, <1>8, OneProcess
  <1>10. \A t \in tokens' : TokenHolds(t, rows', clock')
    BY <1>a, <1>1, <1>5, <1>7 DEF TokenHolds
  <1>11. UniqueActive(rows')
    <2>1. Active(rows') \subseteq Active(rows)
      BY <1>a, <1>b, <1>c, <1>5, NullIsNoKeyRow DEF Active
    <2>2. QED BY <2>1, <1>a DEF UniqueActive
  <1>12. QED BY <1>a, <1>1, <1>5, <1>9, <1>10, <1>11 DEF KeyInv, TypeOK

\* Storing a new key and signing with it from now on.
LEMMA InsertStep ==
    ASSUME KeyInv, NEW p \in Processes, NEW k \in Kids, InsertKey(p, k)
    PROVE  KeyInv'
  <1> DEFINE row == [retiredAt |-> Null]
  <1>a. TypeOK /\ rows \in Table /\ \A t \in tokens : TokenHolds(t, rows, clock)
    BY DEF KeyInv, TypeOK
  <1>1. /\ rows' = [rows EXCEPT ![k] = row] /\ rows[k] = Null /\ Active(rows) = {}
        /\ UNCHANGED <<clock, tokens>>
    BY DEF InsertKey, NewKid
  <1>2. row \in KeyRow /\ row.retiredAt = Null
    BY DEF KeyRow
  <1> HIDE DEF row
  <1>3. /\ rows' \in Table /\ rows'[k] = row
        /\ \A j \in Kids \ {k} : rows'[j] = rows[j]
    BY <1>a, <1>1, <1>2 DEF Table
  <1>4. Settle(p, k, row)
    BY <1>3 DEF InsertKey
  <1>5. rows[k] \notin KeyRow
    BY <1>1, NullIsNoKeyRow
  <1>6. RowsKept /\ \A j \in Kids : rows[j] \in KeyRow => rows'[j] = rows[j]
    BY <1>1, <1>3, <1>5 DEF RowsKept, Active, KeyRow
  <1>7. /\ mem' \in [Processes -> Memory]
        /\ \A q \in Processes : MemHolds(mem'[q], rows', tokens')
    BY <1>1, <1>2, <1>3, <1>4, <1>6, SettleStep DEF InsertKey
  <1>8. \A t \in tokens' : TokenHolds(t, rows', clock)
    BY <1>1, <1>6, TokensKept
  <1>9. UniqueActive(rows')
    <2>1. Active(rows') \subseteq {k}
      BY <1>1, <1>3 DEF Active
    <2>2. QED BY <2>1 DEF UniqueActive
  <1>10. QED BY <1>a, <1>1, <1>3, <1>7, <1>8, <1>9 DEF KeyInv, TypeOK

\* Going on with the key of the process that won the race.
LEMMA AdoptStep ==
    ASSUME KeyInv, NEW p \in Processes, Adopt(p)
    PROVE  KeyInv'
  <1> DEFINE k == ActiveKey(rows)
  <1>a. TypeOK /\ rows \in Table /\ \A t \in tokens : TokenHolds(t, rows, clock)
    BY DEF KeyInv, TypeOK
  <1>1. k # Null /\ Settle(p, k, rows[k]) /\ UNCHANGED <<clock, rows, tokens>>
    BY DEF Adopt
  <1>2. k \in Kids /\ rows[k] \in KeyRow /\ rows[k].retiredAt = Null
    BY <1>a, <1>1, ActiveKeyFacts
  <1> HIDE DEF k
  <1>3. RowsKept
    BY <1>1 DEF RowsKept
  <1>4. /\ mem' \in [Processes -> Memory]
        /\ \A q \in Processes : MemHolds(mem'[q], rows', tokens')
    BY <1>1, <1>2, <1>3, SettleStep DEF Adopt
  <1>5. QED BY <1>a, <1>1, <1>4 DEF KeyInv, TypeOK

\* Losing the race, failing and restarting touch only the process itself.
LEMMA ProcessStep ==
    ASSUME KeyInv, NEW p \in Processes, LoseRace(p) \/ Fail(p) \/ Restart(p)
    PROVE  KeyInv'
  <1>a. /\ TypeOK /\ mem[p] \in Memory /\ MemHolds(mem[p], rows, tokens)
        /\ \A t \in tokens : TokenHolds(t, rows, clock)
    BY DEF KeyInv, TypeOK
  <1>1. UNCHANGED <<clock, rows, tokens>>
    BY DEF LoseRace, Fail, Restart
  <1>2. RowsKept
    BY <1>1 DEF RowsKept
  <1>3. CASE LoseRace(p)
    <2> DEFINE m == [mem[p] EXCEPT !.pc = "adopt"]
    <2>1. mem' = [mem EXCEPT ![p] = m]
      BY <1>3, <1>a DEF LoseRace, TypeOK
    <2>2. /\ m \in Memory /\ m.pc = "adopt" /\ m.keys = mem[p].keys /\ m.active = mem[p].active
          /\ m.rotating = mem[p].rotating /\ m.listed = mem[p].listed /\ mem[p].pc = "insert"
      BY <1>a, <1>3 DEF Memory, LoseRace
    <2> HIDE DEF m
    <2>3. MemHolds(m, rows', tokens')
      BY <1>a, <1>1, <2>2 DEF MemHolds
    <2>4. /\ mem' \in [Processes -> Memory]
          /\ \A q \in Processes : MemHolds(mem'[q], rows', tokens')
      BY <1>1, <1>2, <2>1, <2>2, <2>3, OneProcess
    <2>5. QED BY <1>a, <1>1, <2>4 DEF KeyInv, TypeOK
  <1>4. CASE Fail(p) \/ Restart(p)
    <2>1. mem' = [mem EXCEPT ![p] = Unloaded] \/ mem' = [mem EXCEPT ![p] = Exited]
      BY <1>4 DEF Fail, Restart
    <2>2. /\ mem' \in [Processes -> Memory]
          /\ \A q \in Processes : MemHolds(mem'[q], rows', tokens')
      BY <1>1, <1>2, <2>1, UnloadedHolds, OneProcess
    <2>3. QED BY <1>a, <1>1, <2>2 DEF KeyInv, TypeOK
  <1>5. QED BY <1>3, <1>4

\* Signing with the active key: a token is late if the key is retired by then;
\* otherwise no loaded copy of the key is retired either.
LEMMA SignStep ==
    ASSUME KeyInv, NEW p \in Processes, Sign(p)
    PROVE  KeyInv'
  <1> DEFINE k == mem[p].active
             t == [kid |-> k, exp |-> clock + TokenTtl,
                   late |-> rows[k] # Null /\ rows[k].retiredAt # Null]
  <1>a. /\ TypeOK /\ mem[p].pc = "up" /\ MemHolds(mem[p], rows, tokens)
        /\ \A x \in tokens : TokenHolds(x, rows, clock)
        /\ tokens' = tokens \cup {t} /\ UNCHANGED <<clock, rows, mem>>
        /\ clock \in Nat /\ tokens \subseteq Token
    BY DEF KeyInv, TypeOK, Sign
  <1>b. k \in Kids /\ rows[k] \in KeyRow
    BY <1>a DEF MemHolds
  <1> HIDE DEF k
  <1>1. t \in Token /\ t.kid = k /\ t.exp = clock + TokenTtl
        /\ t.late = (rows[k] # Null /\ rows[k].retiredAt # Null)
    BY <1>a, <1>b, KeyConstantsOK DEF Token
  <1> HIDE DEF t
  <1>2. ~t.late => rows[k].retiredAt = Null
    BY <1>b, <1>1, NullIsNoKeyRow
  <1>3. TokenHolds(t, rows, clock)
    BY <1>a, <1>b, <1>1, <1>2, KeyConstantsOK DEF TokenHolds
  <1>4. ASSUME NEW q \in Processes
        PROVE  MemHolds(mem[q], rows, tokens')
    <2>1. MemHolds(mem[q], rows, tokens)
      BY DEF KeyInv
    <2>2. QED BY <2>1, <1>a, <1>1, <1>2 DEF MemHolds
  <1>5. TypeOK'
    BY <1>a, <1>1 DEF TypeOK
  <1>6. QED BY <1>a, <1>3, <1>4, <1>5 DEF KeyInv

\* Time passes and expired tokens are gone.
LEMMA KeyTickStep ==
    ASSUME KeyInv, Tick
    PROVE  KeyInv'
  <1>1. /\ clock' = clock + 1 /\ tokens' = {t \in tokens : t.exp > clock'}
        /\ rows' = rows /\ mem' = mem
    BY DEF Tick
  <1>2. TypeOK /\ clock \in Nat /\ tokens \subseteq Token
    BY DEF KeyInv, TypeOK
  <1>3. TypeOK'
    BY <1>1, <1>2 DEF TypeOK
  <1>4. \A t \in tokens' : TokenHolds(t, rows, clock')
    BY <1>1, <1>2, KeyConstantsOK DEF KeyInv, TokenHolds, Token
  <1>5. \A q \in Processes : MemHolds(mem[q], rows, tokens')
    BY <1>1 DEF KeyInv, MemHolds
  <1>6. QED BY <1>1, <1>3, <1>4, <1>5 DEF KeyInv

\* Every step of the keystores keeps the invariant.
LEMMA KeyStep ==
    ASSUME KeyInv, [Next]_vars
    PROVE  KeyInv'
  <1>1. CASE UNCHANGED vars
    BY <1>1 DEF vars, KeyInv, TypeOK
  <1>2. QED
    BY <1>1, KeyTickStep, LoadStep, RetireStep, InsertStep, AdoptStep, ProcessStep, SignStep DEF Next

\* No key, no token, nothing loaded.
LEMMA KeyStart == Init => KeyInv
  <1>. SUFFICES ASSUME Init PROVE KeyInv
    OBVIOUS
  <1>1. TypeOK
    BY UnloadedHolds DEF Init, TypeOK, NoKeys, Table
  <1>2. UniqueActive(rows)
    BY DEF Init, NoKeys, UniqueActive, Active
  <1>3. \A p \in Processes : MemHolds(mem[p], rows, tokens)
    BY UnloadedHolds DEF Init
  <1>4. QED BY <1>1, <1>2, <1>3 DEF KeyInv, Init

\* What the invariant says of the three properties.
LEMMA KeyProperties ==
    ASSUME KeyInv
    PROVE  SignedKeysStored /\ BootAgreement /\ RetentionSuffices /\ LoadedServersVerify
  <1>a. /\ TypeOK /\ clock \in Nat /\ tokens \subseteq Token /\ rows \in Table
        /\ \A t \in tokens : TokenHolds(t, rows, clock)
        /\ \A p \in Processes : mem[p] \in Memory /\ MemHolds(mem[p], rows, tokens)
        /\ Servers \subseteq Processes
    BY DEF KeyInv, TypeOK, Processes
  <1>1. SignedKeysStored
    BY <1>a, NullIsNoKeyRow DEF SignedKeysStored, TokenHolds
  <1>2. BootAgreement
    <2>1. ASSUME NEW p \in Servers, NEW q \in Servers, mem[p].pc = "up", mem[q].pc = "up",
                 \A k \in {mem[p].active, mem[q].active} : rows[k].retiredAt = Null
          PROVE  mem[p].active = mem[q].active
      <3>1. /\ mem[p].active \in Kids /\ rows[mem[p].active] # Null
            /\ mem[q].active \in Kids /\ rows[mem[q].active] # Null
        BY <1>a, <2>1, NullIsNoKeyRow DEF MemHolds
      <3>2. mem[p].active \in Active(rows) /\ mem[q].active \in Active(rows)
        BY <2>1, <3>1 DEF Active
      <3>3. QED BY <3>2 DEF KeyInv, UniqueActive
    <2>2. QED BY <2>1 DEF BootAgreement
  <1>3. RetentionSuffices
    <2>1. ASSUME NEW p \in Servers, NEW t \in tokens, mem[p].keys[t.kid] # Null, ~t.late,
                 mem[p].keys[t.kid].retiredAt # Null
          PROVE  clock - mem[p].keys[t.kid].retiredAt < Retention
      <3>1. t.kid \in Kids /\ t.exp \in Nat /\ clock < t.exp
        BY <1>a DEF Token, TokenHolds
      <3>2. mem[p].keys[t.kid] \in KeyRow /\ mem[p].keys[t.kid].retiredAt \in Nat
        BY <1>a, <2>1, <3>1 DEF Memory, Table, KeyRow
      <3>3. t.exp - TokenTtl <= mem[p].keys[t.kid].retiredAt
        BY <1>a, <2>1, <3>1, <3>2 DEF MemHolds
      <3>4. QED BY <1>a, <3>1, <3>2, <3>3, KeyConstantsOK
    <2>2. \A t \in tokens : t.kid \in Kids
      BY <1>a DEF Token
    <2>3. QED BY <2>1, <2>2 DEF RetentionSuffices, Published
  <1>4. LoadedServersVerify
    <2>1. ASSUME NEW p \in Servers, NEW t \in tokens, mem[p].pc = "up", mem[p].listed,
                 rows[mem[p].active].retiredAt = Null
          PROVE  mem[p].keys[t.kid] # Null
      <3>1. t.kid \in Kids /\ rows[t.kid] \in KeyRow
        BY <1>a DEF Token, TokenHolds
      <3>2. mem[p].keys[t.kid] \in KeyRow
        BY <1>a, <2>1, <3>1 DEF MemHolds
      <3>3. QED BY <3>2, NullIsNoKeyRow
    <2>2. QED BY <2>1, <1>3 DEF LoadedServersVerify, RetentionSuffices
  <1>5. QED BY <1>1, <1>2, <1>3, <1>4

-----------------------------------------------------------------------------
(* The migrations.                                                         *)

\* A run looks at a file only when every file before it is in table, and holds
\* in its transaction what it has written of that file, and nothing else.
RunHolds(run, table) ==
    /\ 1 .. (run.file - 1) \subseteq table
    /\ run.pc = "done" => run.file = FileCount + 1
    /\ run.pc # "done" => run.file \in Files
    /\ run.pc \in {"sql", "insert", "commit"} => run.open
    /\ run.tables = (IF run.pc \in {"insert", "commit"} THEN {run.file} ELSE {})
    /\ run.ids = (IF run.pc = "commit" THEN {run.file} ELSE {})

MigrateInv ==
    /\ MigrateTypeOK
    /\ RecordedAsApplied
    /\ \A f \in recorded : 1 .. f \subseteq recorded
    /\ \A m \in Migrators : RunHolds(runner[m], recorded)

\* A step of one run, seen from its record.
LEMMA RunStep ==
    ASSUME MigrateInv, NEW m \in Migrators, NEW run \in Runner,
           runner' = [runner EXCEPT ![m] = run],
           recorded \subseteq recorded', recorded' \subseteq Files, schema' = recorded',
           \A f \in recorded' : 1 .. f \subseteq recorded',
           RunHolds(run, recorded')
    PROVE  MigrateInv'
  <1>1. runner \in [Migrators -> Runner]
    BY DEF MigrateInv, MigrateTypeOK
  <1>2. MigrateTypeOK' /\ RecordedAsApplied'
    BY <1>1 DEF MigrateTypeOK, RecordedAsApplied
  <1>3. ASSUME NEW n \in Migrators
        PROVE  RunHolds(runner'[n], recorded')
    <2>1. CASE n = m
      BY <1>1, <2>1
    <2>2. CASE n # m
      <3>1. runner'[n] = runner[n] /\ RunHolds(runner[n], recorded)
        BY <1>1, <2>2 DEF MigrateInv
      <3>2. QED BY <3>1 DEF RunHolds
    <2>3. QED BY <2>1, <2>2
  <1>4. QED BY <1>2, <1>3 DEF MigrateInv

\* What one run sees of the invariant.
LEMMA RunFacts ==
    ASSUME MigrateInv, NEW m \in Migrators
    PROVE  /\ runner[m] \in Runner /\ RunHolds(runner[m], recorded)
           /\ recorded = schema /\ recorded \subseteq Files
           /\ \A f \in recorded : 1 .. f \subseteq recorded
           /\ runner \in [Migrators -> Runner]
  BY DEF MigrateInv, MigrateTypeOK, RecordedAsApplied

\* A run that ends by an error leaves nothing of its open transaction.
LEMMA ThrowStep ==
    ASSUME MigrateInv, NEW m \in Migrators, Throw(m), UNCHANGED <<recorded, schema>>
    PROVE  MigrateInv'
  <1>1. NotRunning \in Runner /\ RunHolds(NotRunning, recorded)
    BY MigrateConstantsOK DEF NotRunning, Outside, Runner, RunHolds, Files
  <1>2. recorded' = recorded /\ schema' = recorded /\ runner' = [runner EXCEPT ![m] = NotRunning]
    BY RunFacts DEF Throw
  <1>3. QED BY <1>1, <1>2, RunFacts, RunStep

\* A run that goes on to the next file leaves this one recorded.
LEMMA NextFileStep ==
    ASSUME MigrateInv, NEW m \in Migrators, NextFile(m), runner[m].pc \in {"select", "commit"},
           recorded' = recorded \cup {runner[m].file}, schema' = recorded'
    PROVE  MigrateInv'
  <1> DEFINE file == runner[m].file
             pc == IF file = FileCount THEN "done" ELSE "select"
             run == Outside(pc, file + 1)
  <1>1. FileCount \in Nat \ {0}
    BY MigrateConstantsOK
  <1>2. file \in Files /\ file \in 1 .. FileCount /\ 1 .. (file - 1) \subseteq recorded
    BY RunFacts DEF RunHolds, Files
  <1>3. /\ run.file = file + 1 /\ run.open = FALSE /\ run.tables = {} /\ run.ids = {}
        /\ run.pc = (IF file = FileCount THEN "done" ELSE "select")
        /\ run \in Runner /\ runner' = [runner EXCEPT ![m] = run]
    <2>1. runner' = [runner EXCEPT ![m] = run]
      BY DEF NextFile
    <2>2. pc \in {"done", "select"} /\ file + 1 \in 1 .. FileCount + 1
      BY <1>1, <1>2
    <2>3. run \in Runner
      BY <2>2 DEF Runner, Outside
    <2>4. QED BY <2>1, <2>3 DEF Outside
  <1> HIDE DEF run
  <1>4. 1 .. (run.file - 1) \subseteq recorded' /\ 1 .. file \subseteq recorded'
    BY <1>2, <1>3
  <1>5. \A f \in recorded' : 1 .. f \subseteq recorded'
    BY <1>4, RunFacts
  <1>6. RunHolds(run, recorded')
    BY <1>1, <1>2, <1>3, <1>4 DEF RunHolds, Files
  <1>7. recorded \subseteq recorded' /\ recorded' \subseteq Files
    BY <1>2, RunFacts
  <1>8. QED BY <1>3, <1>5, <1>6, <1>7, RunStep

\* A run that moves within a file changes nothing anybody else can see.
LEMMA RunMoves ==
    ASSUME MigrateInv, NEW m \in Migrators, NEW run \in Runner,
           runner' = [runner EXCEPT ![m] = run], UNCHANGED <<recorded, schema>>,
           runner[m].pc # "done", run.file = runner[m].file, run.pc # "done",
           run.pc \in {"sql", "insert", "commit"} => run.open,
           run.tables = (IF run.pc \in {"insert", "commit"} THEN {run.file} ELSE {}),
           run.ids = (IF run.pc = "commit" THEN {run.file} ELSE {})
    PROVE  MigrateInv'
  <1>1. run.file \in Files /\ 1 .. (run.file - 1) \subseteq recorded
    BY RunFacts DEF RunHolds
  <1>2. RunHolds(run, recorded)
    BY <1>1 DEF RunHolds
  <1>3. recorded' = recorded /\ schema' = recorded
    BY RunFacts
  <1>4. QED BY <1>2, <1>3, RunFacts, RunStep

\* Every step of the migrations keeps their invariant.
LEMMA MigrateStep ==
    ASSUME MigrateInv, [MigrateNext]_migrateVars
    PROVE  MigrateInv'
  <1>1. ASSUME NEW m \in Migrators, StartRun(m) \/ (SelectApplied(m) /\ runner[m].file \notin recorded)
        PROVE  MigrateInv'
    <2> DEFINE run == [runner[m] EXCEPT !.pc = IF StartRun(m) THEN "select" ELSE "begin"]
    <2>1. runner[m] \in Runner /\ RunHolds(runner[m], recorded) /\ runner[m].pc \in {"idle", "select"}
      BY <1>1, RunFacts DEF StartRun, SelectApplied, RunAt
    <2>2. /\ run \in Runner /\ run.file = runner[m].file /\ run.pc \in {"select", "begin"}
          /\ run.tables = runner[m].tables /\ run.ids = runner[m].ids
      BY <2>1 DEF Runner
    <2>3. run.tables = {} /\ run.ids = {}
      BY <2>1, <2>2 DEF RunHolds
    <2>4. runner' = [runner EXCEPT ![m] = run] /\ UNCHANGED <<recorded, schema>>
      BY <1>1, <2>1, RunFacts DEF StartRun, SelectApplied, RunTo, RunAt
    <2> HIDE DEF run
    <2>5. QED BY <2>1, <2>2, <2>3, <2>4, RunMoves
  <1>2. ASSUME NEW m \in Migrators, SelectApplied(m), runner[m].file \in recorded
        PROVE  MigrateInv'
    <2>1. recorded' = recorded \cup {runner[m].file} /\ schema' = recorded'
      BY <1>2, RunFacts DEF SelectApplied
    <2>2. QED BY <1>2, <2>1, NextFileStep DEF SelectApplied, RunAt
  <1>3. ASSUME NEW m \in Migrators, Begin(m)
        PROVE  MigrateInv'
    <2> DEFINE run == [runner[m] EXCEPT !.pc = "sql", !.open = TRUE]
    <2>1. runner[m] \in Runner /\ RunHolds(runner[m], recorded) /\ runner[m].pc = "begin"
      BY <1>3, RunFacts DEF Begin, RunAt
    <2>2. /\ run \in Runner /\ run.file = runner[m].file /\ run.pc = "sql" /\ run.open
          /\ run.tables = {} /\ run.ids = {}
      BY <2>1 DEF Runner, RunHolds
    <2>3. runner' = [runner EXCEPT ![m] = run] /\ UNCHANGED <<recorded, schema>>
      BY <1>3, RunFacts DEF Begin
    <2> HIDE DEF run
    <2>4. QED BY <2>1, <2>2, <2>3, RunMoves
  <1>4. ASSUME NEW m \in Migrators, RunSql(m)
        PROVE  MigrateInv'
    <2> DEFINE run == [runner[m] EXCEPT !.pc = "insert", !.tables = @ \cup {runner[m].file}]
    <2>1. /\ runner[m] \in Runner /\ RunHolds(runner[m], recorded)
          /\ runner[m].pc = "sql" /\ runner[m].open
      BY <1>4, RunFacts DEF RunSql, RunAt, RunHolds
    <2>2. runner[m].tables = {} /\ runner[m].ids = {} /\ runner[m].file \in Files
      BY <2>1 DEF RunHolds
    <2>3. /\ run \in Runner /\ run.file = runner[m].file /\ run.pc = "insert" /\ run.open
          /\ run.tables = {run.file} /\ run.ids = {}
      BY <2>1, <2>2 DEF Runner
    <2>4. runner' = [runner EXCEPT ![m] = run] /\ UNCHANGED <<recorded, schema>>
      BY <1>4, <2>1, RunFacts DEF RunSql
    <2> HIDE DEF run
    <2>5. QED BY <2>1, <2>3, <2>4, RunMoves
  <1>5. ASSUME NEW m \in Migrators, InsertRow(m), runner[m].file \notin recorded
        PROVE  MigrateInv'
    <2> DEFINE run == [runner[m] EXCEPT !.pc = "commit", !.ids = @ \cup {runner[m].file}]
    <2>1. /\ runner[m] \in Runner /\ RunHolds(runner[m], recorded)
          /\ runner[m].pc = "insert" /\ runner[m].open
      BY <1>5, RunFacts DEF InsertRow, RunAt, RunHolds
    <2>2. /\ runner[m].tables = {runner[m].file} /\ runner[m].ids = {}
          /\ runner[m].file \in Files
      BY <2>1 DEF RunHolds
    <2>3. /\ run \in Runner /\ run.file = runner[m].file /\ run.pc = "commit" /\ run.open
          /\ run.tables = {run.file} /\ run.ids = {run.file}
      BY <2>1, <2>2 DEF Runner
    <2>4. runner' = [runner EXCEPT ![m] = run] /\ UNCHANGED <<recorded, schema>>
      BY <1>5, <2>1, RunFacts DEF InsertRow
    <2> HIDE DEF run
    <2>5. QED BY <2>1, <2>3, <2>4, RunMoves
  <1>6. ASSUME NEW m \in Migrators,
               FailRun(m) \/ (InsertRow(m) /\ runner[m].file \in recorded)
        PROVE  MigrateInv'
    <2>1. Throw(m) /\ UNCHANGED <<recorded, schema>>
      BY <1>6 DEF FailRun, InsertRow
    <2>2. QED BY <2>1, ThrowStep
  <1>7. ASSUME NEW m \in Migrators, Commit(m)
        PROVE  MigrateInv'
    <2>1. runner[m].pc = "commit" /\ NextFile(m)
      BY <1>7 DEF Commit, RunAt
    <2>2. runner[m].tables = {runner[m].file} /\ runner[m].ids = {runner[m].file}
      BY <2>1, RunFacts DEF RunHolds
    <2>3. recorded' = recorded \cup {runner[m].file} /\ schema' = recorded'
      BY <1>7, <2>2, RunFacts DEF Commit
    <2>4. QED BY <2>1, <2>3, NextFileStep
  <1>8. CASE UNCHANGED migrateVars
    BY <1>8 DEF migrateVars, MigrateInv, MigrateTypeOK, RecordedAsApplied
  <1>9. QED BY <1>1, <1>2, <1>3, <1>4, <1>5, <1>6, <1>7, <1>8 DEF MigrateNext

\* Nothing is recorded and no run has started; the StartRun of a run needs its
\* first file.
LEMMA MigrateStart == MigrateInit => MigrateInv
  <1>. SUFFICES ASSUME MigrateInit PROVE MigrateInv
    OBVIOUS
  <1>1. NotRunning \in Runner /\ RunHolds(NotRunning, {})
    BY MigrateConstantsOK DEF NotRunning, Outside, Runner, RunHolds, Files
  <1>2. MigrateTypeOK /\ RecordedAsApplied
    BY <1>1 DEF MigrateInit, MigrateTypeOK, RecordedAsApplied
  <1>3. \A m \in Migrators : RunHolds(runner[m], recorded)
    BY <1>1 DEF MigrateInit
  <1>4. QED BY <1>2, <1>3 DEF MigrateInv, MigrateInit

\* What the invariant says of the order of the files.
LEMMA MigrateProperties ==
    ASSUME MigrateInv
    PROVE  RecordedAsApplied /\ AppliedInOrder
  <1>1. ASSUME NEW m \in Migrators, runner[m].pc = "done"
        PROVE  schema = Files
    <2>1. runner[m].file = FileCount + 1 /\ 1 .. (runner[m].file - 1) \subseteq recorded
      BY <1>1, RunFacts DEF RunHolds
    <2>2. runner[m].file - 1 = FileCount
      BY <2>1, MigrateConstantsOK
    <2>3. QED BY <2>1, <2>2, RunFacts DEF Files
  <1>2. QED BY <1>1 DEF MigrateInv, RecordedAsApplied, AppliedInOrder

-----------------------------------------------------------------------------
(* The deployment.                                                         *)

\* The invariant of servers, rotations and migrations on one database.
THEOREM DeployInvariant == DeploySpec => [](KeyInv /\ MigrateInv)
  <1>1. DeployInit => KeyInv /\ MigrateInv
    BY KeyStart, MigrateStart DEF DeployInit
  <1>2. [DeployNext]_deployVars => [Next]_vars /\ [MigrateNext]_migrateVars
    BY DEF DeployNext, KeyStoreStep, deployVars
  <1>3. KeyInv /\ MigrateInv /\ [DeployNext]_deployVars => (KeyInv /\ MigrateInv)'
    BY <1>2, KeyStep, MigrateStep
  <1>4. QED BY <1>1, <1>3, PTL DEF DeploySpec

\* The key table, the keystores and the tokens keep their types.
THEOREM KeysTypeCorrect == DeploySpec => []TypeOK
  <1>1. KeyInv => TypeOK
    BY DEF KeyInv
  <1>2. QED BY <1>1, DeployInvariant, PTL

\* KeyStore.rotate: a key is stored before it signs, so a crash never loses the
\* key of a live token.
THEOREM KeysStored == DeploySpec => []SignedKeysStored
  <1>1. QED BY KeyProperties, DeployInvariant, PTL

\* KeyStore.init: racing boots and rotations end with one key, unless one of the
\* keys was retired since.
THEOREM BootsAgree == DeploySpec => []BootAgreement
  <1>1. QED BY KeyProperties, DeployInvariant, PTL

\* RETIRED_KEY_RETENTION_MS: a loaded key is published until every token that
\* was signed before its retirement has expired.
THEOREM RetentionIsEnough == DeploySpec => []RetentionSuffices
  <1>1. QED BY KeyProperties, DeployInvariant, PTL

\* publicJwks, as findAccessToken and the JWKS endpoint use it: a server that
\* loaded the key in force verifies every token signed in good time.
THEOREM LoadedVerify == DeploySpec => []LoadedServersVerify
  <1>1. QED BY KeyProperties, DeployInvariant, PTL

\* runMigrations: a file is recorded exactly when its tables are there, wherever
\* between begin and commit the runs die.
THEOREM MigrationsRecorded == DeploySpec => []RecordedAsApplied
  <1>1. QED BY MigrateProperties, DeployInvariant, PTL

\* runMigrations: files are applied in order, and a run that ends well has seen
\* them all applied.
THEOREM MigrationsInOrder == DeploySpec => []AppliedInOrder
  <1>1. QED BY MigrateProperties, DeployInvariant, PTL

=============================================================================
