------------------------------ MODULE Migrate ------------------------------
(***************************************************************************)
(* npm run migrate: the files of migrations/ in lexical order, each in a   *)
(* transaction of its own together with its row in schema_migrations.      *)
(* Several runs may go on at the same time, and any of them may die.       *)
(*                                                                         *)
(* A statement that collides with another run's uncommitted rows waits for *)
(* that transaction to end.  Every statement of the files says "if not     *)
(* exists".                                                                *)
(***************************************************************************)
EXTENDS Naturals

CONSTANTS
    Migrators,         \* runs of npm run migrate
    FileCount          \* the files are 1 .. FileCount, in lexical order

ASSUME MigrateConstantsOK == FileCount \in Nat \ {0}

VARIABLES
    recorded,          \* the rows of schema_migrations
    schema,            \* the files whose tables are there
    runner             \* the runs of the script

migrateVars == <<recorded, schema, runner>>

Files == 1 .. FileCount

\* file is the one being looked at.  A transaction keeps what the run has
\* written in it from everybody else until it commits.
Runner == [pc : {"idle", "select", "begin", "sql", "insert", "commit", "done"},
           file : 1 .. FileCount + 1,
           open : BOOLEAN, tables : SUBSET Files, ids : SUBSET Files]

\* A run that has no transaction open.
Outside(pc, file) == [pc |-> pc, file |-> file, open |-> FALSE, tables |-> {}, ids |-> {}]

NotRunning == Outside("idle", 1)

\* The table, the schema and the runs have their types.
MigrateTypeOK ==
    /\ recorded \subseteq Files
    /\ schema \subseteq Files
    /\ runner \in [Migrators -> Runner]

MigrateInit ==
    /\ recorded = {}
    /\ schema = {}
    /\ runner = [m \in Migrators |-> NotRunning]

-----------------------------------------------------------------------------
RunAt(m, pc) == runner[m].pc = pc
RunTo(m, pc) == runner' = [runner EXCEPT ![m].pc = pc]

\* The next file, or the end of the script.
NextFile(m) ==
    runner' = [runner EXCEPT ![m] =
        Outside(IF runner[m].file = FileCount THEN "done" ELSE "select", runner[m].file + 1)]

\* Another run's open transaction has the tables of this file, or its row.
TablesLocked(m) == \E n \in Migrators \ {m} : runner[m].file \in runner[n].tables
IdLocked(m) == \E n \in Migrators \ {m} : runner[m].file \in runner[n].ids

\* Mutant: a file that fails is skipped, not thrown.
ThrowSkip(m) == NextFile(m)

\* What the open transaction wrote is rolled back and the script ends.
Throw(m) == runner' = [runner EXCEPT ![m] = NotRunning]

\* schema_migrations is created if it does not exist.  Bound: nobody starts
\* the script when every file is recorded, as it would skip them all.
StartRun(m) ==
    /\ RunAt(m, "idle")
    /\ recorded # Files
    /\ RunTo(m, "select")
    /\ UNCHANGED <<recorded, schema>>

\* A file is applied unless it is recorded as applied.
SelectApplied(m) ==
    /\ RunAt(m, "select")
    /\ IF runner[m].file \in recorded THEN NextFile(m) ELSE RunTo(m, "begin")
    /\ UNCHANGED <<recorded, schema>>

\* Mutant: no transaction around the file.
BeginNothing(m) ==
    /\ RunAt(m, "begin")
    /\ RunTo(m, "sql")
    /\ UNCHANGED <<recorded, schema>>

Begin(m) ==
    /\ RunAt(m, "begin")
    /\ runner' = [runner EXCEPT ![m].pc = "sql", ![m].open = TRUE]
    /\ UNCHANGED <<recorded, schema>>

\* The file's statements.  Outside a transaction they take effect at once.
RunSql(m) ==
    LET new == {runner[m].file} IN
    /\ RunAt(m, "sql")
    /\ ~TablesLocked(m)
    /\ IF runner[m].open
       THEN /\ runner' = [runner EXCEPT ![m].pc = "insert", ![m].tables = @ \cup new]
            /\ UNCHANGED schema
       ELSE /\ RunTo(m, "insert")
            /\ schema' = schema \cup new
    /\ UNCHANGED recorded

\* The primary key of schema_migrations refuses a second row.
InsertRow(m) ==
    LET new == {runner[m].file} IN
    /\ RunAt(m, "insert")
    /\ ~IdLocked(m)
    /\ IF new \subseteq recorded THEN Throw(m) /\ UNCHANGED recorded
       ELSE IF runner[m].open
       THEN /\ runner' = [runner EXCEPT ![m].pc = "commit", ![m].ids = @ \cup new]
            /\ UNCHANGED recorded
       ELSE /\ RunTo(m, "commit")
            /\ recorded' = recorded \cup new
    /\ UNCHANGED schema

\* What the transaction wrote takes effect.
Commit(m) ==
    /\ RunAt(m, "commit")
    /\ recorded' = recorded \cup runner[m].ids
    /\ schema' = schema \cup runner[m].tables
    /\ NextFile(m)

\* A statement fails (two runs that create the same table may collide), or the
\* process or its connection dies.
FailRun(m) ==
    /\ ~RunAt(m, "idle") /\ ~RunAt(m, "done")
    /\ Throw(m)
    /\ UNCHANGED <<recorded, schema>>

MigrateNext ==
    \E m \in Migrators :
        \/ StartRun(m) \/ SelectApplied(m) \/ Begin(m)
        \/ RunSql(m) \/ InsertRow(m) \/ Commit(m) \/ FailRun(m)

MigrateSpec == MigrateInit /\ [][MigrateNext]_migrateVars

-----------------------------------------------------------------------------
(* Properties.                                                             *)

\* The header of migrate.ts: each file inside a transaction, tracked in
\* schema_migrations.  However runs race, die between any two statements and
\* start again, a file is recorded exactly when its tables are there.
RecordedAsApplied == recorded = schema

\* The header of migrate.ts: files are applied in lexical order.  No file is
\* applied before the ones it refers to, and a run that says "migrations
\* complete" is right.
AppliedInOrder ==
    /\ \A f \in schema : 1 .. f \subseteq schema
    /\ \A m \in Migrators : runner[m].pc = "done" => schema = Files

=============================================================================
