----------------------------- MODULE Deployment -----------------------------
(***************************************************************************)
(* Servers, rotations and migrations on one database.  Nothing orders the  *)
(* start of a server after the migrations: until signing_keys is there,    *)
(* loading the keys fails, and is tried again on the next request.         *)
(***************************************************************************)
EXTENDS KeyStore, Migrate

CONSTANT KeysFile      \* the file that creates signing_keys

ASSUME KeysFileOK == KeysFile \in Files

deployVars == <<vars, migrateVars>>

DeployInit == Init /\ MigrateInit

\* Every query of the keystore needs the table, the first one in Load.
KeyStoreStep == Next /\ (KeysFile \in schema \/ UNCHANGED <<rows, mem, tokens>>)

DeployNext ==
    \/ KeyStoreStep /\ UNCHANGED migrateVars
    \/ MigrateNext /\ UNCHANGED vars

DeploySpec == DeployInit /\ [][DeployNext]_deployVars

=============================================================================
