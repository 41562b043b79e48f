-------------------------- MODULE SchemaMigrations --------------------------
(***************************************************************************)
(* The schema migration manager (kernel/persistence/migrations.py):        *)
(* processes that open one SQLite file and call apply_all.  A migration is *)
(* two commits: executescript first commits what is open and then runs its *)
(* statements in autocommit mode, and the INSERT into schema_migrations is *)
(* committed after it.  Version 1 creates tables IF NOT EXISTS and may run *)
(* again; version 2 adds a column, which fails when the column is there.   *)
(* A script is one step: a death among the statements of version 1 leaves  *)
(* what running it again completes, and version 2 is a single statement.   *)
(***************************************************************************)
EXTENDS Integers

CONSTANTS
  Upgraders,          \* processes that call apply_all
  Versions,           \* the registered versions, 1..n
  Repeatable,         \* the versions whose script may run twice
  MaxUpgrades         \* calls of apply_all per process

(* register_migration takes version numbers.                               *)
ASSUME MigrationAssumption == Versions \subseteq Nat

VARIABLES
  schema,             \* versions whose script is in the schema
  recorded,           \* rows of schema_migrations
  upgrade,            \* per process: where apply_all is and what it has to do
  upgrades,           \* calls of apply_all per process
  interrupted         \* a process died or raised with a script half recorded

migrationVars == <<schema, recorded, upgrade, upgrades, interrupted>>

NotUpgrading == [at |-> "idle", pending |-> {}]

MigrationInit ==
  /\ schema = {}
  /\ recorded = {}
  /\ upgrade = [p \in Upgraders |-> NotUpgrading]
  /\ upgrades = [p \in Upgraders |-> 0]
  /\ interrupted = FALSE

Least(S) == CHOOSE v \in S : \A w \in S : v <= w

(* apply_all: the table is created, the applied versions are read once.    *)
ApplyAll(p) ==
  /\ upgrade[p].at = "idle" /\ upgrades[p] < MaxUpgrades
  /\ upgrades' = [upgrades EXCEPT ![p] = @ + 1]
  /\ upgrade' = [upgrade EXCEPT ![p] =
                   IF Versions \ recorded = {} THEN NotUpgrading
                   ELSE [at |-> "script", pending |-> Versions \ recorded]]
  /\ UNCHANGED <<schema, recorded, interrupted>>

(* Mutant: the newest pending version first.                               *)
ExecuteScriptNewestFirst(p) ==
  /\ upgrade[p].at = "script"
  /\ LET v == CHOOSE v \in upgrade[p].pending : \A w \in upgrade[p].pending : w <= v IN
       /\ schema' = schema \cup {v}
       /\ recorded' = recorded \cup {v}
       /\ upgrade' = [upgrade EXCEPT ![p] =
                        IF @.pending = {v} THEN NotUpgrading
                        ELSE [at |-> "script", pending |-> @.pending \ {v}]]
  /\ UNCHANGED <<upgrades, interrupted>>

(* _apply, first half: the script of the least pending version.            *)
ExecuteScript(p) ==
  /\ upgrade[p].at = "script"
  /\ LET v == Least(upgrade[p].pending) IN
       IF v \in schema /\ v \notin Repeatable
         THEN /\ upgrade' = [upgrade EXCEPT ![p] = NotUpgrading]    \* duplicate column
              /\ UNCHANGED schema
         ELSE /\ upgrade' = [upgrade EXCEPT ![p].at = "record"]
              /\ schema' = schema \cup {v}
  /\ UNCHANGED <<recorded, upgrades, interrupted>>

(* _apply, second half: the bookkeeping row, whose primary key rejects a   *)
(* version that another process recorded meanwhile; that ends apply_all.   *)
RecordVersion(p) ==
  /\ upgrade[p].at = "record"
  /\ LET v == Least(upgrade[p].pending)  rest == upgrade[p].pending \ {v} IN
       /\ recorded' = recorded \cup {v}
       /\ upgrade' = [upgrade EXCEPT ![p] =
                        IF v \in recorded \/ rest = {} THEN NotUpgrading
                        ELSE [at |-> "script", pending |-> rest]]
  /\ UNCHANGED <<schema, upgrades, interrupted>>

(* The process dies inside apply_all.                                      *)
UpgraderDies(p) ==
  /\ upgrade[p].at # "idle"
  /\ upgrade' = [upgrade EXCEPT ![p] = NotUpgrading]
  /\ interrupted' = (interrupted \/ upgrade[p].at = "record")
  /\ UNCHANGED <<schema, recorded, upgrades>>

MigrationNext ==
  \E p \in Upgraders :
    \/ ApplyAll(p)
    \/ ExecuteScript(p)
    \/ RecordVersion(p)
    \/ UpgraderDies(p)

MigrationSpec == MigrationInit /\ [][MigrationNext]_migrationVars
-----------------------------------------------------------------------------
(* Versions reach the file in ascending order and the bookkeeping never    *)
(* claims more than the file has: a recorded version and every version     *)
(* below it are in the schema, whatever processes race or die; and a       *)
(* script in the file without its row is there only while a process is     *)
(* between the two commits of _apply or because one died there             *)
(* (migrations.py:128-133).  The docstrings exclude that last case:        *)
(* migrations are applied "within a single transaction" (:48-50, :90) and  *)
(* idempotently (:3-13), whereas a later apply_all raises on version 2.    *)
SchemaIsOrdered ==
  /\ recorded \subseteq schema
  /\ \A v \in schema : \A w \in Versions : w < v => w \in schema
  /\ schema # recorded => interrupted \/ \E p \in Upgraders : upgrade[p].at = "record"
=============================================================================
