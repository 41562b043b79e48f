----------------------------- MODULE EventExport -----------------------------
(***************************************************************************)
(* The exporting event log (kernel/event_export.py): a wrapper that writes *)
(* every commit to the inner log and hands it to the platform's export     *)
(* port in a background task nobody waits for.  A commit may be migrated   *)
(* to another event schema before it is exported, and the migration fails  *)
(* when no path of registered migrations leads to the target version.      *)
(***************************************************************************)
EXTENDS Naturals, Sequences, FiniteSets, Functions

CONSTANTS
  Commits,            \* commits the kernel appends, each once
  VersionOf,          \* schema version of each commit
  Target,             \* target_event_schema_version
  Registered,         \* the (from, to) pairs with a registered migration
  ExportFaults        \* subset of {"inner", "export"}

VARIABLES
  stored,             \* commits of the inner log, in order
  appends,            \* where append_action_commit of each commit is
  exports,            \* the background task of each commit
  trace,              \* what the run trace store absorbed, in order
  closing             \* whether close() was called, and finished

exportVars == <<stored, appends, exports, trace, closing>>

ExportInit ==
  /\ stored = <<>>
  /\ appends = [c \in Commits |-> "none"]
  /\ exports = [c \in Commits |-> "none"]
  /\ trace = <<>>
  /\ closing = "open"
-----------------------------------------------------------------------------
(* _resolve_path: breadth-first over the registered pairs; what is found   *)
(* is whether the target can be reached.  The n-th set holds the versions  *)
(* reachable in at most n migrations.                                      *)
ResolvePath(from, to) ==
  LET nodes == {from} \cup UNION {{m[1], m[2]} : m \in Registered}
      reach[n \in 0..Cardinality(nodes)] ==
        IF n = 0 THEN {from}
        ELSE reach[n - 1] \cup {m[2] : m \in {e \in Registered : e[1] \in reach[n - 1]}}
  IN  to \in reach[Cardinality(nodes)]

(* _maybe_migrate_commit: a commit of the target version passes as it is;  *)
(* otherwise migrate_batch raises SchemaMigrationError without a path.     *)
Migrates(c) == VersionOf[c] = Target \/ ResolvePath(VersionOf[c], Target)

AppendStarts(c) ==
  /\ appends[c] = "none"
  /\ appends' = [appends EXCEPT ![c] = "writing"]
  /\ UNCHANGED <<stored, exports, trace, closing>>

InnerFails(c) ==
  /\ "inner" \in ExportFaults
  /\ appends[c] = "writing"
  /\ appends' = [appends EXCEPT ![c] = "raised"]
  /\ UNCHANGED <<stored, exports, trace, closing>>

(* Mutant: the commit is exported before it is written.                    *)
InnerAppendsAfterExport(c) ==
  /\ appends[c] = "writing"
  /\ IF exports[c] = "none"
       THEN /\ exports' = [exports EXCEPT ![c] = "running"]
            /\ UNCHANGED <<stored, appends>>
       ELSE /\ exports[c] \in {"done", "dropped", "cancelled"}
            /\ stored' = Append(stored, c)
            /\ appends' = [appends EXCEPT ![c] = "ok"]
            /\ UNCHANGED exports
  /\ UNCHANGED <<trace, closing>>

(* The inner log has written the commit.  The export copy is migrated and  *)
(* its task is created in the same stretch without an await; a migration   *)
(* error leaves append_action_commit after the commit is durable.          *)
InnerAppends(c) ==
  /\ appends[c] = "writing"
  /\ stored' = Append(stored, c)
  /\ IF Migrates(c)
       THEN /\ appends' = [appends EXCEPT ![c] = "ok"]
            /\ exports' = [exports EXCEPT ![c] = "running"]
       ELSE /\ appends' = [appends EXCEPT ![c] = "raised"]
            /\ UNCHANGED exports
  /\ UNCHANGED <<trace, closing>>

(* _safe_export: the port absorbs the commit, or times out or raises, and  *)
(* that is only logged.                                                    *)
ExportCommit(c) ==
  /\ exports[c] = "running"
  /\ exports' = [exports EXCEPT ![c] = "done"]
  /\ trace' = Append(trace, c)
  /\ UNCHANGED <<stored, appends, closing>>

ExportFails(c) ==
  /\ "export" \in ExportFaults
  /\ exports[c] = "running"
  /\ exports' = [exports EXCEPT ![c] = "dropped"]
  /\ UNCHANGED <<stored, appends, trace, closing>>

(* close: the pending tasks are cancelled and gathered, then the inner log *)
(* is closed.  An append whose write is still awaited is not among them.   *)
Close ==
  /\ closing = "open"
  /\ exports' = [c \in Commits |-> IF exports[c] = "running" THEN "cancelled" ELSE exports[c]]
  /\ closing' = "closed"
  /\ UNCHANGED <<stored, appends, trace>>

ExportNext ==
  \/ \E c \in Commits :
       \/ AppendStarts(c)
       \/ InnerFails(c)
       \/ InnerAppends(c)
       \/ ExportCommit(c)
       \/ ExportFails(c)
  \/ Close

ExportSpec == ExportInit /\ [][ExportNext]_exportVars
-----------------------------------------------------------------------------
(* The platform never sees a commit the kernel does not have: what was     *)
(* exported, once at most each, is in the inner log, and a commit the      *)
(* kernel was told is stored and that no fault, close or migration error   *)
(* dropped has been exported or is on its way (event_export.py:98-106).    *)
ExportFollowsTheLog ==
  /\ \A i, j \in 1..Len(trace) : i # j => trace[i] # trace[j]
  /\ Range(trace) \subseteq Range(stored)
  /\ \A c \in Commits : appends[c] = "ok" => c \in Range(stored) /\ exports[c] # "none"
=============================================================================
