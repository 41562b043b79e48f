------------------------------ MODULE SqlStores ------------------------------
(***************************************************************************)
(* The durable event log and dedupe store (kernel/persistence): worker     *)
(* processes that share one database, each through its own connection.     *)
(* Three backends store the same two tables and differ in when they take   *)
(* the write lock and in what they read before they hold it:               *)
(*   "sqlite"      two files, SQLiteKernelRuntimeEventLog and              *)
(*                 SQLiteDedupeStore: the next offset is read in           *)
(*                 autocommit mode, before the transaction of the inserts; *)
(*   "colocated"   one file, ColocatedSQLiteBundle: an append is a deferred*)
(*                 transaction, every dedupe call an immediate one, and    *)
(*                 atomic_dispatch_record writes both tables in one;       *)
(*   "postgres"    an advisory lock per run, a row lock per key.           *)
(* One step is what the database makes atomic: reads of one snapshot, the  *)
(* statements under a held lock, COMMIT.  The threading lock of a process  *)
(* makes its calls run one after the other.                                *)
(***************************************************************************)
EXTENDS Integers, FiniteSetsExt

CONSTANTS
  Conns,          \* worker processes, each with its connection
  Streams,        \* run ids
  SqlKeys,        \* dispatch idempotency keys
  Backends,       \* the backends a behaviour may use
  SqlBatches,     \* the sets of calls a behaviour may make, each call once
  SqlFaults       \* subset of {"statement", "busy", "death"}

(* A call names a connection, a run and a key; two calls write two commits;*)
(* and the commit of an atomic_dispatch_record has an event.               *)
ASSUME SqlAssumption ==
  /\ "free" \notin Conns
  /\ \A batch \in SqlBatches :
       /\ \A q \in batch :
            /\ q.conn \in Conns /\ q.key \in SqlKeys /\ q.run \in Streams
            /\ q.n \in Nat
            /\ q.op = "atomic" => q.n > 0
       /\ \A p, q \in batch : p.name = q.name => p = q

VARIABLES
  backend,
  rows,           \* committed rows of runtime_events
  records,        \* committed rows of the dedupe table; "absent" = none
  version,        \* commits of the colocated file, what a snapshot is of
  locks,          \* holder of each write lock, "free"
  tx,             \* the open transaction of each connection
  answers         \* what each call was answered, "none" before it returns

sqlVars == <<backend, rows, records, version, locks, tx, answers>>

Store == INSTANCE DedupeStore WITH StoreKeys <- SqlKeys

(* A call: its name, the connection it runs on, the method, the key and    *)
(* the run it is about, and the number of events of its commit.            *)
SqlCall(name, conn, op, key, run, n) ==
  [name |-> name, conn |-> conn, op |-> op, key |-> key, run |-> run, n |-> n]

NoTx == [phase |-> "idle"]

(* What a writer of each backend locks: the file, the run, or the row.     *)
(* The stores of the sqlite backend may have a file each; a runtime that   *)
(* gives both the same path has fewer interleavings than these.            *)
LockOf(q) ==
  CASE backend = "sqlite"    -> IF q.op = "append" THEN "log" ELSE "dedupe"
    [] backend = "colocated" -> "file"
    [] OTHER                 -> IF q.op = "append" THEN q.run ELSE q.key

Lockable == {"log", "dedupe", "file"} \cup Streams \cup SqlKeys

SqlInit ==
  /\ backend \in Backends
  /\ rows = {}
  /\ Store!StoreInit
  /\ version = 0
  /\ locks = [l \in Lockable |-> "free"]
  /\ tx = [c \in Conns |-> NoTx]
  /\ \E batch \in SqlBatches : answers = [q \in batch |-> "none"]
-----------------------------------------------------------------------------
Waiting(q, b, op) ==
  /\ backend = b
  /\ q.op = op
  /\ answers[q] = "none"
  /\ tx[q.conn] = NoTx

Free(q) == locks[LockOf(q)] = "free"

Reply(q, a) == answers' = [answers EXCEPT ![q] = a]

(* The call ends without effect: ROLLBACK and what the caller is told.     *)
EndWithout(q, a) ==
  /\ tx' = [tx EXCEPT ![q.conn] = NoTx]
  /\ locks' = [l \in Lockable |-> IF locks[l] = q.conn THEN "free" ELSE locks[l]]
  /\ Reply(q, a)
  /\ UNCHANGED <<backend, rows, records, version>>

(* The statements of the call are executed under the lock, uncommitted:    *)
(* `new` are rows of the event table, `state` the record of the call's key.*)
Written(q, new, state) ==
  /\ tx' = [tx EXCEPT ![q.conn] =
              [phase |-> "written", call |-> q, new |-> new, state |-> state]]
  /\ locks' = [locks EXCEPT ![LockOf(q)] = q.conn]
  /\ UNCHANGED <<backend, rows, records, version, answers>>

(* COALESCE(MAX(commit_offset), 0) + 1 of the committed rows of the run.   *)
NextOffset(r) == Max({row.offset : row \in {e \in rows : e.run = r}} \cup {0}) + 1

(* The rows of one commit, numbered from the offset that was read.         *)
EventRows(q, next) ==
  {[run |-> q.run, offset |-> next + i - 1, commit |-> q.name, index |-> i,
    key |-> q.key] : i \in 1..q.n}

(* UNIQUE (stream_run_id, commit_offset) rejects the insert.               *)
Taken(new) == \E a \in rows, b \in new : a.run = b.run /\ a.offset = b.offset
-----------------------------------------------------------------------------
(* SQLite event log: the offset is read before any lock is held.           *)
SqliteLoadNextOffset(q) ==
  /\ Waiting(q, "sqlite", "append")
  /\ tx' = [tx EXCEPT ![q.conn] =
              [phase |-> "read", call |-> q, next |-> NextOffset(q.run), seen |-> 0]]
  /\ UNCHANGED <<backend, rows, records, version, locks, answers>>

(* Mutant: the table has no unique key on the offset.                      *)
SqliteInsertRowsUnchecked(c) ==
  /\ backend = "sqlite" /\ tx[c].phase = "read" /\ Free(tx[c].call)
  /\ Written(tx[c].call, EventRows(tx[c].call, tx[c].next), "absent")

(* The first INSERT takes the write lock; an offset that another process   *)
(* took in the meantime breaks the unique key and the commit is rolled     *)
(* back as a whole.                                                        *)
SqliteInsertRows(c) ==
  /\ backend = "sqlite" /\ tx[c].phase = "read" /\ Free(tx[c].call)
  /\ LET q == tx[c].call  new == EventRows(q, tx[c].next) IN
       IF Taken(new) THEN EndWithout(q, "raised") ELSE Written(q, new, "absent")

(* Colocated event log: BEGIN and the SELECT fix the snapshot; the INSERT  *)
(* upgrades to a writer and fails when the snapshot is no longer current.  *)
ColocatedNextOffset(q) ==
  /\ Waiting(q, "colocated", "append")
  /\ tx' = [tx EXCEPT ![q.conn] =
              [phase |-> "read", call |-> q, next |-> NextOffset(q.run), seen |-> version]]
  /\ UNCHANGED <<backend, rows, records, version, locks, answers>>

ColocatedInsertRows(c) ==
  /\ backend = "colocated" /\ tx[c].phase = "read" /\ Free(tx[c].call)
  /\ LET q == tx[c].call IN
       IF tx[c].seen # version
         THEN EndWithout(q, "raised")
         ELSE Written(q, EventRows(q, tx[c].next), "absent")

(* Postgres: the advisory lock of the run comes before the read.           *)
PgAppendActionCommit(q) ==
  /\ Waiting(q, "postgres", "append") /\ Free(q)
  /\ Written(q, EventRows(q, NextOffset(q.run)), "absent")
-----------------------------------------------------------------------------
(* reserve and reserve_and_dispatch: BEGIN IMMEDIATE, or INSERT .. ON      *)
(* CONFLICT DO NOTHING; an existing record is reported as a duplicate and  *)
(* the transaction given up.                                               *)
InsertRecord(q, new, state) ==
  /\ Free(q)
  /\ IF records[q.key] # "absent"
       THEN EndWithout(q, "duplicate")
       ELSE Written(q, new, state)

(* The mark_ calls: the record is read under the lock, and a state the     *)
(* call does not accept raises DedupeStoreStateError.                      *)
Transition(q, from, to) ==
  /\ Free(q)
  /\ IF records[q.key] \in from
       THEN Written(q, {}, to)
       ELSE EndWithout(q, "raised")

SqliteReserve(q) == Waiting(q, "sqlite", "reserve") /\ InsertRecord(q, {}, "reserved")
SqliteReserveAndDispatch(q) ==
  Waiting(q, "sqlite", "reserve_and_dispatch") /\ InsertRecord(q, {}, "dispatched")
SqliteMarkDispatched(q) ==
  Waiting(q, "sqlite", "dispatched") /\ Transition(q, {"reserved", "dispatched"}, "dispatched")
SqliteMarkAcknowledged(q) ==
  /\ Waiting(q, "sqlite", "acknowledged")
  /\ Transition(q, {"dispatched", "acknowledged"}, "acknowledged")
SqliteMarkSucceeded(q) ==
  /\ Waiting(q, "sqlite", "succeeded")
  /\ Transition(q, {"acknowledged", "succeeded"}, "succeeded")
SqliteMarkUnknownEffect(q) ==
  /\ Waiting(q, "sqlite", "unknown")
  /\ Transition(q, {"dispatched", "unknown_effect"}, "unknown_effect")

ColocatedReserve(q) ==
  Waiting(q, "colocated", "reserve") /\ InsertRecord(q, {}, "reserved")
ColocatedReserveAndDispatch(q) ==
  Waiting(q, "colocated", "reserve_and_dispatch") /\ InsertRecord(q, {}, "dispatched")
ColocatedMarkDispatched(q) ==
  /\ Waiting(q, "colocated", "dispatched")
  /\ Transition(q, {"reserved", "dispatched"}, "dispatched")
ColocatedMarkAcknowledged(q) ==
  /\ Waiting(q, "colocated", "acknowledged")
  /\ Transition(q, {"dispatched", "acknowledged"}, "acknowledged")
ColocatedMarkSucceeded(q) ==
  /\ Waiting(q, "colocated", "succeeded")
  /\ Transition(q, {"acknowledged", "succeeded"}, "succeeded")

(* Mutant: an acknowledged record can be marked unknown.                   *)
ColocatedMarkUnknownEffectOnAck(q) ==
  /\ Waiting(q, "colocated", "unknown")
  /\ Transition(q, {"dispatched", "acknowledged", "unknown_effect"}, "unknown_effect")

ColocatedMarkUnknownEffect(q) ==
  /\ Waiting(q, "colocated", "unknown")
  /\ Transition(q, {"dispatched", "unknown_effect"}, "unknown_effect")

PgReserve(q) == Waiting(q, "postgres", "reserve") /\ InsertRecord(q, {}, "reserved")
PgReserveAndDispatch(q) ==
  Waiting(q, "postgres", "reserve_and_dispatch") /\ InsertRecord(q, {}, "dispatched")
PgTransition(q) ==
  \/ /\ Waiting(q, "postgres", "dispatched")
     /\ Transition(q, {"reserved", "dispatched"}, "dispatched")
  \/ /\ Waiting(q, "postgres", "acknowledged")
     /\ Transition(q, {"dispatched", "acknowledged"}, "acknowledged")
  \/ /\ Waiting(q, "postgres", "succeeded")
     /\ Transition(q, {"acknowledged", "succeeded"}, "succeeded")
  \/ /\ Waiting(q, "postgres", "unknown")
     /\ Transition(q, {"dispatched", "unknown_effect"}, "unknown_effect")

(* Mutant: the reservation is committed before the events.                 *)
AtomicDispatchRecordReservesFirst(q) ==
  /\ Waiting(q, "colocated", "atomic")
  /\ \/ /\ records[q.key] = "absent" /\ Free(q)
        /\ records' = [records EXCEPT ![q.key] = "reserved"]
        /\ tx' = [tx EXCEPT ![q.conn] =
                    [phase |-> "read", call |-> q, next |-> NextOffset(q.run), seen |-> version]]
        /\ UNCHANGED <<backend, rows, version, locks, answers>>
     \/ /\ records[q.key] # "absent" /\ Free(q)
        /\ EndWithout(q, "duplicate")

(* atomic_dispatch_record: the reservation and the event commit are written*)
(* in one immediate transaction.                                           *)
AtomicDispatchRecord(q) ==
  /\ Waiting(q, "colocated", "atomic")
  /\ InsertRecord(q, EventRows(q, NextOffset(q.run)), "reserved")
-----------------------------------------------------------------------------
(* COMMIT: the database makes the statements visible and durable together. *)
CommitTransaction(c) ==
  /\ tx[c].phase = "written"
  /\ LET t == tx[c]  q == t.call IN
       /\ rows' = rows \cup t.new
       /\ records' = IF t.state = "absent" THEN records
                     ELSE [records EXCEPT ![q.key] = t.state]
       /\ version' = IF backend = "colocated" THEN version + 1 ELSE version
       /\ locks' = [locks EXCEPT ![LockOf(q)] = "free"]
       /\ Reply(q, "ok")
  /\ tx' = [tx EXCEPT ![c] = NoTx]
  /\ UNCHANGED backend

(* A statement of an open transaction fails (disk full, constraint): the   *)
(* except path rolls the transaction back and raises.                      *)
Rollback(c) ==
  /\ "statement" \in SqlFaults
  /\ tx[c].phase = "written"
  /\ EndWithout(tx[c].call, "raised")

(* busy_timeout: a SQLite writer that waits too long for the lock raises   *)
(* "database is locked"; nothing was written.                              *)
BusyTimeout(q) ==
  /\ "busy" \in SqlFaults
  /\ backend # "postgres"
  /\ ~Free(q)
  /\ answers[q] = "none"
  /\ \/ tx[q.conn] = NoTx /\ q.op # "append"
     \/ tx[q.conn].phase = "read" /\ tx[q.conn].call = q
  /\ EndWithout(q, "raised")

(* The process dies: the database discards what it had not committed.      *)
ProcessDies(c) ==
  /\ "death" \in SqlFaults
  /\ tx[c].phase # "idle"
  /\ EndWithout(tx[c].call, "lost")

SqlBegin(q) ==
  \/ SqliteLoadNextOffset(q)
  \/ ColocatedNextOffset(q)
  \/ PgAppendActionCommit(q)
  \/ SqliteReserve(q)
  \/ SqliteReserveAndDispatch(q)
  \/ SqliteMarkDispatched(q)
  \/ SqliteMarkAcknowledged(q)
  \/ SqliteMarkSucceeded(q)
  \/ SqliteMarkUnknownEffect(q)
  \/ ColocatedReserve(q)
  \/ ColocatedReserveAndDispatch(q)
  \/ ColocatedMarkDispatched(q)
  \/ ColocatedMarkAcknowledged(q)
  \/ ColocatedMarkSucceeded(q)
  \/ ColocatedMarkUnknownEffect(q)
  \/ PgReserve(q)
  \/ PgReserveAndDispatch(q)
  \/ PgTransition(q)
  \/ AtomicDispatchRecord(q)
  \/ BusyTimeout(q)

SqlNext ==
  \/ \E q \in DOMAIN answers : SqlBegin(q)
  \/ \E c \in Conns :
       \/ SqliteInsertRows(c)
       \/ ColocatedInsertRows(c)
       \/ CommitTransaction(c)
       \/ Rollback(c)
       \/ ProcessDies(c)

SqlSpec == SqlInit /\ [][SqlNext]_sqlVars
-----------------------------------------------------------------------------
RowsOf(q) == {e \in rows : e.commit = q.name}

(* The log a reader loads has no gap and no two events at one offset, and  *)
(* the events of one commit sit next to each other in order, whichever     *)
(* process appended them and whatever failed in between: the next offset   *)
(* may be read before the lock is taken (sqlite_event_log.py:84-91).       *)
OffsetsAreDense ==
  \A r \in Streams :
    LET mine == {e \in rows : e.run = r} IN
      /\ {e.offset : e \in mine} = 1..Cardinality(mine)
      /\ \A q \in DOMAIN answers :
           RowsOf(q) \cap mine # {} =>
             \E first \in {e.offset : e \in mine} : RowsOf(q) = EventRows(q, first)

(* atomic_dispatch_record: a key has its dispatch event exactly when one   *)
(* call reserved it, however many workers race for the key and wherever    *)
(* one of them dies (sqlite_colocated_bundle.py:660-666).                  *)
AtomicDispatchIsWhole ==
  \A k \in SqlKeys :
    LET atomic == {q \in DOMAIN answers : q.op = "atomic" /\ q.key = k}
        others == {q \in DOMAIN answers :
                     q.op \in {"reserve", "reserve_and_dispatch"} /\ q.key = k
                     /\ answers[q] = "ok"}
        wrote  == {q \in atomic : RowsOf(q) # {}}
    IN  /\ Cardinality(wrote) + Cardinality(others) <= 1
        /\ records[k] # "absent" => Cardinality(wrote) + Cardinality(others) = 1

(* The dedupe table of every backend keeps the promise of the in-memory    *)
(* store: each committed change is one legal transition of one key.        *)
SqlStoreIsADedupeStore == Store!StoreSpec
=============================================================================
