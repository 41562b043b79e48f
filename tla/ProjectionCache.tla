--------------------------- MODULE ProjectionCache ---------------------------
(***************************************************************************)
(* The projection snapshot cache (persistence/sqlite_projection_cache.py): *)
(* kernel instances that keep the projection of a run in memory, seed it   *)
(* from one shared SQLite row after a restart, and overwrite that row      *)
(* after every catch_up, whichever of them is ahead.  The projection       *)
(* itself is abstracted to the offset it has reached and the events it has *)
(* consumed, in order; the run state it computes is the projection model's.*)
(***************************************************************************)
EXTENDS Naturals, Sequences

CONSTANTS
  Instances,          \* kernel instances sharing the snapshot file
  LogLimit,           \* bound on the events of the run
  Diagnostic,         \* offsets of derived_diagnostic events, not replayed
  MaxRestarts         \* bound on the restarts of instances

ASSUME CacheAssumption == LogLimit \in Nat

VARIABLES
  logged,             \* events in the authoritative log: 1..logged
  memory,             \* _projection_by_run of each instance
  snapshot,           \* the row of projection_snapshots
  reading,            \* the catch_up or get of each instance inside its lock
  restarts

cacheVars == <<logged, memory, snapshot, reading, restarts>>

NoProjection == [offset |-> 0, seen |-> <<>>, present |-> FALSE]
NotReading   == [busy |-> FALSE, base |-> NoProjection, upto |-> 0, save |-> FALSE]

CacheInit ==
  /\ logged = 0
  /\ memory = [i \in Instances |-> NoProjection]
  /\ snapshot = NoProjection
  /\ reading = [i \in Instances |-> NotReading]
  /\ restarts = 0

LogGrows ==
  /\ logged < LogLimit
  /\ logged' = logged + 1
  /\ UNCHANGED <<memory, snapshot, reading, restarts>>

(* _maybe_seed: the row is taken only when the instance knows nothing.     *)
Seed(i) == IF ~memory[i].present /\ snapshot.present THEN snapshot ELSE memory[i]

(* The unseen events through `upto` that carry authority are applied in    *)
(* order; projected_offset is the offset of the last one applied.          *)
Replay(p, last, upto) ==
  LET replayed[n \in 0..last] ==
        IF n <= p.offset THEN [p EXCEPT !.present = TRUE]
        ELSE IF n > upto \/ n \in Diagnostic THEN replayed[n - 1]
        ELSE [offset |-> n, seen |-> Append(replayed[n - 1].seen, n), present |-> TRUE]
  IN  replayed[last]

(* catch_up and get: the memory is seeded, the lock of the run is taken    *)
(* and the log is asked for what is unseen.                                *)
ReadBegins(i, upto, save) ==
  /\ ~reading[i].busy
  /\ memory' = [memory EXCEPT ![i] = Seed(i)]
  /\ reading' = [reading EXCEPT ![i] =
                   [busy |-> TRUE, base |-> Seed(i), upto |-> upto, save |-> save]]
  /\ UNCHANGED <<logged, snapshot, restarts>>

CatchUp(i) == \E upto \in 1..LogLimit : ReadBegins(i, upto, TRUE)

Get(i) == ReadBegins(i, LogLimit, FALSE)

(* Mutant: the projection claims the offset that was asked for.            *)
ReadEndsAtTarget(i) ==
  /\ reading[i].busy
  /\ LET r == reading[i]  p == [Replay(r.base, logged, r.upto) EXCEPT !.offset = r.upto] IN
       /\ memory' = [memory EXCEPT ![i] = p]
       /\ snapshot' = IF r.save THEN p ELSE snapshot
  /\ reading' = [reading EXCEPT ![i] = NotReading]
  /\ UNCHANGED <<logged, restarts>>

(* The events arrived: the projection is stored, and after catch_up saved  *)
(* over whatever row is there.                                             *)
ReadEnds(i) ==
  /\ reading[i].busy
  /\ LET r == reading[i]  p == Replay(r.base, logged, r.upto) IN
       /\ memory' = [memory EXCEPT ![i] = p]
       /\ snapshot' = IF r.save THEN p ELSE snapshot
  /\ reading' = [reading EXCEPT ![i] = NotReading]
  /\ UNCHANGED <<logged, restarts>>

InstanceRestarts(i) ==
  /\ restarts < MaxRestarts
  /\ restarts' = restarts + 1
  /\ memory' = [memory EXCEPT ![i] = NoProjection]
  /\ reading' = [reading EXCEPT ![i] = NotReading]
  /\ UNCHANGED <<logged, snapshot>>

CacheNext ==
  \/ LogGrows
  \/ \E i \in Instances :
       \/ CatchUp(i)
       \/ Get(i)
       \/ ReadEnds(i)
       \/ InstanceRestarts(i)

CacheSpec == CacheInit /\ [][CacheNext]_cacheVars
-----------------------------------------------------------------------------
(* The events with authority up to an offset.                              *)
Authority[n \in 0..LogLimit] ==
  IF n = 0 THEN <<>>
  ELSE IF n \in Diagnostic THEN Authority[n - 1]
  ELSE Append(Authority[n - 1], n)

(* A snapshot is a replay of the log up to its own offset, no event lost   *)
(* and none applied twice, also when an instance that is behind overwrites *)
(* a newer row, and an instance restarts from either.                      *)
SnapshotsReplayTheLog ==
  /\ snapshot.seen = Authority[snapshot.offset]
  /\ \A i \in Instances : memory[i].seen = Authority[memory[i].offset]
=============================================================================
