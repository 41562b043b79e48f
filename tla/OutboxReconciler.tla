-------------------------- MODULE OutboxReconciler --------------------------
(***************************************************************************)
(* Turns of the TurnEngine composed with the event log records of their    *)
(* outcomes and with the sweeps of ScheduledOutboxReconciler               *)
(* (kernel/persistence/dispatch_outbox_reconciler.py), which cross-checks  *)
(* the store with the log (kernel/persistence/consistency.py).  One run.   *)
(*                                                                         *)
(* The checker enumerates the keys that start with `run_id:', which are    *)
(* the legacy keys: a policy key starts with `dispatch:'.  It looks for an *)
(* event whose idempotency_key is the key; the outcome event of a turn     *)
(* carries its decision fingerprint instead.                               *)
(***************************************************************************)
EXTENDS TurnEngine

CONSTANTS Fingerprints,   \* decision fingerprints `run:trigger:action:offset'
          FingerprintOf   \* LegacyKeys -> Fingerprints

ASSUME FingerprintAssumption ==
  /\ FingerprintOf \in [LegacyKeys -> Fingerprints]
  /\ Fingerprints \cap StoreKeys = {}

VARIABLES eventKeys,  \* idempotency keys of the events in the log
          sweep,      \* where the scheduler is
          seen,       \* the idempotency keys the sweep loaded
          todo,       \* orphaned keys still to repair
          target,     \* the key under repair, if any
          read        \* its state when _repair_orphaned_key read it

sweepVars == <<sweep, seen, todo, target, read>>
oVars == <<vars, eventKeys, sweepVars>>

OInit ==
  /\ Init
  /\ eventKeys = {}
  /\ sweep = "sleeping"
  /\ seen = {}
  /\ todo = {}
  /\ target = {}
  /\ read = "absent"
-----------------------------------------------------------------------------
(* RunActorWorkflow appends the outcome of a turn that returned.           *)
AppendOutcome(t) ==
  /\ pc[t] \in {"noop", "blocked", "dispatched", "recovery_pending"}
  /\ eventKeys' = eventKeys \cup {FingerprintOf[LegacyOf[key[t]]]}
  /\ UNCHANGED <<vars, sweepVars>>

(* A process of the version before the key policy, sharing the store       *)
(* during an upgrade, reserved a legacy key and died before dispatching.   *)
OldWriterReserves(l) ==
  /\ "crash" \in Faults
  /\ Reserve(l)
  /\ UNCHANGED <<turnVars, eventKeys, sweepVars>>

(* averify_event_dedupe_consistency awaits the load of the events ...      *)
LoadEvents ==
  /\ sweep = "sleeping"
  /\ sweep' = "loaded"
  /\ seen' = eventKeys
  /\ UNCHANGED <<vars, eventKeys, todo, target, read>>

(* ... and then reads the store.  An event with the key would clear it.    *)
VisibleKeys == {l \in LegacyKeys : records[l] # "absent"}

(* Mutant: the report lists keys in dispatched state only.                 *)
DetectDispatchedOnly ==
  /\ sweep = "loaded"
  /\ sweep' = "repairing"
  /\ todo' = {l \in VisibleKeys \ seen : records[l] = "dispatched"}
  /\ UNCHANGED <<vars, eventKeys, seen, target, read>>


DetectViolations ==
  /\ sweep = "loaded"
  /\ sweep' = "repairing"
  /\ todo' = VisibleKeys \ seen
  /\ UNCHANGED <<vars, eventKeys, seen, target, read>>

(* _repair_orphaned_key reads the record again ...                         *)
RepairGet(l) ==
  /\ sweep = "repairing" /\ target = {} /\ l \in todo
  /\ todo' = todo \ {l}
  /\ IF records[l] \in {"reserved", "dispatched"}
     THEN target' = {l} /\ read' = records[l]
     ELSE UNCHANGED <<target, read>>
  /\ UNCHANGED <<vars, eventKeys, sweep, seen>>

(* Mutants: the repair overwrites the record it read before; it also marks *)
(* the record being mirrored.                                              *)
RepairMarkOverwrites(l) ==
  /\ l \in target
  /\ records' = [records EXCEPT ![l] = "unknown_effect"]
  /\ target' = {} /\ UNCHANGED read
  /\ UNCHANGED <<turnVars, eventKeys, sweep, seen, todo>>

RepairMarkPolicyKeys(l) ==
  /\ l \in target
  /\ records' = [k \in StoreKeys |->
                   IF k = l \/ (k \in Keys /\ LegacyOf[k] = l)
                   THEN "unknown_effect" ELSE records[k]]
  /\ target' = {} /\ UNCHANGED read
  /\ UNCHANGED <<turnVars, eventKeys, sweep, seen, todo>>

(* ... and marks it unknown_effect, a reserved one through dispatched; a   *)
(* refused mark (another writer was first) is skipped.                     *)
RepairMark(l) ==
  /\ l \in target
  /\ IF read = "reserved"
     THEN \/ MarkDispatched(l) /\ read' = "dispatched" /\ UNCHANGED target
          \/ /\ records[l] \notin {"reserved", "dispatched"}
             /\ target' = {} /\ UNCHANGED <<records, read>>
     ELSE /\ \/ MarkUnknownEffect(l)
             \/ records[l] \notin Markable("unacked") /\ UNCHANGED records
          /\ target' = {} /\ UNCHANGED read
  /\ UNCHANGED <<turnVars, eventKeys, sweep, seen, todo>>

SweepDone ==
  /\ sweep = "repairing" /\ todo = {} /\ target = {}
  /\ sweep' = "sleeping"
  /\ seen' = {} /\ read' = "absent"
  /\ UNCHANGED <<vars, eventKeys, todo, target>>

(* An exception other than DedupeStoreStateError ends the task for good:   *)
(* the loop of ScheduledOutboxReconciler catches CancelledError only.      *)
SweepRaises ==
  /\ "store" \in Faults
  /\ sweep \in {"loaded", "repairing"}
  /\ sweep' = "dead"
  /\ seen' = {} /\ todo' = {} /\ target' = {} /\ read' = "absent"
  /\ UNCHANGED <<vars, eventKeys>>

SweepStep ==
  \/ LoadEvents \/ DetectViolations \/ SweepDone
  \/ \E l \in LegacyKeys : RepairGet(l) \/ RepairMark(l)

ONext ==
  \/ Next /\ UNCHANGED <<eventKeys, sweepVars>>
  \/ \E t \in Turns : AppendOutcome(t)
  \/ \E l \in LegacyKeys : OldWriterReserves(l)
  \/ SweepStep
  \/ SweepRaises

OSpec == OInit /\ [][ONext]_oVars

(* The scheduler loops every interval and a turn that can go on does.      *)
OFairSpec ==
  /\ OSpec
  /\ WF_oVars(SweepStep)
  /\ \A t \in Turns : WF_oVars(TurnStep(t) /\ UNCHANGED <<eventKeys, sweepVars>>)
-----------------------------------------------------------------------------
(* A sweep never rewrites what a turn established: with the reconciler     *)
(* running, turns still reach the executor at most once per key and what   *)
(* they returned stays what the store says of the policy key; and a record *)
(* or mirror that says acknowledged still goes back to an executor that    *)
(* acknowledged, whatever a sweep marked in between.                       *)
SweepPreservesTurns ==
  AtMostOneDispatchPerKey /\ ReturnedTurnIsSettled /\ AcknowledgedIsTrue

(* Every legacy record is eventually settled: by its turn, or by a sweep   *)
(* when the turn died, timed out or was never dispatched.                  *)
LegacyRecordsSettle ==
  \A l \in LegacyKeys :
    records[l] \in {"reserved", "dispatched"} ~>
      records[l] \in {"acknowledged", "unknown_effect"}

(* The reconciler's contract (module docstring): "When a process crash     *)
(* leaves a dedupe key in reserved or dispatched state with no             *)
(* corresponding event in the event log, the DispatchOutboxReconciler      *)
(* repairs the inconsistency by transitioning the key to unknown_effect".  *)
CrashedDispatchIsRepaired ==
  \A t \in Turns :
    pc[t] = "crashed" /\ slot[t] = "held" /\ records[key[t]] = "dispatched"
      ~> records[key[t]] = "unknown_effect"
=============================================================================
