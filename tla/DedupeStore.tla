----------------------------- MODULE DedupeStore -----------------------------
(***************************************************************************)
(* The idempotency store of the kernel (kernel/dedupe_store.py): one       *)
(* record per dispatch key, whose state only moves forward.                *)
(*                                                                         *)
(* The module is used twice.  Its operators are the store calls that the   *)
(* turn engine, the outbox reconciler, the compensation registry and the   *)
(* script runtime make, and its specification StoreSpec is what a store    *)
(* promises them, which the SQL backends are shown to keep (SqlStores).    *)
(***************************************************************************)
CONSTANT StoreKeys        \* every dispatch idempotency key, of any shape

VARIABLE records          \* the state of each key; "absent" = no record

RecordStates == {"absent", "reserved", "dispatched", "acknowledged",
                 "succeeded", "unknown_effect"}

StoreTypeOK == records \in [StoreKeys -> RecordStates]

StoreInit == records = [k \in StoreKeys |-> "absent"]
-----------------------------------------------------------------------------
(***************************************************************************)
(* A call that finds the record in none of the states it accepts raises    *)
(* DedupeStoreStateError (or reports a duplicate) and changes nothing.     *)
(***************************************************************************)
MoveTo(k, from, to) ==
  /\ records[k] \in from
  /\ records' = [records EXCEPT ![k] = to]

Reserve(k)            == MoveTo(k, {"absent"}, "reserved")
ReserveAndDispatch(k) == MoveTo(k, {"absent"}, "dispatched")
MarkDispatched(k)     == MoveTo(k, {"reserved", "dispatched"}, "dispatched")
MarkAcknowledged(k)   == MoveTo(k, {"dispatched", "acknowledged"}, "acknowledged")
MarkSucceeded(k)      == MoveTo(k, {"acknowledged", "succeeded"}, "succeeded")
MarkUnknownEffect(k)  == MoveTo(k, {"dispatched", "unknown_effect"}, "unknown_effect")

StoreStep(k) ==
  \/ Reserve(k)
  \/ ReserveAndDispatch(k)
  \/ MarkDispatched(k)
  \/ MarkAcknowledged(k)
  \/ MarkSucceeded(k)
  \/ MarkUnknownEffect(k)

StoreNext == \E k \in StoreKeys : StoreStep(k)

(* The promise of the store: whatever its callers do, every step is one    *)
(* legal transition of one key, so no record is dropped, revived or moved  *)
(* backwards (the transition graph of InMemoryDedupeStore).                *)
StoreSpec == StoreInit /\ [][StoreNext]_records
-----------------------------------------------------------------------------
(* What StoreSpec promises to a reader of one record: a settled record     *)
(* never changes its verdict.  An effect recorded as acknowledged is never *)
(* reported unknown later, an unknown one never silently acknowledged, and *)
(* a key once taken is never free again.                                   *)
VerdictIsFinal ==
  [][\A k \in StoreKeys :
       /\ records[k] # "absent" => records'[k] # "absent"
       /\ records[k] \in {"acknowledged", "succeeded"} =>
            records'[k] \in {"acknowledged", "succeeded"}
       /\ records[k] = "unknown_effect" => records'[k] = "unknown_effect"]_records
=============================================================================
