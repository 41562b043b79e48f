------------------------- MODULE MCOutboxReconciler -------------------------
(***************************************************************************)
(* TLC instances of OutboxReconciler: k1 and k2 share a legacy key (one    *)
(* action under two capability snapshots), k3 has its own.                 *)
(***************************************************************************)
EXTENDS OutboxReconciler, TLC

CONSTANTS k1, k2, k3, l1, l3, f1, f3

MCLegacyOf == [k \in Keys |-> IF k = k3 THEN l3 ELSE l1]
MCFingerprintOf == [l \in LegacyKeys |-> IF l = l3 THEN f3 ELSE f1]

LocalWrite(effect_class) ==
  [effect_class |-> effect_class, host |-> "unset", level |-> "unset",
   contract |-> "missing"]

MCActionOf ==
  [k \in Keys |-> LocalWrite(CASE k = k1 -> "idempotent_write"
                               [] k = k2 -> "irreversible_write"
                               [] k = k3 -> "compensatable_write")]

TurnSymmetry == Permutations(Turns)
=============================================================================
