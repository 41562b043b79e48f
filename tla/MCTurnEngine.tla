---------------------------- MODULE MCTurnEngine ----------------------------
(***************************************************************************)
(* TLC instances of TurnEngine.  k1 and k2 are the same action id at the   *)
(* same offset under two capability snapshots, so they share a legacy key; *)
(* k3 is a remote write that claims a guarantee its contract does not back.*)
(***************************************************************************)
EXTENDS TurnEngine, TLC

CONSTANTS k1, k2, k3, l1, l3

MCKeys == {k1, k2, k3}
MCLegacyKeys == {l1, l3}
MCStoreKeys == MCKeys \cup MCLegacyKeys
MCLegacyOf == k1 :> l1 @@ k2 :> l1 @@ k3 :> l3

LocalWrite(effect_class) ==
  [effect_class |-> effect_class, host |-> "unset", level |-> "unset",
   contract |-> "missing"]

MCActionOf ==
  k1 :> LocalWrite("idempotent_write") @@
  k2 :> LocalWrite("irreversible_write") @@
  k3 :> [effect_class |-> "compensatable_write", host |-> "unset",
         level |-> "guaranteed", contract |-> "weak"]

TurnSymmetry == Permutations(Turns)
=============================================================================
