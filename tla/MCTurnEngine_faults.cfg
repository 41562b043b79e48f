CONSTANTS
  k1 = k1
  k2 = k2
  k3 = k3
  l1 = l1
  l3 = l3
  Turns = {t1, t2, t3}
  Keys <- MCKeys
  LegacyKeys <- MCLegacyKeys
  StoreKeys <- MCStoreKeys
  LegacyOf <- MCLegacyOf
  ActionOf <- MCActionOf
  MaxAttempts = 2
  Faults = {"store", "timeout", "crash"}
SPECIFICATION Spec
SYMMETRY TurnSymmetry
INVARIANTS
  AtMostOneDispatchPerKey
  AcknowledgedIsTrue
  ReturnedTurnIsSettled
  EffectIsBounded
