CONSTANTS
  k1 = k1
  k2 = k2
  k3 = k3
  l1 = l1
  l3 = l3
  f1 = f1
  f3 = f3
  Turns = {t1, t2}
  Keys = {k1, k2, k3}
  LegacyKeys = {l1, l3}
  StoreKeys = {k1, k2, k3, l1, l3}
  Fingerprints = {f1, f3}
  LegacyOf <- MCLegacyOf
  ActionOf <- MCActionOf
  FingerprintOf <- MCFingerprintOf
  MaxAttempts = 1
  Faults = {"store", "timeout", "crash"}
SPECIFICATION OSpec
SYMMETRY TurnSymmetry
INVARIANTS
  SweepPreservesTurns
