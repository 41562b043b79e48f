CONSTANTS
  k1 = k1
  k2 = k2
  k3 = k3
  l1 = l1
  l3 = l3
  f1 = f1
  f3 = f3
  Turns = {t1}
  Keys = {k1, k2}
  LegacyKeys = {l1}
  StoreKeys = {k1, k2, l1}
  Fingerprints = {f1}
  LegacyOf <- MCLegacyOf
  ActionOf <- MCActionOf
  FingerprintOf <- MCFingerprintOf
  MaxAttempts = 1
  Faults = {"crash"}
SPECIFICATION OFairSpec
PROPERTIES
  CrashedDispatchIsRepaired
