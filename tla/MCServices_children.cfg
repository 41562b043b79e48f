CONSTANTS
  Parts = {"children"}
  f1 = f1  f2 = f2  r1 = r1  r2 = r2  b1 = b1  s1 = s1  g1 = g1
  child = child  key1 = key1  key2 = key2
  c1 = c1  c2 = c2  c3 = c3  k1 = k1  k2 = k2  w1 = w1  w2 = w2
  old = old  current = current  orphan = orphan
  Facades = {f1, f2}
  Runs = {r1, r2}
  Branches = {b1}
  Stages = {s1}
  Gates = {g1}
  Batches <- MCBatches
  MaxTracked = 1
  TraceFaults = {"signal", "restart"}
  RunIds = {r1, child}
  Keys = {key1, key2}
  CallBatches <- MCCallBatches
  Stoppers = {stop1, stop2}
  MaxCache = 1
  Background = {probe}
  RuntimeFaults = {"handler", "drain_timeout"}
  Conns = {c1, c2, c3}
  Streams = {r1, r2}
  SqlKeys = {k1, k2}
  Backends = {"sqlite", "colocated", "postgres"}
  SqlBatches <- MCSqlBatches
  SqlFaults = {"statement", "busy", "death"}
  Instances = {i1, i2}
  LogLimit = 4
  Diagnostic = {2, 4}
  MaxRestarts = 1
  Commits = {old, current, orphan}
  VersionOf <- MCVersionOf
  Target = "3"
  Registered <- MCRegistered
  ExportFaults = {"inner", "export"}
  Upgraders = {u1, u2}
  Versions = {1, 2}
  Repeatable = {1}
  MaxUpgrades = 2
  Actions <- MCActions
  DefaultPolicy <- MCDefaultPolicy
  FilePolicies <- MCFilePolicies
  WindowLength = 2
  MaxClock = 3
  ScriptBatches <- MCScriptBatches
  AppHosts <- MCHosts
  Workers = {w1, w2}
  ScriptFaults = {"store", "runtime", "cancel", "death"}
  Runtimes = {rt1, rt2}
  NoBundle = NoBundle
  SubstrateFaults = {"connect", "sdk", "worker"}
  RunNames = {r1, r2, child}
  NoParent = NoParent
  RunCallBatches <- MCRunCallBatches
  Cycles = {cycle}
  MaxRetries = 3
  BaseDelay = 1
  RetryAfter = {0, 3}
  ReasoningFaults = {"context", "provider", "cancel"}
  MaxMoment = 6
SPECIFICATION MCSpec
INVARIANTS
  SignalsReachOpenRuns
CHECK_DEADLOCK FALSE
