CONSTANTS
  w = w
  x = x
  a1 = a1
  a2 = a2
  NoClass = NoClass
  NoAction = NoAction
  Runs = {r1, r2}
  Classes = {w, x}
  Actions = {a1, a2}
  ClassOf <- MCClassOf
  Inputs <- MCInputs
  Handlers = {w}
  Threshold = 2
  Cooldown = 2
  MaxCompensations = 2
  MaxRounds = 1
  Probed = {w}
  Faults = {"store", "breaker", "probe", "crash"}
  NoTask = NoTask
  NoRun = NoRun
  Tasks = {t1, t2}
  TaskRuns = {r1, r2}
  MaxTasks = 1
  MaxEvents = 6
  StallAfter = 1
  UpdateStates = {"aborted", "failed"}
  MaxRestarts = 1
  TaskFaults = {"append"}
  HRuns = {r1, r2}
  Monitored = {"dispatching"}
  Unmonitored = {"ready"}
  SilentAfter = 2
  HFaults = {"unsent", "raised", "stop"}
  Probes = {p1, p2}
  StaleAge = 1
  Required = {"event_log"}
SPECIFICATION MCSpec
INVARIANTS
  CompensatedByOneCaller CompensationRecordIsTrue
  ReplayRestoresState ReadinessIsRecent ReplaysKeepAttempts
PROPERTIES
  BreakerIsImplemented OpenCircuitHalfOpens
  StallIsReported SilentRunIsSignalled
CHECK_DEADLOCK FALSE
