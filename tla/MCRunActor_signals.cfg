CONSTANTS
  act = act
  cancel = cancel
  finish = finish
  timeout = timeout
  gate = gate
  spawn1 = spawn1
  spawn2 = spawn2
  peer = peer
  c1 = c1
  c2 = c2
  Children = {c1, c2}
  Deliveries = {spawn1, spawn2, peer}
  Input <- MCInput
  Threshold = 2
  PinPolicy = TRUE
  MaxTrace = 1
  MaxDrives = 1
  Faults = {"append"}
SPECIFICATION Spec
CHECK_DEADLOCK FALSE
INVARIANTS
  DroppedSignalIsLogged
