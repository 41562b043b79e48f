CONSTANTS
  act = act
  cancel = cancel
  finish = finish
  timeout = timeout
  gate = gate
  spawn1 = spawn1
  spawn2 = spawn2
  peer = peer
  c1 = c1
  c2 = c2
  Children = {c1, c2}
  Deliveries = {timeout, gate}
  Input <- MCInput
  Threshold = 10
  PinPolicy = FALSE
  MaxTrace = 0
  MaxDrives = 1
  Faults = {}
SPECIFICATION Spec
CHECK_DEADLOCK FALSE
INVARIANT GateBlocksResume
