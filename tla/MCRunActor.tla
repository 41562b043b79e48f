------------------------------ MODULE MCRunActor ------------------------------
(* Small instances of RunActor. The deliveries of a configuration are      *)
(* chosen from these.                                                      *)
EXTENDS RunActor

CONSTANTS act,              \* a commit with an action
          cancel,           \* an operator's cancel request
          finish,           \* a driver's run.completed fact
          timeout,          \* a timeout signal
          gate,             \* the facade's open_human_gate
          spawn1, spawn2,   \* the facade's spawn_child_run, one cause for all
          peer,             \* a callback from the first child
          c1, c2            \* child runs

Call(kind, type, cause) ==
  [kind |-> kind, type |-> type, caused_by |-> cause, reason |-> "none",
   child |-> {}, peer |-> {}]

Spawn(c) ==
  [Call("signal", "child_spawned", "kernel_facade.spawn_child_run")
     EXCEPT !.child = {c}]

MCInput ==
  [d \in Deliveries |->
     CASE d = act     -> Call("action", "action_committed", "")
       [] d = cancel  -> Call("signal", "cancel_requested", "operator")
       [] d = finish  -> Call("fact", "run.completed", "")
       [] d = timeout -> Call("signal", "timeout", "")
       [] d = gate    -> Call("signal", "human_gate_opened",
                              "kernel_facade.open_human_gate")
       [] d = spawn1  -> Spawn(c1)
       [] d = spawn2  -> Spawn(c2)
       [] d = peer    -> [Call("signal", "external_callback", "callback")
                            EXCEPT !.peer = {c1}]]
=============================================================================
