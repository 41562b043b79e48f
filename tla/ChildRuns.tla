------------------------------ MODULE ChildRuns ------------------------------
(***************************************************************************)
(* Runs and their children on Temporal: the calls of a client through the  *)
(* facade, the gateway that turns a run id into a workflow id              *)
(* (TemporalSDKWorkflowGateway), the life of the workflows between start   *)
(* and return, and the signals between a run and its parent.               *)
(*                                                                         *)
(* The service itself is external: it refuses to start an id that is open, *)
(* and to signal or cancel one that is not; signals may overtake each      *)
(* other, since the handlers that append them run concurrently.  What one  *)
(* handler does at its awaits is the subject of RunActor; here it is one   *)
(* step.  Of a projection only the active children and whether the run is  *)
(* over are kept.                                                          *)
(***************************************************************************)
EXTENDS Naturals, Sequences

CONSTANTS
  RunNames,             \* run ids
  NoParent,             \* no parent_run_id
  RunCallBatches        \* sets of client calls that occur together

(* A start may name a parent; a spawn always does.                         *)
RunCall(name, op, run, parent) == [name |-> name, op |-> op, run |-> run, parent |-> parent]

ASSUME ChildAssumption ==
  \A batch \in RunCallBatches : \A c \in batch :
    c.run \in RunNames /\ (c.op = "spawn" => c.parent \in RunNames)

(* _workflow_id_for_run and _workflow_id_for_child.                        *)
WorkflowId(r) == <<r>>
ChildWorkflowId(p, r) == <<p, r>>

WorkflowIds ==
  {WorkflowId(r) : r \in RunNames} \cup {ChildWorkflowId(p, r) : p \in RunNames, r \in RunNames}

RunOf(id) == id[Len(id)]

VARIABLES
  execution,            \* of each workflow id, at the service
  parentOf,             \* RunInput.parent_run_id of its last execution
  inbox,                \* signals delivered to executions and not yet handled
  interrupts,           \* executions the service was asked to cancel
  seen,                 \* _seen_signal_tokens of each execution
  active,               \* active_child_runs in the projection of each run
  over,                 \* runs whose projection is completed or aborted
  spawned,              \* _all_child_runs of the facade: parents and children
  request,              \* where each call is
  missed,               \* history: calls refused although their run was open
  unheard               \* history: parents and children whose end may go unheard

childVars == <<execution, parentOf, inbox, interrupts, seen, active, over,
               spawned, request, missed, unheard>>

ChildInit ==
  /\ execution = [id \in WorkflowIds |-> "none"]
  /\ parentOf = [id \in WorkflowIds |-> NoParent]
  /\ inbox = {} /\ interrupts = {}
  /\ seen = [id \in WorkflowIds |-> {}]
  /\ active = [r \in RunNames |-> {}]
  /\ over = {} /\ spawned = {} /\ missed = {} /\ unheard = {}
  /\ \E batch \in RunCallBatches : request = [c \in batch |-> "new"]

At(c, op, where) == c.op = op /\ request[c] = where
Becomes(c, where) == request' = [request EXCEPT ![c] = where]

Open(id) == execution[id] \in {"scheduled", "running", "returning"}
-----------------------------------------------------------------------------
Used(r) == \E w \in WorkflowIds : RunOf(w) = r /\ execution[w] # "none"

(* client.start_workflow: a closed id may be used again.                   *)
StartExecution(id, parent) ==
  /\ execution' = [execution EXCEPT ![id] = "scheduled"]
  /\ parentOf' = [parentOf EXCEPT ![id] = parent]
  /\ seen' = [seen EXCEPT ![id] = {}]
  /\ unheard' = unheard \cup
       {<<p, RunOf(id)>> : p \in {p \in RunNames : Used(RunOf(id))}}

(* handle.signal, with what _handle_signal tells signals apart by.         *)
Signal(to, type, child) == [to |-> to, type |-> type, child |-> child]
Deliver(s) == inbox' = inbox \cup {s}

(* start_run: the gateway starts the id of the run, for a parent or none.  *)
StartRunWorkflow(c) ==
  /\ At(c, "start", "new")
  /\ LET id == WorkflowId(c.run)
     IN  \/ ~Open(id) /\ StartExecution(id, c.parent) /\ Becomes(c, "done")
         \/ Open(id) /\ Becomes(c, "raised") /\ UNCHANGED <<execution, parentOf, seen, unheard>>
  /\ UNCHANGED <<inbox, interrupts, active, over, spawned, missed>>

(* spawn_child_run: the gateway starts the id of the child, which is not   *)
(* the id of its run.                                                      *)
StartChildWorkflow(c) ==
  /\ At(c, "spawn", "new")
  /\ LET id == ChildWorkflowId(c.parent, c.run)
     IN  \/ ~Open(id) /\ StartExecution(id, c.parent) /\ Becomes(c, "started")
         \/ Open(id) /\ Becomes(c, "raised") /\ UNCHANGED <<execution, parentOf, seen, unheard>>
  /\ UNCHANGED <<inbox, interrupts, active, over, spawned, missed>>

(* When the service has answered, the facade enters the child in its own   *)
(* registry.                                                               *)
RegisterChild(c) ==
  /\ At(c, "spawn", "started")
  /\ spawned' = spawned \cup {<<c.parent, c.run>>}
  /\ Becomes(c, "registered")
  /\ UNCHANGED <<execution, parentOf, inbox, interrupts, seen, active, over, missed, unheard>>

(* Then it tells the parent.                                               *)
SpawnAnnounces(c) ==
  /\ At(c, "spawn", "registered")
  /\ LET id == WorkflowId(c.parent)
     IN  \/ Open(id) /\ Deliver(Signal(id, "child_spawned", c.run)) /\ Becomes(c, "done")
         \/ ~Open(id) /\ Becomes(c, "raised") /\ UNCHANGED inbox
  /\ UNCHANGED <<execution, parentOf, interrupts, seen, active, over, spawned, missed, unheard>>

(* cancel_run: a signal for the log first; if it cannot be delivered the   *)
(* call ends here.                                                         *)
SignalWorkflow(c) ==
  /\ At(c, "cancel", "new")
  /\ LET id == WorkflowId(c.run)
     IN  \/ /\ Open(id) /\ Deliver(Signal(id, "cancel_requested", NoParent))
            /\ Becomes(c, "signalled")
            /\ UNCHANGED missed
         \/ /\ ~Open(id) /\ Becomes(c, "raised")
            /\ missed' = missed \cup (IF \E w \in WorkflowIds : RunOf(w) = c.run /\ Open(w)
                                      THEN {c} ELSE {})
            /\ UNCHANGED inbox
  /\ UNCHANGED <<execution, parentOf, interrupts, seen, active, over, spawned, unheard>>

(* Then the service is asked to cancel; that the run is gone by now is an  *)
(* expected race.                                                          *)
InterruptWorkflow(c) ==
  /\ At(c, "cancel", "signalled")
  /\ interrupts' = interrupts \cup {id \in {WorkflowId(c.run)} : Open(id)}
  /\ Becomes(c, "done")
  /\ UNCHANGED <<execution, parentOf, inbox, seen, active, over, spawned, missed, unheard>>

(* The process of the facade dies: its registry and the calls under way    *)
(* are gone, and the workflows are not.                                    *)
FacadeDies ==
  /\ spawned' = {}
  /\ request' = [c \in DOMAIN request |->
       IF request[c] \in {"started", "registered", "signalled"} THEN "lost" ELSE request[c]]
  /\ UNCHANGED <<execution, parentOf, inbox, interrupts, seen, active, over, missed, unheard>>
-----------------------------------------------------------------------------
(* run() finds the projection of its run id, whoever wrote it, and returns *)
(* at once when that is terminal.                                          *)
RunBegins(id) ==
  /\ execution[id] = "scheduled"
  /\ execution' = [execution EXCEPT ![id] =
       IF RunOf(id) \in over THEN "returning" ELSE "running"]
  /\ UNCHANGED <<parentOf, inbox, interrupts, seen, active, over, spawned, request, missed,
                 unheard>>


(* signal_type and caused_by.  The facade announces every child with the   *)
(* same caused_by, a child that ended names itself, and the cancels here   *)
(* name nobody.                                                            *)
Tokens(s) ==
  CASE s.type = "child_spawned"       -> {<<"child_spawned", "spawn_child_run">>}
    [] s.type = "child_run_completed" -> {<<"child_run_completed", s.child>>}
    [] s.type = "cancel_requested"    -> {}

(* What the event of a signal does to the projection of a run that is not  *)
(* over; and a run whose projection is terminal is about to return.        *)
HandleSignal(s) ==
  LET id == s.to
      r  == RunOf(id)
      duplicate == Tokens(s) \cap seen[id] # {}
      late == /\ s.type = "child_spawned"
              /\ execution[ChildWorkflowId(r, s.child)] = "closed"
              /\ Signal(id, "child_run_completed", s.child) \notin inbox
  IN  /\ s \in inbox /\ execution[id] \in {"running", "returning"}
      /\ inbox' = inbox \ {s}
      /\ seen' = [seen EXCEPT ![id] = @ \cup Tokens(s)]
      /\ active' = [active EXCEPT ![r] =
           CASE duplicate \/ r \in over         -> @
             [] s.type = "child_spawned"       -> @ \cup {s.child}
             [] s.type = "child_run_completed" -> @ \ {s.child}
             [] OTHER                          -> @]
      /\ over' = over \cup (IF s.type = "cancel_requested" THEN {r} ELSE {})
      /\ execution' = [execution EXCEPT ![id] =
           IF ~duplicate /\ r \in over' THEN "returning" ELSE @]
      /\ unheard' = unheard \cup (IF late THEN {<<r, s.child>>} ELSE {})
      /\ UNCHANGED <<parentOf, interrupts, spawned, request, missed>>

(* An event of the run's own work ends it (run.completed, an abort that    *)
(* recovery decided), and wait_condition finds the projection terminal.    *)
RunFinishes(id) ==
  /\ execution[id] = "running"
  /\ over' = over \cup {RunOf(id)}
  /\ execution' = [execution EXCEPT ![id] = "returning"]
  /\ UNCHANGED <<parentOf, inbox, interrupts, seen, active, spawned, request, missed, unheard>>

(* continue_as_new: the same run and parent in a fresh instance.           *)
ContinueAsNew(id) ==
  /\ execution[id] = "running" /\ seen[id] # {}
  /\ seen' = [seen EXCEPT ![id] = {}]
  /\ execution' = [execution EXCEPT ![id] = "scheduled"]
  /\ UNCHANGED <<parentOf, inbox, interrupts, active, over, spawned, request, missed, unheard>>

(* The execution is closed, and what was not handled by then never is.     *)
CloseExecution(id) ==
  /\ execution' = [execution EXCEPT ![id] = "closed"]
  /\ interrupts' = interrupts \ {id}

IsCompletion(s) == s.type = "child_run_completed"
NotHandled(id) == {<<RunOf(id), s.child>> : s \in {s \in inbox : s.to = id /\ IsCompletion(s)}}

(* run() tells the parent, under the id of a run, and returns; a parent    *)
(* that is not there is ignored.                                           *)
NotifyParentChildCompleted(id) ==
  LET to == {WorkflowId(r) : r \in {parentOf[id]} \cap RunNames}
      there == {w \in to : Open(w)}
  IN  /\ execution[id] = "returning"
      /\ inbox' = {s \in inbox : s.to # id}
                    \cup {Signal(p, "child_run_completed", RunOf(id)) : p \in there}
      /\ CloseExecution(id)
      /\ unheard' = unheard \cup NotHandled(id)
                      \cup {<<RunOf(w), RunOf(id)>> : w \in to \ there}
      /\ UNCHANGED <<parentOf, seen, active, over, spawned, request, missed>>

(* A cancellation ends run() where it waits, and nobody is told.           *)
RunCancelled(id) ==
  /\ id \in interrupts /\ execution[id] # "closed"
  /\ inbox' = {s \in inbox : s.to # id}
  /\ CloseExecution(id)
  /\ unheard' = unheard \cup NotHandled(id)
  /\ UNCHANGED <<parentOf, seen, active, over, spawned, request, missed>>

ChildNext ==
  \/ \E c \in DOMAIN request :
       \/ StartRunWorkflow(c) \/ SignalWorkflow(c) \/ InterruptWorkflow(c)
       \/ StartChildWorkflow(c) \/ RegisterChild(c) \/ SpawnAnnounces(c)
  \/ FacadeDies
  \/ \E id \in WorkflowIds :
       \/ RunBegins(id) \/ RunFinishes(id) \/ ContinueAsNew(id)
       \/ NotifyParentChildCompleted(id) \/ RunCancelled(id)
  \/ \E s \in inbox : HandleSignal(s)

ChildSpec == ChildInit /\ [][ChildNext]_childVars
-----------------------------------------------------------------------------
(* query_child_runs: what the projection of the parent lists, and what the *)
(* facade started.                                                         *)
QueryChildRuns(p) == active[p] \cup {r \in RunNames : <<p, r>> \in spawned}


(* "Routes one kernel signal into the Temporal workflow", given the        *)
(* "identifier of the target run" (signal_workflow): no signal for a run   *)
(* is refused while a workflow of that run is open.                        *)
SignalsReachOpenRuns == missed = {}
=============================================================================
