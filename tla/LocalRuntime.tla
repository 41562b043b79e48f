---------------------------- MODULE LocalRuntime ----------------------------
(***************************************************************************)
(* One kernel process on the local substrate: the calls of KernelFacade    *)
(* that reach LocalWorkflowGateway (substrate/local/adaptor.py), the drain *)
(* guard of its write operations (runtime/drain_coordinator.py) and the    *)
(* shutdown of KernelRuntime (runtime/kernel_runtime.py).                  *)
(*                                                                         *)
(* Everything runs on one event loop: an action is the code between two    *)
(* awaits.  The drain coordinator's lock is never held across an await, so *)
(* entering and leaving it belong to the step that does so.                *)
(***************************************************************************)
EXTENDS Naturals, Sequences, FiniteSets, Functions

CONSTANTS
    RunIds,        \* run identifiers, children included
    Keys,          \* idempotency keys of turns
    CallBatches,   \* sets of calls that clients make: one set per behaviour
    Stoppers,      \* tasks that call KernelRuntime.stop
    MaxCache,      \* max_cache_size of the turn cache
    Background,    \* background tasks: outbox reconciler, breaker probe
    RuntimeFaults  \* faults that happen: "handler", "drain_timeout"

VARIABLES
    workflows,   \* _workflows: registered run ids
    tasks,       \* live run tasks, <<run id, n-th start>>
    starts,      \* history: how often each run id was started
    cancelled,   \* live run tasks that were told to cancel
    awaited,     \* the task each cancel awaits, or awaited
    overlaps,    \* history: runs of which two cancels were under way at once
    children,    \* _all_child_runs
    turnCache,   \* keys of _execute_turn_cache, oldest first
    pc,          \* where each call is
    draining,    \* KernelFacade._draining
    inFlight,    \* DrainCoordinator._in_flight_count
    forced,      \* history: a drain timed out
    stop,        \* where each stopper is
    background,  \* background tasks alive
    closed       \* the event log and the dedupe store were closed

runtimeVars == <<workflows, tasks, starts, cancelled, awaited, overlaps, children,
                 turnCache, pc, draining, inFlight, forced, stop, background, closed>>

Calls == UNION CallBatches

\* A client's call: a name to tell equal calls apart, the operation, its run
\* or key, and the child of a spawn.
Call(name, op, id, child) == [name |-> name, op |-> op, id |-> id, child |-> child]

ASSUME RuntimeAssumption ==
    \A c \in Calls : /\ c.op = "start" => c.id \in RunIds
                     /\ c.op = "spawn" => c.child \in RunIds

Idle == [at |-> "idle", waits |-> {}]

RuntimeInit ==
    /\ workflows = {}
    /\ tasks = {}
    /\ starts = [r \in RunIds |-> 0]
    /\ cancelled = {}
    /\ awaited = [c \in Calls |-> {}]
    /\ overlaps = {}
    /\ children = {}
    /\ turnCache = <<>>
    /\ \E made \in CallBatches : pc = [c \in Calls |-> IF c \in made THEN "new" ELSE "unused"]
    /\ draining = FALSE
    /\ inFlight = 0
    /\ forced = FALSE
    /\ stop = [s \in Stoppers |-> Idle]
    /\ background = Background
    /\ closed = FALSE

Goto(c, l) == pc' = [pc EXCEPT ![c] = l]

stopVars == <<draining, forced, stop, background, closed>>

turnVars == <<turnCache, inFlight>>

cancelVars == <<cancelled, awaited, overlaps>>

(***************************************************************************)
(* Runs.  None of these calls is guarded by the drain.                     *)
(***************************************************************************)
\* start_workflow up to its sleep(0); a registered id is refused.
StartWorkflow(c, r, next) ==
    \/ /\ r \in workflows
       /\ Goto(c, "error")
       /\ UNCHANGED <<workflows, tasks, starts>>
    \/ /\ r \notin workflows
       /\ workflows' = workflows \cup {r}
       /\ starts' = [starts EXCEPT ![r] = @ + 1]
       /\ tasks' = tasks \cup {<<r, starts[r] + 1>>}
       /\ Goto(c, next)

StartRun(c) ==
    /\ pc[c] = "new"
    /\ c.op = "start"
    /\ StartWorkflow(c, c.id, "ok")
    /\ UNCHANGED <<cancelVars, children, turnVars, stopVars>>

\* workflow.run returns, fails or is cancelled.
RunTaskEnds(t) ==
    /\ t \in tasks
    /\ tasks' = tasks \ {t}
    /\ cancelled' = cancelled \ {t}
    /\ UNCHANGED <<awaited, overlaps, workflows, starts, children, pc, turnVars, stopVars>>

Cancelling(c) == c.op = "cancel" /\ pc[c] \in {"signalled", "awaits"}

\* The cancel_requested signal of cancel_run; an unknown run is an error.
CancelSignals(c) ==
    /\ pc[c] = "new"
    /\ c.op = "cancel"
    /\ Goto(c, IF c.id \in workflows THEN "signalled" ELSE "error")
    /\ overlaps' = overlaps \cup
         {d.id : d \in {d \in Calls : Cancelling(d) /\ d.id = c.id /\ c.id \in workflows}}
    /\ UNCHANGED <<workflows, tasks, starts, cancelled, awaited, children, turnVars, stopVars>>

LiveTask(r) == {t \in tasks : t = <<r, starts[r]>> /\ r \in workflows}

\* Mutant: the run is forgotten before its task has ended.
CancelWorkflowForgets(c) ==
    /\ pc[c] = "signalled"
    /\ cancelled' = cancelled \cup LiveTask(c.id)
    /\ workflows' = workflows \ {c.id}
    /\ Goto(c, "ok")
    /\ UNCHANGED <<awaited, overlaps, tasks, starts, children, turnVars, stopVars>>

\* cancel_workflow: a live task is told to cancel and awaited.
CancelWorkflow(c) ==
    /\ pc[c] = "signalled"
    /\ \/ /\ LiveTask(c.id) # {}
          /\ cancelled' = cancelled \cup LiveTask(c.id)
          /\ awaited' = [awaited EXCEPT ![c] = LiveTask(c.id)]
          /\ Goto(c, "awaits")
          /\ UNCHANGED workflows
       \/ /\ LiveTask(c.id) = {}
          /\ workflows' = workflows \ {c.id}
          /\ Goto(c, "ok")
          /\ UNCHANGED <<cancelled, awaited>>
    /\ UNCHANGED <<tasks, starts, overlaps, children, turnVars, stopVars>>

\* The task has ended, and the cancel forgets the run id, whatever task is
\* registered under it by now.  The cancels that await one task resume one by
\* one, and a start may come between them.
CancelResumes(c) ==
    /\ pc[c] = "awaits"
    /\ awaited[c] \cap tasks = {}
    /\ workflows' = workflows \ {c.id}
    /\ Goto(c, "ok")
    /\ UNCHANGED <<tasks, starts, cancelVars, children, turnVars, stopVars>>

\* spawn_child_run: start the child, register it, announce it to the parent.
SpawnStarts(c) ==
    /\ pc[c] = "new"
    /\ c.op = "spawn"
    /\ StartWorkflow(c, c.child, "spawned")
    /\ UNCHANGED <<cancelVars, children, turnVars, stopVars>>

SpawnRegisters(c) ==
    /\ pc[c] = "spawned"
    /\ children' = children \cup {<<c.id, c.child>>}
    /\ Goto(c, IF c.id \in workflows THEN "announces" ELSE "error")
    /\ UNCHANGED <<workflows, tasks, starts, cancelVars, turnVars, stopVars>>

SpawnAnnounced(c) ==
    /\ pc[c] = "announces"
    /\ Goto(c, "ok")
    /\ UNCHANGED <<workflows, tasks, starts, cancelVars, children, turnVars, stopVars>>

(***************************************************************************)
(* Turns, behind the drain guard.                                          *)
(***************************************************************************)
\* Mutant: no drain guard.
ExecuteTurnUnguarded(c) ==
    /\ pc[c] = "new"
    /\ c.op = "turn"
    /\ \/ /\ c.id \in Range(turnCache)
          /\ Goto(c, "ok")
          /\ UNCHANGED inFlight
       \/ /\ c.id \notin Range(turnCache)
          /\ Goto(c, "handler")
          /\ inFlight' = inFlight + 1
    /\ UNCHANGED <<workflows, tasks, starts, cancelVars, children, turnCache, stopVars>>

\* _guard_write_operation, then the cache: a cached result is returned in
\* the same step.
ExecuteTurn(c) ==
    /\ pc[c] = "new"
    /\ c.op = "turn"
    /\ \/ /\ draining
          /\ Goto(c, "error")
          /\ UNCHANGED inFlight
       \/ /\ ~draining
          /\ c.id \in Range(turnCache)
          /\ Goto(c, "ok")
          /\ UNCHANGED inFlight
       \/ /\ ~draining
          /\ c.id \notin Range(turnCache)
          /\ Goto(c, "handler")
          /\ inFlight' = inFlight + 1
    /\ UNCHANGED <<workflows, tasks, starts, cancelVars, children, turnCache, stopVars>>

\* A key already in the cache keeps its place.
Cached(k) ==
    LET all == IF k \in Range(turnCache) THEN turnCache ELSE Append(turnCache, k)
    IN  IF Len(all) > MaxCache THEN Tail(all) ELSE all

HandlerReturns(c) ==
    /\ pc[c] = "handler"
    /\ turnCache' = Cached(c.id)
    /\ inFlight' = IF inFlight > 0 THEN inFlight - 1 ELSE 0
    /\ Goto(c, "ok")
    /\ UNCHANGED <<workflows, tasks, starts, cancelVars, children, stopVars>>

\* The guard leaves the drain coordinator on the way out of an exception.
HandlerRaises(c) ==
    /\ pc[c] = "handler"
    /\ "handler" \in RuntimeFaults
    /\ inFlight' = IF inFlight > 0 THEN inFlight - 1 ELSE 0
    /\ Goto(c, "error")
    /\ UNCHANGED <<workflows, tasks, starts, cancelVars, children, turnCache, stopVars>>

(***************************************************************************)
(* KernelRuntime.stop.  Two stoppers may be at work: _stopped is set last. *)
(***************************************************************************)
Stopped == \E s \in Stoppers : stop[s].at = "stopped"

StopTo(s, l, S) == stop' = [stop EXCEPT ![s] = [at |-> l, waits |-> S]]

StopBegins(s) ==
    /\ stop[s].at = "idle"
    /\ ~Stopped
    /\ draining' = TRUE
    /\ StopTo(s, "drain", {})
    /\ UNCHANGED <<workflows, tasks, starts, cancelVars, children, pc, turnVars, forced, background, closed>>

\* Mutant: the drain has no timeout.
DrainWaitedForever(s) ==
    /\ stop[s].at = "drain"
    /\ inFlight = 0
    /\ StopTo(s, "background", {})
    /\ UNCHANGED <<workflows, tasks, starts, cancelVars, children, pc, turnVars, draining, forced, background, closed>>

\* DrainCoordinator.wait: the in-flight count is zero, or the time is up.
DrainWaited(s) ==
    /\ stop[s].at = "drain"
    /\ \/ /\ inFlight = 0
          /\ UNCHANGED forced
       \/ /\ inFlight > 0
          /\ "drain_timeout" \in RuntimeFaults
          /\ forced' = TRUE
    /\ StopTo(s, "background", {})
    /\ UNCHANGED <<workflows, tasks, starts, cancelVars, children, pc, turnVars, draining, background, closed>>

\* Cancels and awaits the background tasks one by one, then enters
\* LocalWorkflowGateway.shutdown with the run tasks registered now.
CancelBackground(s) ==
    /\ stop[s].at = "background"
    /\ \/ /\ background # {}
          /\ \E b \in background : background' = background \ {b}
          /\ UNCHANGED stop
       \/ /\ background = {}
          /\ StopTo(s, "shutdown", UNION {LiveTask(r) : r \in RunIds})
          /\ UNCHANGED background
    /\ UNCHANGED <<workflows, tasks, starts, cancelVars, children, pc, turnVars, draining, forced, closed>>

\* shutdown cancels and awaits the tasks of its list in turn, then forgets
\* every registered run.
ShutdownGateway(s) ==
    LET waits == stop[s].waits IN
    /\ stop[s].at = "shutdown"
    /\ \/ /\ waits \cap cancelled = {}
          /\ \E t \in waits \cap tasks : cancelled' = cancelled \cup {t}
          /\ UNCHANGED <<workflows, stop>>
       \/ /\ waits \cap tasks = {}
          /\ workflows' = {}
          /\ StopTo(s, "close", {})
          /\ UNCHANGED cancelled
    /\ UNCHANGED <<awaited, overlaps, tasks, starts, children, pc, turnVars, draining, forced, background, closed>>

CloseResources(s) ==
    /\ stop[s].at = "close"
    /\ closed' = TRUE
    /\ StopTo(s, "stopped", {})
    /\ UNCHANGED <<workflows, tasks, starts, cancelVars, children, pc, turnVars, draining, forced, background>>

CallStep(c) ==
    \/ StartRun(c)
    \/ CancelSignals(c)
    \/ CancelWorkflow(c)
    \/ CancelResumes(c)
    \/ SpawnStarts(c)
    \/ SpawnRegisters(c)
    \/ SpawnAnnounced(c)
    \/ ExecuteTurn(c)
    \/ HandlerReturns(c)
    \/ HandlerRaises(c)

StopStep(s) ==
    \/ StopBegins(s)
    \/ DrainWaited(s)
    \/ CancelBackground(s)
    \/ ShutdownGateway(s)
    \/ CloseResources(s)

AllTasks == {<<r, n>> : r \in RunIds, n \in 1..Cardinality(Calls)}

RuntimeNext ==
    \/ \E c \in Calls : CallStep(c)
    \/ \E t \in AllTasks : RunTaskEnds(t)
    \/ \E s \in Stoppers : StopStep(s)

RuntimeSpec == RuntimeInit /\ [][RuntimeNext]_runtimeVars

(***************************************************************************)
(* Properties.                                                             *)
(***************************************************************************)
\* Graceful stop: when the event log and the dedupe store are closed, no
\* background task uses them any more, and no turn handler does unless the
\* drain timed out, however calls and two concurrent stops interleave.
ClosedMeansQuiet ==
    closed => /\ background = {}
              /\ forced \/ \A c \in Calls : pc[c] # "handler"

\* cancel_workflow awaits the task before it forgets the run, so until the
\* runtime shuts down a run id has one live task writing its log, however its
\* starts, its ends and a cancel interleave, as long as no two cancels of the
\* run are under way at once.  (Of two, the second forgets what was started
\* after the first: then a run id has a task that start_workflow does not see
\* as a "duplicate run_id", and a further start gives it two.)
OneTaskPerRun ==
    (\A s \in Stoppers : stop[s].at \notin {"close", "stopped"}) =>
        \A t, u \in tasks : t[1] = u[1] /\ t[1] \notin overlaps => t = u

\* A stop that began ends, whatever the turn handlers in flight do.
StopCompletes ==
    \A s \in Stoppers : stop[s].at = "drain" ~> stop[s].at = "stopped"

=============================================================================
