-------------------------- MODULE TemporalSubstrate --------------------------
(***************************************************************************)
(* Runtimes on the Temporal substrate that live in one process: each start *)
(* connects, puts its dependency bundle in the process-wide registry of    *)
(* run_actor_workflow.py and launches a worker task, which registers the   *)
(* bundle again when it begins.  A workflow the worker builds finds its    *)
(* bundle in the context of the worker task, or, where the SDK does not    *)
(* keep that context, in the registry.  A runtime stands for its bundle.   *)
(***************************************************************************)
EXTENDS Naturals, FiniteSets

CONSTANTS
  Runtimes,
  NoBundle,             \* an empty registry
  SubstrateFaults       \* subset of {"connect", "sdk", "worker"}

ASSUME SubstrateAssumption == NoBundle \notin Runtimes

VARIABLES
  stage,                \* of each runtime
  opened,               \* runtimes whose event log and dedupe store are open
  task,                 \* of its worker task
  registry,             \* _RUN_ACTOR_CONFIG_FALLBACK
  context,              \* _RUN_ACTOR_CONFIG as the worker task of a runtime sees it
  stops,                \* runtimes with a stop() that awaits the worker task
  latest,               \* history: who called configure last
  built                 \* history: the last workflow built, its worker and bundle

substrateVars == <<stage, opened, task, registry, context, stops, latest, built>>

SubstrateInit ==
  /\ stage = [r \in Runtimes |-> "new"]
  /\ opened = {}
  /\ task = [r \in Runtimes |-> "none"]
  /\ registry = NoBundle
  /\ context = [r \in Runtimes |-> NoBundle]
  /\ stops = {}
  /\ latest = NoBundle
  /\ built = [worker |-> NoBundle, bundle |-> NoBundle, latest |-> NoBundle]

Ended(r) == task[r] \in {"completed", "failed", "cancelled"}
-----------------------------------------------------------------------------
(* The context of the caller of configure is the one its task inherits.    *)
Configure(r) ==
  /\ registry' = r
  /\ latest' = r
  /\ context' = [context EXCEPT ![r] = r]

(* Mutant: whoever stops clears the registry.                              *)
ClearAny(r) == registry' = NoBundle

(* Only a registry that still holds the caller's bundle is cleared.        *)
Clear(r) == registry' = IF registry = r THEN NoBundle ELSE registry

(* The stores of the bundle are opened before the substrate connects.      *)
Connect(r) ==
  /\ stage[r] = "new"
  /\ stage' = [stage EXCEPT ![r] = "connecting"]
  /\ opened' = opened \cup {r}
  /\ UNCHANGED <<task, registry, context, stops, latest, built>>

(* start() raises, and nobody is left who could close the stores.          *)
ConnectFails(r) ==
  /\ "connect" \in SubstrateFaults
  /\ stage[r] = "connecting"
  /\ stage' = [stage EXCEPT ![r] = "failed"]
  /\ UNCHANGED <<opened, task, registry, context, stops, latest, built>>

(* Once connected, start() goes on to its end without another await.       *)
StartWorker(r) ==
  /\ stage[r] = "connecting"
  /\ stage' = [stage EXCEPT ![r] = "started"]
  /\ task' = [task EXCEPT ![r] = "scheduled"]
  /\ Configure(r)
  /\ UNCHANGED <<opened, stops, built>>

(* The event loop reaches the worker task: it registers its bundle again,  *)
(* which by now may take the registry from a runtime started later.        *)
WorkerBegins(r) ==
  /\ task[r] = "scheduled"
  /\ task' = [task EXCEPT ![r] = "polling"]
  /\ Configure(r)
  /\ UNCHANGED <<stage, opened, stops, built>>

(* Without the SDK the task ends before it has registered anything.        *)
SdkMissing(r) ==
  /\ "sdk" \in SubstrateFaults
  /\ task[r] = "scheduled"
  /\ task' = [task EXCEPT ![r] = "failed"]
  /\ UNCHANGED <<stage, opened, registry, context, stops, latest, built>>

(* worker.run() returns or raises; the worker is shut down, which awaits   *)
(* what is in flight.                                                      *)
WorkerReturns(r) ==
  /\ task[r] = "polling"
  /\ \E how \in {"shutdown_completed"}
            \cup (IF "worker" \in SubstrateFaults THEN {"shutdown_failed"} ELSE {}) :
       task' = [task EXCEPT ![r] = how]
  /\ UNCHANGED <<stage, opened, registry, context, stops, latest, built>>

(* Then it clears its bundle: the context of the task only when the        *)
(* registry was its own.                                                   *)
WorkerEnds(r) ==
  /\ task[r] \in {"shutdown_completed", "shutdown_failed", "shutdown_cancelled"}
  /\ task' = [task EXCEPT ![r] =
       CASE @ = "shutdown_completed" -> "completed"
         [] @ = "shutdown_failed"    -> "failed"
         [] OTHER                    -> "cancelled"]
  /\ Clear(r)
  /\ context' = [context EXCEPT ![r] = IF registry = r THEN NoBundle ELSE @]
  /\ UNCHANGED <<stage, opened, stops, latest, built>>

(* stop() cancels a task that is not done and awaits it.  A task that has  *)
(* not begun never will; one that polls still shuts its worker down; one   *)
(* that was shutting down is interrupted and clears at once.               *)
Stop(r) ==
  /\ stage[r] = "started" /\ r \notin stops
  /\ stops' = stops \cup {r}
  /\ task' = [task EXCEPT ![r] =
       CASE @ = "scheduled" -> "cancelled"
         [] @ \in {"polling", "shutdown_completed", "shutdown_failed"} -> "shutdown_cancelled"
         [] OTHER -> @]
  /\ UNCHANGED <<stage, opened, registry, context, latest, built>>

(* The task is done: stop() clears the bundle and may have to wait for an  *)
(* embedded server to shut down.                                           *)
StopClears(r) ==
  /\ r \in stops /\ stage[r] = "started" /\ Ended(r)
  /\ stage' = [stage EXCEPT ![r] = "closing"]
  /\ Clear(r)
  /\ UNCHANGED <<opened, task, context, stops, latest, built>>

(* The stores are closed last; a later stop() returns at once.             *)
CloseStores(r) ==
  /\ stage[r] = "closing"
  /\ stage' = [stage EXCEPT ![r] = "stopped"]
  /\ stops' = stops \ {r}
  /\ opened' = opened \ {r}
  /\ UNCHANGED <<task, registry, context, latest, built>>

(* _resolve_run_actor_dependencies: the context first, then the registry;  *)
(* with neither, services in memory that nobody else sees.                 *)
Resolve(ctx) == IF ctx # NoBundle THEN ctx ELSE registry

BuildWorkflow(r) ==
  /\ task[r] = "polling"
  /\ \E ctx \in {context[r], NoBundle} :
       built' = [worker |-> r, bundle |-> Resolve(ctx), latest |-> latest]
  /\ UNCHANGED <<stage, opened, task, registry, context, stops, latest>>

RuntimeStepOf(r) ==
  \/ Connect(r)
  \/ ConnectFails(r)
  \/ StartWorker(r)
  \/ WorkerBegins(r)
  \/ SdkMissing(r)
  \/ WorkerReturns(r)
  \/ WorkerEnds(r)
  \/ Stop(r)
  \/ StopClears(r)
  \/ CloseStores(r)
  \/ BuildWorkflow(r)

SubstrateNext == \E r \in Runtimes : RuntimeStepOf(r)

SubstrateSpec == SubstrateInit /\ [][SubstrateNext]_substrateVars
-----------------------------------------------------------------------------
(* Stopping one runtime does not disturb another: as long as the worker of *)
(* the runtime that registered last is scheduled or polling, the registry  *)
(* holds its bundle and every workflow its worker builds gets that bundle; *)
(* and no worker runs on, and nothing started later can pick up, a bundle  *)
(* whose stores are closed (configure_run_actor_dependencies,              *)
(* clear_run_actor_dependencies, TemporalKernelWorker.run, stop).          *)
RegistryServesTheLatest ==
  /\ latest # NoBundle /\ task[latest] \in {"scheduled", "polling"} => registry = latest
  /\ registry # NoBundle => registry \in opened
  /\ \A r \in Runtimes \ opened : task[r] = "none" \/ Ended(r)
  /\ built.worker # NoBundle /\ built.worker = built.latest => built.bundle = built.worker
=============================================================================
