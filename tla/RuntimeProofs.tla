---------------------------- MODULE RuntimeProofs ----------------------------
(***************************************************************************)
(* Proofs about what runs and turns run on: the registry of the Temporal   *)
(* substrate, the script runtimes and the local runtime.                   *)
(***************************************************************************)
EXTENDS LocalRuntime, ScriptRuntimes, TemporalSubstrate, FiniteSetTheorems, TLAPS
-----------------------------------------------------------------------------
(* The Temporal substrate.  The registry holds the bundle of who configured*)
(* last or nothing; a runtime that gave its stores back has ended its task *)
(* and is not in the registry.                                             *)
SubstrateStages == {"new", "connecting", "failed", "started", "closing", "stopped"}

TaskStates == {"none", "scheduled", "polling", "shutdown_completed", "shutdown_failed",
               "shutdown_cancelled", "completed", "failed", "cancelled"}

SubstrateTyped ==
  /\ stage \in [Runtimes -> SubstrateStages]
  /\ task \in [Runtimes -> TaskStates]
  /\ context \in [Runtimes -> Runtimes \cup {NoBundle}]
  /\ registry \in Runtimes \cup {NoBundle}
  /\ latest \in Runtimes \cup {NoBundle}
  /\ opened \subseteq Runtimes

SubstrateInv ==
  /\ SubstrateTyped
  /\ registry \in {NoBundle, latest}
  /\ latest # NoBundle /\ task[latest] \in {"scheduled", "polling"} => registry = latest
  /\ registry # NoBundle => stage[registry] = "started"
  /\ \A r \in Runtimes :
       /\ r \in opened <=> stage[r] \in {"connecting", "failed", "started", "closing"}
       /\ stage[r] \in {"new", "connecting", "failed"} => task[r] = "none"
       /\ stage[r] \in {"closing", "stopped"} => Ended(r)
       /\ task[r] = "polling" => context[r] = r
  /\ built.worker # NoBundle /\ built.worker = built.latest => built.bundle = built.worker

(* Every step of a runtime keeps the invariant of the substrate.           *)
LEMMA SubstrateInvNext ==
  ASSUME SubstrateInv, [SubstrateNext]_substrateVars
  PROVE  SubstrateInv'
<1> USE SubstrateAssumption DEF SubstrateInv, SubstrateTyped, SubstrateStages, TaskStates, Ended
<1>0. CASE UNCHANGED substrateVars
  BY <1>0 DEF substrateVars
<1>1. ASSUME NEW r \in Runtimes, Connect(r) PROVE SubstrateInv'
  BY <1>1 DEF Connect
<1>2. ASSUME NEW r \in Runtimes, ConnectFails(r) PROVE SubstrateInv'
  BY <1>2 DEF ConnectFails
<1>3. ASSUME NEW r \in Runtimes, StartWorker(r) PROVE SubstrateInv'
  BY <1>3 DEF StartWorker, Configure
<1>4. ASSUME NEW r \in Runtimes, WorkerBegins(r) PROVE SubstrateInv'
  BY <1>4 DEF WorkerBegins, Configure
<1>5. ASSUME NEW r \in Runtimes, SdkMissing(r) PROVE SubstrateInv'
  BY <1>5 DEF SdkMissing
<1>6. ASSUME NEW r \in Runtimes, WorkerReturns(r) PROVE SubstrateInv'
  BY <1>6 DEF WorkerReturns
<1>7. ASSUME NEW r \in Runtimes, WorkerEnds(r) PROVE SubstrateInv'
  BY <1>7 DEF WorkerEnds, Clear
<1>8. ASSUME NEW r \in Runtimes, Stop(r) PROVE SubstrateInv'
  BY <1>8 DEF Stop
<1>9. ASSUME NEW r \in Runtimes, StopClears(r) PROVE SubstrateInv'
  BY <1>9 DEF StopClears, Clear
<1>10. ASSUME NEW r \in Runtimes, CloseStores(r) PROVE SubstrateInv'
  BY <1>10 DEF CloseStores
<1>11. ASSUME NEW r \in Runtimes, BuildWorkflow(r) PROVE SubstrateInv'
  BY <1>11 DEF BuildWorkflow, Resolve
<1> QED
  BY <1>0, <1>1, <1>2, <1>3, <1>4, <1>5, <1>6, <1>7, <1>8, <1>9, <1>10, <1>11, Zenon
     DEF SubstrateNext, RuntimeStepOf

(* However runtimes of one process start, stop and fail, the registry      *)
(* serves the one that configured last while its worker lives, never a     *)
(* bundle whose stores are closed, and a workflow of that worker gets that *)
(* bundle (configure_run_actor_dependencies, clear_run_actor_dependencies).*)
THEOREM RegistryIsRight == SubstrateSpec => []RegistryServesTheLatest
<1>1. SubstrateInit => SubstrateInv
  BY SubstrateAssumption
     DEF SubstrateInit, SubstrateInv, SubstrateTyped, SubstrateStages, TaskStates, Ended
<1>2. SubstrateInv /\ [SubstrateNext]_substrateVars => SubstrateInv'
  BY SubstrateInvNext
<1>3. SubstrateInv => RegistryServesTheLatest
  BY DEF SubstrateInv, SubstrateTyped, SubstrateStages, TaskStates, RegistryServesTheLatest, Ended
<1> QED
  BY <1>1, <1>2, <1>3, PTL DEF SubstrateSpec
-----------------------------------------------------------------------------
(* Scripts.  A call holds its key once it creates, runs or has begun the   *)
(* script.  Of the wrapped calls only one whose key has no record can come *)
(* to hold it, and it leaves one, so there is one holder.                  *)
Holds(c) == phase[c] \in {"creating", "running"} \/ c \in begun

PhaseIsFunction == phase = [c \in DOMAIN phase |-> phase[c]]

RecordStates == {"absent", "reserved", "dispatched", "acknowledged", "succeeded", "unknown_effect"}

ScriptTyped ==
  /\ DOMAIN phase \in ScriptBatches
  /\ PhaseIsFunction
  /\ live \subseteq begun /\ begun \subseteq DOMAIN phase
  /\ \A c \in DOMAIN phase : phase[c] = "running" => c \in begun
  /\ scriptRecords \in [ScriptKeys -> RecordStates]

OneHolder ==
  /\ \A c \in DOMAIN phase : Wrapped(c) /\ Holds(c) => scriptRecords[c.key] # "absent"
  /\ \A c, d \in DOMAIN phase :
       Wrapped(c) /\ Wrapped(d) /\ Holds(c) /\ Holds(d) /\ c.key = d.key => c = d

Unacknowledged ==
  /\ \A c \in DOMAIN phase :
       Wrapped(c) /\ phase[c] = "creating" => scriptRecords[c.key] # "acknowledged"
  /\ \A c \in live :
       Wrapped(c) /\ Runtime(c) = "subprocess" => scriptRecords[c.key] # "acknowledged"

ScriptInv == ScriptTyped /\ OneHolder /\ Unacknowledged

(* A call is about a key of the store.                                     *)
LEMMA ScriptKeyOf ==
  ASSUME ScriptTyped, NEW c \in DOMAIN phase
  PROVE  c.key \in ScriptKeys
<1>1. c \in ScriptCalls
  BY Zenon DEF ScriptTyped, ScriptCalls
<1> QED
  BY <1>1 DEF ScriptKeys

(* A step of a call keeps the invariant when it leaves the other keys and  *)
(* calls alone, and writes the record of its own key, or comes to hold it, *)
(* only as its holder or when there is no record.                          *)
LEMMA ScriptCallKeeps ==
  ASSUME ScriptInv, NEW c \in DOMAIN phase, NEW p, To(c, p),
         begun \subseteq begun', begun' \subseteq begun \cup {c},
         live' \subseteq live \cup {c}, live' \subseteq begun',
         p = "running" => c \in begun',
         scriptRecords' \in [ScriptKeys -> RecordStates],
         \A k \in ScriptKeys : k # c.key \/ ~Wrapped(c) => scriptRecords'[k] = scriptRecords[k],
         Wrapped(c) /\ ~Holds(c) /\ scriptRecords[c.key] # "absent" =>
           scriptRecords' = scriptRecords /\ p \notin {"creating", "running"} /\ begun' = begun,
         Wrapped(c) /\ (p \in {"creating", "running"} \/ c \in begun') =>
           scriptRecords'[c.key] # "absent",
         Wrapped(c) /\ p = "creating" => scriptRecords'[c.key] # "acknowledged",
         Wrapped(c) /\ c \in live' /\ Runtime(c) = "subprocess" =>
           scriptRecords'[c.key] # "acknowledged"
  PROVE  ScriptInv'
<1>1. /\ DOMAIN phase' = DOMAIN phase /\ PhaseIsFunction' /\ phase'[c] = p
      /\ \A d \in DOMAIN phase : d # c => phase'[d] = phase[d]
  BY ZenonT(30) DEF To, PhaseIsFunction, ScriptInv, ScriptTyped
<1>2. \A d \in DOMAIN phase : d.key \in ScriptKeys
  BY ScriptKeyOf DEF ScriptInv
<1>3. \A d \in DOMAIN phase : d # c => (Holds(d)' <=> Holds(d))
  BY <1>1 DEF Holds
<1>4. Holds(c)' <=> p \in {"creating", "running"} \/ c \in begun'
  BY <1>1 DEF Holds
<1>5. \A d \in DOMAIN phase : d # c /\ Wrapped(d) /\ Holds(d) =>
        /\ scriptRecords'[d.key] = scriptRecords[d.key]
        /\ Wrapped(c) /\ Holds(c)' => d.key # c.key
  <2> SUFFICES ASSUME NEW d \in DOMAIN phase, d # c, Wrapped(d), Holds(d)
               PROVE  /\ scriptRecords'[d.key] = scriptRecords[d.key]
                      /\ Wrapped(c) /\ Holds(c)' => d.key # c.key
    OBVIOUS
  <2>1. CASE d.key # c.key \/ ~Wrapped(c)
    BY <1>2, <2>1
  <2>2. CASE d.key = c.key /\ Wrapped(c)
    <3>1. ~Holds(c) /\ scriptRecords[c.key] # "absent"
      BY <2>2 DEF ScriptInv, OneHolder
    <3>2. scriptRecords' = scriptRecords /\ ~Holds(c)'
      BY <1>4, <2>2, <3>1 DEF Holds
    <3> QED
      BY <3>2
  <2> QED
    BY <2>1, <2>2
<1>6. ScriptTyped'
  BY <1>1 DEF ScriptInv, ScriptTyped
<1>7. OneHolder'
  BY <1>1, <1>3, <1>4, <1>5 DEF ScriptInv, OneHolder
<1>8. Unacknowledged'
  <2>1. \A d \in DOMAIN phase : phase[d] = "creating" => Holds(d)
    BY DEF Holds
  <2>2. \A d \in live : d \in DOMAIN phase /\ Holds(d)
    BY DEF Holds, ScriptInv, ScriptTyped
  <2> QED
    BY <1>1, <1>5, <2>1, <2>2 DEF ScriptInv, Unacknowledged
<1> QED
  BY <1>6, <1>7, <1>8 DEF ScriptInv

(* A step of a call, or of a worker, keeps the invariant of the scripts.   *)
LEMMA ScriptInvNext ==
  ASSUME ScriptInv, [ScriptNext]_scriptVars
  PROVE  ScriptInv'
<1>0. \A c \in DOMAIN phase : c.key \in ScriptKeys
  BY ScriptKeyOf DEF ScriptInv
<1>a. /\ scriptRecords \in [ScriptKeys -> RecordStates]
      /\ live \subseteq begun /\ begun \subseteq DOMAIN phase
      /\ \A c \in DOMAIN phase : phase[c] = "running" => c \in begun
      /\ \A c \in DOMAIN phase : Wrapped(c) /\ Holds(c) => scriptRecords[c.key] # "absent"
      /\ \A c \in DOMAIN phase :
           Wrapped(c) /\ phase[c] = "creating" => scriptRecords[c.key] # "acknowledged"
      /\ \A c \in live :
           Wrapped(c) /\ Runtime(c) = "subprocess" => scriptRecords[c.key] # "acknowledged"
  BY DEF ScriptInv, ScriptTyped, OneHolder, Unacknowledged
<1>b. ASSUME NEW c \in DOMAIN phase, NEW code, Settles(c, code), Holds(c), begun' = begun,
             live' \subseteq live \cup {c}, live' \subseteq begun,
             c \in live' => Runtime(c) # "subprocess"
      PROVE  ScriptInv'
  <2>1. PICK p \in {"returned", "raised"} : To(c, p)
    BY <1>b DEF Settles, Returns, Raises
  <2>2. /\ scriptRecords' \in [ScriptKeys -> RecordStates]
        /\ \A k \in ScriptKeys : k # c.key \/ ~Wrapped(c) => scriptRecords'[k] = scriptRecords[k]
        /\ scriptRecords[c.key] # "absent" => scriptRecords'[c.key] # "absent"
    BY <1>0, <1>a, <1>b DEF Settles, ScriptStore!MarkAcknowledged, ScriptStore!MoveTo, RecordStates
  <2> QED
    BY <1>a, <1>b, <2>1, <2>2, ScriptCallKeeps
<1>c. ASSUME NEW c \in DOMAIN phase, Enters(c), NEW p, To(c, p), NEW state \in RecordStates,
             Records(c, state), state # "absent", p = "creating" => state # "acknowledged",
             begun' \in {begun, begun \cup {c}}, live' \in {live, live \cup {c}},
             p = "running" => c \in begun',
             c \in live' \ live => c \in begun' /\ state # "acknowledged"
      PROVE  ScriptInv'
  <2>1. /\ scriptRecords' \in [ScriptKeys -> RecordStates]
        /\ \A k \in ScriptKeys : k # c.key \/ ~Wrapped(c) => scriptRecords'[k] = scriptRecords[k]
        /\ Wrapped(c) => scriptRecords'[c.key] = state
    BY <1>0, <1>a, <1>c DEF Records
  <2>2. Wrapped(c) => scriptRecords[c.key] = "absent" /\ ~Holds(c)
    BY <1>a, <1>c DEF Enters, SlotTaken
  <2>3. Wrapped(c) => c \notin live
    BY <1>a, <2>2 DEF Holds
  <2> QED
    BY <1>a, <1>c, <2>1, <2>2, <2>3, ScriptCallKeeps
<1>1. CASE UNCHANGED scriptVars
  BY <1>1 DEF scriptVars, ScriptInv, ScriptTyped, OneHolder, Unacknowledged, Holds, PhaseIsFunction
<1>2. ASSUME NEW w \in Workers, EnableProductionMode(w) PROVE ScriptInv'
  BY <1>2 DEF EnableProductionMode, ScriptInv, ScriptTyped, OneHolder, Unacknowledged, Holds,
              PhaseIsFunction
<1>3. ASSUME NEW w \in Workers, WorkerDies(w) PROVE ScriptInv'
  <2>1. /\ DOMAIN phase' = DOMAIN phase /\ live' \subseteq live
        /\ UNCHANGED <<scriptRecords, begun>>
        /\ phase' = [c \in DOMAIN phase |-> phase'[c]]
        /\ \A c \in DOMAIN phase : phase'[c] \in {phase[c], "lost"}
    BY <1>3 DEF WorkerDies
  <2>2. ScriptTyped'
    BY <2>1 DEF ScriptInv, ScriptTyped, PhaseIsFunction
  <2>3. \A c \in DOMAIN phase : Holds(c)' => Holds(c)
    BY <2>1 DEF Holds
  <2>4. OneHolder'
    BY <2>1, <2>3 DEF ScriptInv, OneHolder
  <2>5. \A c \in DOMAIN phase : phase'[c] = "creating" => phase[c] = "creating"
    BY <2>1
  <2>6. Unacknowledged'
    BY <2>1, <2>5 DEF ScriptInv, Unacknowledged
  <2> QED
    BY <2>2, <2>4, <2>6 DEF ScriptInv
<1>4. ASSUME NEW c \in DOMAIN phase, DispatchRefused(c) \/ ReturnsNoop(c) PROVE ScriptInv'
  <2>1. /\ phase[c] = "new" /\ UNCHANGED <<scriptRecords, live, begun>>
        /\ \E p \in {"returned", "raised"} : To(c, p)
    BY <1>4 DEF DispatchRefused, ReturnsNoop, Returns, Raises
  <2>2. c \in begun => Holds(c)
    BY DEF Holds
  <2> QED
    BY <1>a, <2>1, <2>2, ScriptCallKeeps
<1>5. ASSUME NEW c \in DOMAIN phase, SlotRaises(c) PROVE ScriptInv'
  <2>1. /\ Wrapped(c) /\ scriptRecords[c.key] = "absent" /\ To(c, "raised")
        /\ UNCHANGED <<live, begun>>
    BY <1>5 DEF SlotRaises, SlotTaken, Raises
  <2>2. /\ scriptRecords' \in [ScriptKeys -> RecordStates]
        /\ \A k \in ScriptKeys : k # c.key => scriptRecords'[k] = scriptRecords[k]
    BY <1>0, <1>a, <1>5 DEF SlotRaises, ScriptStore!Reserve, ScriptStore!MoveTo, RecordStates
  <2>3. c \notin begun /\ c \notin live
    BY <1>a, <2>1 DEF Holds
  <2> QED
    BY <1>a, <2>1, <2>2, <2>3, ScriptCallKeeps
<1>6. ASSUME NEW c \in DOMAIN phase, RunEcho(c) \/ SyntaxErrorFound(c) \/ EchoRaises(c)
      PROVE  ScriptInv'
  <2>1. PICK p \in {"returned", "raised"} : To(c, p)
    BY <1>6 DEF RunEcho, SyntaxErrorFound, EchoRaises, SettlesAtOnce, Returns, Raises
  <2>2. PICK state \in {"acknowledged", "dispatched", "unknown_effect"} : Records(c, state)
    BY <1>6 DEF RunEcho, SyntaxErrorFound, EchoRaises, SettlesAtOnce
  <2>3. Enters(c) /\ begun' \in {begun, begun \cup {c}} /\ live' = live
    BY <1>6 DEF RunEcho, SyntaxErrorFound, EchoRaises
  <2> QED
    BY <1>c, <2>1, <2>2, <2>3 DEF RecordStates
<1>7. ASSUME NEW c \in DOMAIN phase, RunInProcess(c) PROVE ScriptInv'
  BY <1>c, <1>7 DEF RunInProcess, RecordStates
<1>8. ASSUME NEW c \in DOMAIN phase, CreateProcess(c) PROVE ScriptInv'
  BY <1>c, <1>8 DEF CreateProcess, RecordStates
<1>d. ASSUME NEW c \in DOMAIN phase, phase[c] = "creating",
             NEW p \in {"running", "cancelled"}, To(c, p), UNCHANGED scriptRecords,
             live' = live \cup {c}, begun' = begun \cup {c}
      PROVE  ScriptInv'
  <2>1. Holds(c)
    BY <1>d DEF Holds
  <2> QED
    BY <1>a, <1>d, <2>1, ScriptCallKeeps
<1>9. ASSUME NEW c \in DOMAIN phase, ProcessCreated(c) PROVE ScriptInv'
  BY <1>d, <1>9 DEF ProcessCreated
<1>10. ASSUME NEW c \in DOMAIN phase, CreateProcessFails(c) PROVE ScriptInv'
  <2>1. /\ phase[c] = "creating" /\ To(c, "raised") /\ UNCHANGED <<live, begun>>
        /\ Holds(c)
    BY <1>10 DEF CreateProcessFails, Raises, Holds
  <2>2. /\ scriptRecords' \in [ScriptKeys -> RecordStates]
        /\ \A k \in ScriptKeys : k # c.key \/ ~Wrapped(c) => scriptRecords'[k] = scriptRecords[k]
        /\ scriptRecords'[c.key] \in {scriptRecords[c.key], "unknown_effect"}
    BY <1>0, <1>a, <1>10 DEF CreateProcessFails, ScriptStore!MarkUnknownEffect, ScriptStore!MoveTo,
                             RecordStates
  <2> QED
    BY <1>a, <2>1, <2>2, ScriptCallKeeps
<1>11. ASSUME NEW c \in DOMAIN phase, ScriptEnds(c) PROVE ScriptInv'
  <2>1. c \in live /\ live' = live \ {c} /\ begun' = begun
    BY <1>11, Zenon DEF ScriptEnds
  <2>2. CASE phase[c] # "running"
    <3>1. UNCHANGED <<phase, scriptRecords>>
      BY <1>11, <2>2 DEF ScriptEnds
    <3> QED
      BY <2>1, <3>1 DEF ScriptInv, ScriptTyped, OneHolder, Unacknowledged, Holds, PhaseIsFunction
  <2>3. CASE phase[c] = "running"
    <3>1. PICK code : Settles(c, code)
      BY <1>11, <2>3 DEF ScriptEnds
    <3>2. Holds(c)
      BY <2>3 DEF Holds
    <3> QED
      BY <1>a, <1>b, <2>1, <3>1, <3>2
  <2> QED
    BY <2>2, <2>3
<1>12. ASSUME NEW c \in DOMAIN phase, ScriptTimesOut(c) PROVE ScriptInv'
  <2>1. phase[c] = "running" /\ Settles(c, "-1") /\ begun' = begun
    BY <1>12, Zenon DEF ScriptTimesOut
  <2>2. PICK left \in Leftovers(c) : live' = (live \ {c}) \cup left
    BY <1>12, Zenon DEF ScriptTimesOut
  <2>3. left \subseteq {c} /\ (Runtime(c) = "subprocess" => left = {})
    BY <2>2 DEF Leftovers
  <2>4. Holds(c)
    BY <2>1 DEF Holds
  <2> QED
    BY <1>a, <1>b, <2>1, <2>2, <2>3, <2>4
<1>13. ASSUME NEW c \in DOMAIN phase, CallCancelled(c) PROVE ScriptInv'
  <2>0. phase[c] \in {"creating", "running"} /\ Holds(c)
    BY <1>13 DEF CallCancelled, Holds
  <2>1. CASE Runtime(c) = "in_process_python"
    <3>1. Settles(c, "-1") /\ UNCHANGED <<live, begun>>
      BY <1>13, <2>1, Zenon DEF CallCancelled
    <3> QED
      BY <1>a, <1>b, <2>0, <2>1, <3>1
  <2>2. CASE Runtime(c) # "in_process_python"
    <3>1. To(c, "cancelled") /\ UNCHANGED scriptRecords
      BY <1>13, <2>2, Zenon DEF CallCancelled
    <3>2. CASE UNCHANGED <<live, begun>>
      BY <1>a, <2>0, <3>1, <3>2, ScriptCallKeeps
    <3>3. CASE phase[c] = "creating" /\ live' = live \cup {c} /\ begun' = begun \cup {c}
      BY <1>d, <3>1, <3>3
    <3> QED
      BY <1>13, <2>2, <3>2, <3>3, Zenon DEF CallCancelled
  <2> QED
    BY <2>1, <2>2, Zenon
<1> QED
  BY <1>1, <1>2, <1>3, <1>4, <1>5, <1>6, <1>7, <1>8, <1>9, <1>10, <1>11, <1>12, <1>13, Zenon
     DEF ScriptNext, CallStepOf

(* Across retries, cancelled calls, dead workers and a failing store, of   *)
(* the wrapped calls of a key one at most begins the script, and no        *)
(* subprocess behind the wrapper runs while its record says acknowledged   *)
(* (DedupeAwareScriptRuntime.execute_script).                              *)
LEMMA ScriptSafe == ScriptSpec => [](ScriptRunsOnce /\ AcknowledgedScriptIsOver)
<1>1. ScriptInit => ScriptInv
  <2> SUFFICES ASSUME ScriptInit PROVE ScriptInv
    OBVIOUS
  <2>1. PICK batch \in ScriptBatches :
          /\ phase = [c \in batch |-> "new"] /\ ScriptStore!StoreInit /\ live = {}
          /\ begun = {}
    BY Zenon DEF ScriptInit
  <2> QED
    BY <2>1 DEF ScriptInv, ScriptTyped, OneHolder, Unacknowledged, RecordStates, PhaseIsFunction,
                Holds, ScriptStore!StoreInit
<1>2. ScriptInv /\ [ScriptNext]_scriptVars => ScriptInv'
  BY ScriptInvNext
<1>3. ScriptInv => ScriptRunsOnce /\ AcknowledgedScriptIsOver
  BY DEF ScriptInv, ScriptTyped, OneHolder, Unacknowledged, Holds, ScriptRunsOnce,
         AcknowledgedScriptIsOver
<1> QED
  BY <1>1, <1>2, <1>3, PTL DEF ScriptSpec

(* Whatever host kinds are registered, bare or wrapped, and across         *)
(* retries, cancelled calls, dead workers and a failing store: of the      *)
(* wrapped calls of a key one at most begins the script                    *)
(* (DedupeAwareScriptRuntime).                                             *)
THEOREM WrappedScriptsRunOnce == ScriptSpec => []ScriptRunsOnce
  BY ScriptSafe, PTL

(* No subprocess of a wrapped script runs while its record says            *)
(* acknowledged (execute_script and its finally clause).                   *)
THEOREM AcknowledgedScriptsAreOver == ScriptSpec => []AcknowledgedScriptIsOver
  BY ScriptSafe, PTL
-----------------------------------------------------------------------------
(* The local runtime.  The drain count is the number of handlers, and a    *)
(* stop that is past the drain has none in flight unless the time was up.  *)
(* And until the gateway is shut down, as long as no two cancels of a run  *)
(* id were under way at once, every live task is the one its run id is     *)
(* registered with, which is also the one a cancel of the run awaits.      *)
Handlers == {c \in Calls : pc[c] = "handler"}

StopPoints == {"idle", "drain", "background", "shutdown", "close", "stopped"}

PcIsFunction   == pc = [c \in Calls |-> pc[c]]
StopIsFunction == stop = [s \in Stoppers |-> stop[s]]
AwaitedIsFunction == awaited = [c \in Calls |-> awaited[c]]

RuntimeTyped ==
  /\ PcIsFunction /\ StopIsFunction
  /\ draining \in BOOLEAN /\ forced \in BOOLEAN /\ closed \in BOOLEAN
  /\ \A s \in Stoppers : stop[s].at \in StopPoints

CountInv == IsFiniteSet(Handlers) /\ inFlight = Cardinality(Handlers)

StopInv ==
  /\ \A s \in Stoppers : stop[s].at # "idle" => draining
  /\ \A s \in Stoppers : stop[s].at \in StopPoints \ {"idle", "drain"} => forced \/ Handlers = {}
  /\ \A s \in Stoppers : stop[s].at \in {"shutdown", "close", "stopped"} => background = {}
  /\ closed => \E s \in Stoppers : stop[s].at = "stopped"

Serving == \A s \in Stoppers : stop[s].at \notin {"close", "stopped"}

UnderWay(c) == pc[c] \in {"signalled", "awaits"}

CancelsInv ==
  /\ \A c \in Calls : UnderWay(c) => c.op = "cancel"
  /\ \A c, d \in Calls : UnderWay(c) /\ UnderWay(d) /\ c.id = d.id /\ c # d => c.id \in overlaps

Current(r, t) == r \in workflows /\ t = <<r, starts[r]>>

TaskInv ==
  /\ \A t \in tasks : t[1] \in RunIds /\ (t[1] \in overlaps \/ Current(t[1], t))
  /\ \A c \in Calls : pc[c] = "awaits" =>
       c.id \in overlaps \/ \E t \in awaited[c] : Current(c.id, t)

RunsInv ==
  /\ starts \in [RunIds -> Nat] /\ workflows \subseteq RunIds /\ AwaitedIsFunction
  /\ CancelsInv
  /\ Serving => TaskInv

RuntimeInv == RuntimeTyped /\ CountInv /\ StopInv /\ RunsInv

(* Moving a call to a point that is not the handler takes it out of the    *)
(* handlers; moving it to the handler enters it.                           *)
LEMMA GotoMoves ==
  ASSUME PcIsFunction, NEW c \in Calls, NEW l, Goto(c, l)
  PROVE  /\ PcIsFunction' /\ pc'[c] = l
         /\ \A d \in Calls : d # c => pc'[d] = pc[d]
         /\ l = "handler" => Handlers' = Handlers \cup {c}
         /\ l # "handler" => Handlers' = Handlers \ {c}
<1>1. /\ PcIsFunction' /\ pc'[c] = l
      /\ \A d \in Calls : d # c => pc'[d] = pc[d]
  BY Zenon DEF Goto, PcIsFunction
<1> QED
  BY <1>1 DEF Handlers

(* The runs are kept by a step that registers and starts none, lets no     *)
(* cancel get under way, and forgets runs only as the gateway shuts down.  *)
LEMMA RunsKept ==
  ASSUME RunsInv, UNCHANGED <<starts, awaited, overlaps>>, tasks' \subseteq tasks,
         workflows' \subseteq workflows, Serving' => Serving /\ workflows' = workflows,
         \A c \in Calls : UnderWay(c)' => pc'[c] = pc[c]
  PROVE  RunsInv'
<1>1. \A c \in Calls : UnderWay(c)' => UnderWay(c) /\ pc'[c] = pc[c]
  BY Zenon DEF UnderWay
<1>2. CancelsInv'
  BY <1>1, Zenon DEF RunsInv, CancelsInv
<1>3. Serving' => TaskInv'
  <2> SUFFICES ASSUME Serving' PROVE TaskInv'
    OBVIOUS
  <2>1. TaskInv /\ workflows' = workflows
    BY Zenon DEF RunsInv
  <2>2. \A c \in Calls : pc'[c] = "awaits" => pc[c] = "awaits"
    BY Zenon DEF UnderWay
  <2> QED
    BY <2>1, <2>2 DEF TaskInv, Current
<1> QED
  BY <1>2, <1>3 DEF RunsInv, AwaitedIsFunction

(* A step of the runs and of the calls that carry no turn keeps the        *)
(* invariant: it leaves the drain alone.                                   *)
LEMMA RunStepsKeep ==
  ASSUME RuntimeInv, UNCHANGED <<turnVars, stopVars>>, PcIsFunction', Handlers' = Handlers,
         RunsInv'
  PROVE  RuntimeInv'
<1>1. StopIsFunction'
  BY DEF RuntimeInv, RuntimeTyped, StopIsFunction, stopVars
<1> QED
  BY <1>1, Zenon DEF RuntimeInv, RuntimeTyped, CountInv, StopInv, turnVars, stopVars

(* A step of a turn keeps it when the count follows the handlers, and a    *)
(* handler is entered only before any stop has begun.                      *)
LEMMA TurnStepsKeep ==
  ASSUME RuntimeInv, UNCHANGED <<workflows, tasks, starts, cancelVars, stopVars>>,
         PcIsFunction', CountInv', Handlers' \subseteq Handlers \/ ~draining,
         \A c \in Calls : UnderWay(c)' => pc'[c] = pc[c]
  PROVE  RuntimeInv'
<1>1. StopIsFunction'
  BY Zenon DEF RuntimeInv, RuntimeTyped, StopIsFunction, stopVars
<1>2. RuntimeTyped'
  BY <1>1, Zenon DEF RuntimeInv, RuntimeTyped, stopVars
<1>3. StopInv'
  BY Zenon DEF RuntimeInv, StopInv, StopPoints, stopVars
<1>4. Serving' => Serving
  BY Zenon DEF Serving, stopVars
<1>5. RunsInv'
  BY <1>4, RunsKept DEF RuntimeInv, cancelVars
<1> QED
  BY <1>2, <1>3, <1>5, Zenon DEF RuntimeInv

(* A stopper that moves leaves the others where they are.                  *)
LEMMA StopMoves ==
  ASSUME StopIsFunction, NEW s \in Stoppers, NEW l, NEW S, StopTo(s, l, S)
  PROVE  /\ StopIsFunction' /\ stop'[s].at = l
         /\ \A u \in Stoppers : u # s => stop'[u] = stop[u]
BY Zenon DEF StopTo, StopIsFunction

(* A call, a task or a stopper that moves keeps the invariant.             *)
LEMMA RuntimeInvNext ==
  ASSUME RuntimeInv, [RuntimeNext]_runtimeVars
  PROVE  RuntimeInv'
<1>0. PcIsFunction /\ StopIsFunction /\ RunsInv
  BY Zenon DEF RuntimeInv, RuntimeTyped
<1>a. ASSUME NEW c \in Calls, NEW l, Goto(c, l), pc[c] # "handler", l # "handler"
      PROVE  /\ PcIsFunction' /\ Handlers' = Handlers /\ pc'[c] = l
             /\ \A d \in Calls : d # c => pc'[d] = pc[d]
  BY <1>0, <1>a, GotoMoves, Zenon DEF Handlers
<1>b. ASSUME UNCHANGED pc PROVE PcIsFunction' /\ Handlers' = Handlers
  BY <1>0, <1>b, Zenon DEF PcIsFunction, Handlers
<1>c. ASSUME UNCHANGED <<workflows, starts, awaited, overlaps, stop>>, tasks' \subseteq tasks,
             \A c \in Calls : UnderWay(c)' => pc'[c] = pc[c]
      PROVE  RunsInv'
  <2>1. Serving' => Serving
    BY <1>c, Zenon DEF Serving
  <2> QED
    BY <1>0, <1>c, <2>1, RunsKept
<1>d. ASSUME NEW c \in Calls, NEW r \in RunIds, NEW next, StartWorkflow(c, r, next),
             pc[c] = "new", next \in {"ok", "spawned"},
             UNCHANGED <<cancelVars, turnVars, stopVars>>
      PROVE  RuntimeInv'
  <2>1. PICK l \in {"ok", "spawned", "error"} : Goto(c, l)
    BY <1>d, Zenon DEF StartWorkflow
  <2>2. /\ PcIsFunction' /\ Handlers' = Handlers /\ pc'[c] = l
        /\ \A d \in Calls : d # c => pc'[d] = pc[d]
    BY <1>a, <1>d, <2>1, Zenon
  <2>3. \A d \in Calls : UnderWay(d)' => pc'[d] = pc[d]
    BY <2>2, Zenon DEF UnderWay
  <2>4. RunsInv'
    <3>1. CASE UNCHANGED <<workflows, tasks, starts>>
      BY <1>c, <1>d, <2>3, <3>1, Zenon DEF stopVars, cancelVars
    <3>2. CASE /\ r \notin workflows /\ workflows' = workflows \cup {r}
               /\ starts' = [starts EXCEPT ![r] = @ + 1]
               /\ tasks' = tasks \cup {<<r, starts[r] + 1>>}
      <4>1. UNCHANGED <<awaited, overlaps, stop>>
        BY <1>d DEF cancelVars, stopVars
      <4>2. /\ starts' \in [RunIds -> Nat] /\ starts'[r] = starts[r] + 1
            /\ \A q \in RunIds : q # r => starts'[q] = starts[q]
            /\ workflows \subseteq RunIds
        BY <1>0, <3>2 DEF RunsInv
      <4>3. \A q, t : Current(q, t) => Current(q, t)'
        BY <3>2, <4>2 DEF Current
      <4>4. CancelsInv'
        BY <1>0, <2>3, <4>1, Zenon DEF RunsInv, CancelsInv, UnderWay
      <4>5. Serving' => TaskInv'
        <5> SUFFICES ASSUME Serving' PROVE TaskInv'
          OBVIOUS
        <5>1. TaskInv
          BY <1>0, <4>1, Zenon DEF RunsInv, Serving
        <5>2. \A t : t = <<r, starts[r] + 1>> => Current(r, t)'
          BY <3>2, <4>2 DEF Current
        <5>3. \A t \in tasks' : t[1] \in RunIds /\ (t[1] \in overlaps' \/ Current(t[1], t)')
          BY <3>2, <4>1, <4>3, <5>1, <5>2 DEF TaskInv
        <5>4. \A d \in Calls : pc'[d] = "awaits" => pc[d] = "awaits"
          BY <2>3, Zenon DEF UnderWay
        <5> QED
          BY <4>1, <4>3, <5>1, <5>3, <5>4 DEF TaskInv
      <4> QED
        BY <1>0, <3>2, <4>1, <4>2, <4>4, <4>5 DEF RunsInv, AwaitedIsFunction
    <3> QED
      BY <1>d, <3>1, <3>2, Zenon DEF StartWorkflow
  <2> QED
    BY <1>d, <2>2, <2>4, RunStepsKeep, Zenon
<1>e. ASSUME NEW c \in Calls, UnderWay(c), Goto(c, "ok"), workflows' = workflows \ {c.id},
             UNCHANGED <<tasks, starts, awaited, overlaps, turnVars, stopVars>>,
             Serving /\ c.id \notin overlaps => \A t \in tasks : ~Current(c.id, t)
      PROVE  RuntimeInv'
  <2>1. /\ PcIsFunction' /\ Handlers' = Handlers /\ pc'[c] = "ok"
        /\ \A d \in Calls : d # c => pc'[d] = pc[d]
    BY <1>a, <1>e, Zenon DEF UnderWay
  <2>2. \A d \in Calls : UnderWay(d)' => d # c /\ UnderWay(d) /\ pc'[d] = pc[d]
    BY <2>1, Zenon DEF UnderWay
  <2>3. CancelsInv'
    BY <1>0, <1>e, <2>2, Zenon DEF RunsInv, CancelsInv
  <2>4. Serving' => TaskInv'
    <3> SUFFICES ASSUME Serving' PROVE TaskInv'
      OBVIOUS
    <3>1. Serving /\ TaskInv /\ CancelsInv
      BY <1>0, <1>e, Zenon DEF RunsInv, Serving, stopVars
    <3>2. \A q, t : q # c.id /\ Current(q, t) => Current(q, t)'
      BY <1>e DEF Current
    <3>3. \A t \in tasks : t[1] \in overlaps \/ Current(t[1], t)'
      BY <1>e, <3>1, <3>2, Zenon DEF TaskInv
    <3>4. \A d \in Calls : pc'[d] = "awaits" => d.id \in overlaps \/ d.id # c.id
      BY <1>e, <2>2, <3>1, Zenon DEF CancelsInv, UnderWay
    <3>5. \A d \in Calls : pc'[d] = "awaits" => pc[d] = "awaits"
      BY <2>2, Zenon DEF UnderWay
    <3> QED
      BY <1>e, <3>1, <3>2, <3>3, <3>4, <3>5 DEF TaskInv
  <2>5. RunsInv'
    BY <1>0, <1>e, <2>3, <2>4 DEF RunsInv, AwaitedIsFunction
  <2> QED
    BY <1>e, <2>1, <2>5, RunStepsKeep, Zenon
<1>1. CASE UNCHANGED runtimeVars
  <2>1. RunsInv'
    BY <1>c, <1>1 DEF runtimeVars
  <2> QED
    BY <1>1, <1>b, <2>1, RunStepsKeep, Zenon DEF runtimeVars, turnVars, stopVars
<1>2. ASSUME NEW c \in Calls, StartRun(c) PROVE RuntimeInv'
  <2>1. c.id \in RunIds
    BY <1>2, RuntimeAssumption, Zenon DEF StartRun
  <2> QED
    BY <1>2, <1>d, <2>1, Zenon DEF StartRun
<1>3. ASSUME NEW c \in Calls, SpawnStarts(c) PROVE RuntimeInv'
  <2>1. c.child \in RunIds
    BY <1>3, RuntimeAssumption, Zenon DEF SpawnStarts
  <2> QED
    BY <1>3, <1>d, <2>1, Zenon DEF SpawnStarts
<1>4. ASSUME NEW c \in Calls, SpawnRegisters(c) \/ SpawnAnnounced(c) PROVE RuntimeInv'
  <2>1. PICK l \in {"announces", "ok", "error"} : Goto(c, l)
    BY <1>4, Zenon DEF SpawnRegisters, SpawnAnnounced
  <2>2. pc[c] # "handler" /\ UNCHANGED <<workflows, tasks, starts, cancelVars, turnVars, stopVars>>
    BY <1>4, Zenon DEF SpawnRegisters, SpawnAnnounced
  <2>3. /\ PcIsFunction' /\ Handlers' = Handlers /\ pc'[c] = l
        /\ \A d \in Calls : d # c => pc'[d] = pc[d]
    BY <1>a, <2>1, <2>2, Zenon
  <2>4. \A d \in Calls : UnderWay(d)' => pc'[d] = pc[d]
    BY <2>3, Zenon DEF UnderWay
  <2>5. RunsInv'
    BY <1>c, <2>2, <2>4, Zenon DEF stopVars, cancelVars
  <2> QED
    BY <2>2, <2>3, <2>5, RunStepsKeep, Zenon
<1>5. ASSUME NEW c \in Calls, CancelSignals(c) PROVE RuntimeInv'
  <2>0. /\ pc[c] = "new" /\ c.op = "cancel"
        /\ UNCHANGED <<workflows, tasks, starts, awaited, turnVars, stopVars>>
    BY <1>5, Zenon DEF CancelSignals
  <2>1. PICK l \in {"signalled", "error"} : Goto(c, l) /\ (l = "signalled" => c.id \in workflows)
    BY <1>5, Zenon DEF CancelSignals
  <2>2. /\ PcIsFunction' /\ Handlers' = Handlers /\ pc'[c] = l
        /\ \A d \in Calls : d # c => pc'[d] = pc[d]
    BY <1>a, <2>0, <2>1, Zenon
  <2>3. \A d \in Calls : d # c => (UnderWay(d)' <=> UnderWay(d))
    BY <2>2, Zenon DEF UnderWay
  <2>4. /\ overlaps \subseteq overlaps'
        /\ \A d \in Calls : Cancelling(d) /\ d.id = c.id /\ c.id \in workflows =>
             c.id \in overlaps'
    BY <1>5 DEF CancelSignals
  <2>5. \A d \in Calls : UnderWay(d) => Cancelling(d)
    BY <1>0, Zenon DEF RunsInv, CancelsInv, UnderWay, Cancelling
  <2>6. UnderWay(c)' => c.id \in workflows
    BY <2>1, <2>2, Zenon DEF UnderWay
  <2>7. CancelsInv'
    BY <1>0, <2>0, <2>3, <2>4, <2>5, <2>6, Zenon DEF RunsInv, CancelsInv
  <2>8. Serving' => TaskInv'
    <3> SUFFICES ASSUME Serving' PROVE TaskInv'
      OBVIOUS
    <3>1. TaskInv
      BY <1>0, <2>0, Zenon DEF RunsInv, Serving, stopVars
    <3>2. \A d \in Calls : pc'[d] = "awaits" => pc[d] = "awaits"
      BY <2>1, <2>2, Zenon
    <3>3. \A q, t : Current(q, t) => Current(q, t)'
      BY <2>0, Zenon DEF Current
    <3> QED
      BY <2>0, <2>4, <3>1, <3>2, <3>3 DEF TaskInv
  <2>9. RunsInv'
    BY <1>0, <2>0, <2>7, <2>8 DEF RunsInv, AwaitedIsFunction
  <2> QED
    BY <2>0, <2>2, <2>9, RunStepsKeep, Zenon
<1>6. ASSUME NEW c \in Calls, CancelWorkflow(c) PROVE RuntimeInv'
  <2>0. /\ pc[c] = "signalled" /\ UnderWay(c)
        /\ UNCHANGED <<tasks, starts, overlaps, turnVars, stopVars>>
    BY <1>6, Zenon DEF CancelWorkflow, UnderWay
  <2>1. CASE /\ LiveTask(c.id) # {} /\ awaited' = [awaited EXCEPT ![c] = LiveTask(c.id)]
             /\ Goto(c, "awaits") /\ UNCHANGED workflows
    <3>1. /\ PcIsFunction' /\ Handlers' = Handlers /\ pc'[c] = "awaits"
          /\ \A d \in Calls : d # c => pc'[d] = pc[d]
      BY <1>a, <2>0, <2>1, Zenon
    <3>2. /\ AwaitedIsFunction' /\ awaited'[c] = LiveTask(c.id)
          /\ \A d \in Calls : d # c => awaited'[d] = awaited[d]
      BY <1>0, <2>1, ZenonT(30) DEF RunsInv, AwaitedIsFunction
    <3>3. \A d \in Calls : UnderWay(d)' => UnderWay(d)
      BY <2>0, <3>1, Zenon DEF UnderWay
    <3>4. CancelsInv'
      BY <1>0, <2>0, <3>3, Zenon DEF RunsInv, CancelsInv
    <3>5. \A q, t : Current(q, t)' <=> Current(q, t)
      BY <2>0, <2>1, Zenon DEF Current
    <3>6. \E t \in awaited'[c] : Current(c.id, t)
      BY <2>1, <3>2, Zenon DEF LiveTask, Current
    <3>7. Serving' => TaskInv'
      <4> SUFFICES ASSUME Serving' PROVE TaskInv'
        OBVIOUS
      <4>1. TaskInv
        BY <1>0, <2>0, Zenon DEF RunsInv, Serving, stopVars
      <4> QED
        BY <2>0, <3>1, <3>2, <3>5, <3>6, <4>1 DEF TaskInv
    <3>8. RunsInv'
      BY <1>0, <2>0, <2>1, <3>2, <3>4, <3>7 DEF RunsInv
    <3> QED
      BY <2>0, <3>1, <3>8, RunStepsKeep, Zenon
  <2>2. CASE /\ LiveTask(c.id) = {} /\ workflows' = workflows \ {c.id}
             /\ Goto(c, "ok") /\ UNCHANGED awaited
    <3>1. \A t \in tasks : ~Current(c.id, t)
      BY <2>2, Zenon DEF LiveTask, Current
    <3> QED
      BY <1>e, <2>0, <2>2, <3>1, Zenon
  <2> QED
    BY <1>6, <2>1, <2>2, Zenon DEF CancelWorkflow
<1>15. ASSUME NEW c \in Calls, CancelResumes(c) PROVE RuntimeInv'
  <2>1. /\ pc[c] = "awaits" /\ UnderWay(c) /\ awaited[c] \cap tasks = {}
        /\ workflows' = workflows \ {c.id} /\ Goto(c, "ok")
        /\ UNCHANGED <<tasks, starts, awaited, overlaps, turnVars, stopVars>>
    BY <1>15 DEF CancelResumes, UnderWay, cancelVars
  <2>2. ASSUME Serving, c.id \notin overlaps, NEW t \in tasks, Current(c.id, t) PROVE FALSE
    <3>1. PICK u \in awaited[c] : Current(c.id, u)
      BY <1>0, <2>1, <2>2, Zenon DEF RunsInv, TaskInv
    <3> QED
      BY <2>1, <2>2, <3>1 DEF Current
  <2> QED
    BY <1>e, <2>1, <2>2, Zenon
<1>7. ASSUME NEW t \in AllTasks, RunTaskEnds(t) PROVE RuntimeInv'
  <2>1. /\ tasks' \subseteq tasks
        /\ UNCHANGED <<workflows, starts, awaited, overlaps, pc, turnVars, stopVars>>
    BY <1>7, Zenon DEF RunTaskEnds
  <2>2. RunsInv'
    BY <1>c, <2>1, Zenon DEF stopVars
  <2> QED
    BY <1>b, <2>1, <2>2, RunStepsKeep, Zenon
<1>8. ASSUME NEW c \in Calls, ExecuteTurn(c) PROVE RuntimeInv'
  <2>0. pc[c] = "new" /\ UNCHANGED <<workflows, tasks, starts, cancelVars, turnCache, stopVars>>
    BY <1>8 DEF ExecuteTurn
  <2>1. CASE UNCHANGED inFlight /\ \E l \in {"ok", "error"} : Goto(c, l)
    <3>1. PICK l \in {"ok", "error"} : Goto(c, l)
      BY <2>1
    <3>2. /\ PcIsFunction' /\ Handlers' = Handlers /\ pc'[c] = l
          /\ \A d \in Calls : d # c => pc'[d] = pc[d]
      BY <1>a, <2>0, <3>1, Zenon
    <3>3. CountInv'
      BY <2>1, <3>2, Zenon DEF RuntimeInv, CountInv
    <3>4. \A d \in Calls : UnderWay(d)' => pc'[d] = pc[d]
      BY <3>2, Zenon DEF UnderWay
    <3> QED
      BY <2>0, <3>2, <3>3, <3>4, TurnStepsKeep, Zenon
  <2>2. CASE ~draining /\ Goto(c, "handler") /\ inFlight' = inFlight + 1
    <3>1. /\ PcIsFunction' /\ Handlers' = Handlers \cup {c} /\ c \notin Handlers
          /\ pc'[c] = "handler" /\ \A d \in Calls : d # c => pc'[d] = pc[d]
      BY <1>0, <2>0, <2>2, GotoMoves, Zenon DEF Handlers
    <3>2. IsFiniteSet(Handlers) /\ inFlight = Cardinality(Handlers)
      BY DEF RuntimeInv, CountInv
    <3>3. IsFiniteSet(Handlers') /\ Cardinality(Handlers') = Cardinality(Handlers) + 1
      BY <3>1, <3>2, FS_AddElement, Zenon
    <3>4. CountInv'
      BY <2>2, <3>2, <3>3, Zenon DEF CountInv
    <3>5. \A d \in Calls : UnderWay(d)' => pc'[d] = pc[d]
      BY <3>1, Zenon DEF UnderWay
    <3> QED
      BY <2>0, <2>2, <3>1, <3>4, <3>5, TurnStepsKeep, Zenon
  <2> QED
    BY <1>8, <2>1, <2>2, Zenon DEF ExecuteTurn
<1>9. ASSUME NEW c \in Calls, HandlerReturns(c) \/ HandlerRaises(c) PROVE RuntimeInv'
  <2>0. /\ pc[c] = "handler" /\ UNCHANGED <<workflows, tasks, starts, cancelVars, stopVars>>
        /\ inFlight' = IF inFlight > 0 THEN inFlight - 1 ELSE 0
    BY <1>9, Zenon DEF HandlerReturns, HandlerRaises
  <2>1. PICK l \in {"ok", "error"} : Goto(c, l)
    BY <1>9, Zenon DEF HandlerReturns, HandlerRaises
  <2>2. /\ PcIsFunction' /\ Handlers' = Handlers \ {c} /\ c \in Handlers
        /\ pc'[c] = l /\ \A d \in Calls : d # c => pc'[d] = pc[d]
    BY <1>0, <2>0, <2>1, GotoMoves, Zenon DEF Handlers
  <2>3. IsFiniteSet(Handlers) /\ inFlight = Cardinality(Handlers)
    BY DEF RuntimeInv, CountInv
  <2>4. IsFiniteSet(Handlers') /\ Cardinality(Handlers') = Cardinality(Handlers) - 1
    BY <2>2, <2>3, FS_RemoveElement, Zenon
  <2>5. Cardinality(Handlers) \in Nat /\ Cardinality(Handlers') \in Nat
    BY <2>3, <2>4, FS_CardinalityType, Zenon
  <2>6. CountInv'
    BY <2>0, <2>3, <2>4, <2>5 DEF CountInv
  <2>7. \A d \in Calls : UnderWay(d)' => pc'[d] = pc[d]
    BY <2>2, Zenon DEF UnderWay
  <2> QED
    BY <2>0, <2>2, <2>6, <2>7, TurnStepsKeep, Zenon
<1>f. ASSUME NEW s \in Stoppers, NEW l \in StopPoints, NEW S, StopTo(s, l, S),
             UNCHANGED <<tasks, starts, awaited, overlaps, pc, turnVars>>,
             workflows' \subseteq workflows, UNCHANGED workflows \/ l = "close",
             stop[s].at # "stopped", stop[s].at = "close" => l = "stopped",
             draining' = TRUE, forced' \in BOOLEAN, forced => forced',
             background' \subseteq background,
             l \in StopPoints \ {"idle", "drain"} => forced' \/ Handlers = {},
             l \in {"shutdown", "close", "stopped"} => background = {},
             closed' = (closed \/ l = "stopped")
      PROVE  RuntimeInv'
  <2>1. /\ StopIsFunction' /\ stop'[s].at = l
        /\ \A u \in Stoppers : u # s => stop'[u] = stop[u]
    BY <1>0, <1>f, StopMoves, Zenon
  <2>2. PcIsFunction' /\ Handlers' = Handlers
    BY <1>b, <1>f, Zenon
  <2>3. RuntimeTyped'
    BY <1>f, <2>1, <2>2, Zenon DEF RuntimeInv, RuntimeTyped
  <2>4. CountInv'
    BY <1>f, <2>2, Zenon DEF RuntimeInv, CountInv, turnVars
  <2>5. \A u \in Stoppers : stop'[u].at \in StopPoints \ {"idle", "drain"} =>
           forced' \/ Handlers' = {}
    BY <1>f, <2>1, <2>2, Zenon DEF RuntimeInv, StopInv
  <2>6. \A u \in Stoppers : stop'[u].at \in {"shutdown", "close", "stopped"} => background' = {}
    BY <1>f, <2>1, Zenon DEF RuntimeInv, StopInv
  <2>7. closed' => \E u \in Stoppers : stop'[u].at = "stopped"
    BY <1>f, <2>1, Zenon DEF RuntimeInv, StopInv
  <2>8. StopInv'
    BY <1>f, <2>5, <2>6, <2>7, Zenon DEF StopInv
  <2>9. RunsInv'
    <3>1. Serving' => Serving /\ l # "close"
      BY <1>f, <2>1, Zenon DEF Serving
    <3> QED
      BY <1>0, <1>f, <3>1, RunsKept
  <2> QED
    BY <2>3, <2>4, <2>8, <2>9, Zenon DEF RuntimeInv
<1>g. /\ draining \in BOOLEAN /\ forced \in BOOLEAN /\ closed \in BOOLEAN
      /\ \A s \in Stoppers : stop[s].at # "idle" => draining
      /\ \A s \in Stoppers : stop[s].at \in {"background", "shutdown", "close"} =>
           forced \/ Handlers = {}
      /\ \A s \in Stoppers : stop[s].at \in {"shutdown", "close"} => background = {}
  BY Zenon DEF RuntimeInv, RuntimeTyped, StopInv, StopPoints
<1>10. ASSUME NEW s \in Stoppers, StopBegins(s) PROVE RuntimeInv'
  BY <1>f, <1>g, <1>10, Zenon DEF StopBegins, StopPoints, turnVars, cancelVars
<1>11. ASSUME NEW s \in Stoppers, DrainWaited(s) PROVE RuntimeInv'
  <2>1. inFlight = 0 => Handlers = {}
    BY FS_EmptySet, Zenon DEF RuntimeInv, CountInv
  <2> QED
    <3>1. /\ stop[s].at = "drain" /\ StopTo(s, "background", {}) /\ draining
          /\ UNCHANGED <<workflows, tasks, starts, awaited, overlaps, pc, turnVars, draining,
                         background, closed>>
      BY <1>g, <1>11, Zenon DEF DrainWaited, cancelVars
    <3>2. CASE inFlight = 0 /\ UNCHANGED forced
      BY <1>f, <1>g, <2>1, <3>1, <3>2, Zenon DEF StopPoints
    <3>3. CASE forced' = TRUE
      BY <1>f, <1>g, <3>1, <3>3, Zenon DEF StopPoints
    <3> QED
      BY <1>11, <3>2, <3>3, Zenon DEF DrainWaited
<1>12. ASSUME NEW s \in Stoppers, CancelBackground(s) PROVE RuntimeInv'
  <2>0. /\ stop[s].at = "background"
        /\ UNCHANGED <<workflows, tasks, starts, awaited, overlaps, pc, turnVars, draining,
                       forced, closed>>
    BY <1>12, Zenon DEF CancelBackground, cancelVars
  <2>1. CASE background' \subseteq background /\ UNCHANGED stop
    <3>1. PcIsFunction' /\ Handlers' = Handlers /\ RunsInv' /\ StopIsFunction'
      BY <1>0, <1>b, <1>c, <2>0, <2>1, Zenon DEF StopIsFunction
    <3>2. RuntimeTyped' /\ CountInv'
      BY <2>0, <2>1, <3>1, Zenon DEF RuntimeInv, RuntimeTyped, CountInv, turnVars
    <3>3. StopInv'
      BY <2>0, <2>1, <3>1, Zenon DEF RuntimeInv, StopInv
    <3> QED
      BY <3>1, <3>2, <3>3, Zenon DEF RuntimeInv
  <2>2. CASE background = {} /\ UNCHANGED background /\ \E S : StopTo(s, "shutdown", S)
    BY <1>f, <1>g, <2>0, <2>2, Zenon DEF StopPoints
  <2> QED
    BY <1>12, <2>1, <2>2, Zenon DEF CancelBackground
<1>13. ASSUME NEW s \in Stoppers, ShutdownGateway(s) PROVE RuntimeInv'
  <2>0. /\ stop[s].at = "shutdown"
        /\ UNCHANGED <<tasks, starts, awaited, overlaps, pc, turnVars, draining, forced,
                       background, closed>>
    BY <1>13, Zenon DEF ShutdownGateway
  <2>1. CASE UNCHANGED <<workflows, stop>>
    <3>1. PcIsFunction' /\ Handlers' = Handlers /\ RunsInv'
      BY <1>b, <1>c, <2>0, <2>1, Zenon
    <3> QED
      BY <1>0, <2>0, <2>1, <3>1, RunStepsKeep, Zenon DEF stopVars
  <2>2. CASE StopTo(s, "close", {}) /\ workflows' = {}
    BY <1>f, <1>g, <2>0, <2>2, Zenon DEF StopPoints
  <2> QED
    BY <1>13, <2>1, <2>2, Zenon DEF ShutdownGateway
<1>14. ASSUME NEW s \in Stoppers, CloseResources(s) PROVE RuntimeInv'
  BY <1>f, <1>g, <1>14, Zenon DEF CloseResources, StopPoints, turnVars, cancelVars
<1> QED
  BY <1>1, <1>2, <1>3, <1>4, <1>5, <1>6, <1>15, <1>7, <1>8, <1>9, <1>10, <1>11, <1>12, <1>13,
     <1>14, Zenon DEF RuntimeNext, CallStep, StopStep

(* For any calls and any number of stoppers: until the runtime shuts down  *)
(* a run id of which no two cancels were under way at once never has two   *)
(* live tasks (LocalWorkflowGateway), and when the stores are closed no    *)
(* background task is left and no handler either unless a drain timed out  *)
(* (KernelRuntime.stop, DrainCoordinator).                                 *)
LEMMA RuntimeSafe == RuntimeSpec => [](OneTaskPerRun /\ ClosedMeansQuiet)
<1>1. RuntimeInit => RuntimeInv
  <2> SUFFICES ASSUME RuntimeInit PROVE RuntimeInv
    OBVIOUS
  <2>1. Handlers = {} /\ PcIsFunction
    BY DEF RuntimeInit, Handlers, PcIsFunction
  <2>2. CountInv
    BY <2>1, FS_EmptySet DEF RuntimeInit, CountInv
  <2>3. StopIsFunction /\ \A s \in Stoppers : stop[s].at = "idle"
    BY DEF RuntimeInit, StopIsFunction, Idle
  <2>4. RunsInv
    BY DEF RuntimeInit, RunsInv, AwaitedIsFunction, CancelsInv, UnderWay, TaskInv
  <2> QED
    BY <2>1, <2>2, <2>3, <2>4, Zenon
       DEF RuntimeInit, RuntimeInv, RuntimeTyped, StopInv, StopPoints
<1>2. RuntimeInv /\ [RuntimeNext]_runtimeVars => RuntimeInv'
  BY RuntimeInvNext
<1>3. RuntimeInv => OneTaskPerRun
  BY DEF RuntimeInv, RunsInv, TaskInv, Current, Serving, OneTaskPerRun
<1>4. RuntimeInv => ClosedMeansQuiet
  BY DEF RuntimeInv, StopInv, StopPoints, Handlers, ClosedMeansQuiet
<1> QED
  BY <1>1, <1>2, <1>3, <1>4, PTL DEF RuntimeSpec

(* Until the runtime shuts down a run id of which no two cancels were      *)
(* under way at once never has two live tasks, for any calls, each cancel  *)
(* forgetting the run id in a step of its own (LocalWorkflowGateway).      *)
THEOREM OneTask == RuntimeSpec => []OneTaskPerRun
  BY RuntimeSafe, PTL

(* When the stores are closed no background task is left, and no handler   *)
(* unless a drain timed out (KernelRuntime.stop).                          *)
THEOREM ClosedIsQuiet == RuntimeSpec => []ClosedMeansQuiet
  BY RuntimeSafe, PTL
=============================================================================
