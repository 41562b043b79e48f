---------------------------- MODULE ScriptRuntimes ----------------------------
(***************************************************************************)
(* Skill scripts: a call goes through the registry of its worker process   *)
(* (script_runtime_registry.py) to a runtime that runs the script in the   *)
(* process, as a subprocess, or not at all.  The three built-in host kinds *)
(* are registered bare.  An application may register more, or register     *)
(* these anew, behind the wrapper that takes a slot of the dedupe store    *)
(* the workers share (DedupeAwareScriptRuntime).  A call may be cancelled  *)
(* and its worker may die; a retry is another call with the same key.      *)
(***************************************************************************)
EXTENDS Naturals, FiniteSets

CONSTANTS
  ScriptBatches,        \* sets of calls, of which a behaviour makes one
  AppHosts,             \* what the application registers: host kind -> Host
  Workers,              \* worker processes
  ScriptFaults          \* subset of {"store", "runtime", "cancel", "death"}

VARIABLES
  phase,                \* of each call
  exit,                 \* the exit code a call returned, once it has
  scriptRecords,        \* the records of the shared dedupe store
  live,                 \* calls whose script is executing
  begun,                \* history: calls whose script was begun
  production            \* workers whose registry is in production mode

scriptVars == <<phase, exit, scriptRecords, live, begun, production>>

ScriptCall(id, worker, key, kind) == [id |-> id, worker |-> worker, key |-> key, kind |-> kind]

ScriptCalls == UNION ScriptBatches
ScriptKeys  == {c.key : c \in ScriptCalls}

Host(runtime, wrapped, safe) == [runtime |-> runtime, wrapped |-> wrapped, safe |-> safe]

(* _register_builtin_runtimes.                                             *)
Builtin == [kind \in {"echo", "in_process_python", "local_process"} |->
              Host(kind, FALSE, kind = "local_process")]

(* register() overwrites an earlier registration of the host kind.         *)
Hosts == [kind \in DOMAIN Builtin \cup DOMAIN AppHosts |->
            IF kind \in DOMAIN AppHosts THEN AppHosts[kind] ELSE Builtin[kind]]

Runtime(c) == Hosts[c.kind].runtime
Wrapped(c) == c.kind \in DOMAIN Hosts /\ Hosts[c.kind].wrapped

ScriptStore == INSTANCE DedupeStore WITH StoreKeys <- ScriptKeys, records <- scriptRecords

ScriptInit ==
  \E batch \in ScriptBatches :
    /\ phase = [c \in batch |-> "new"]
    /\ exit = [c \in batch |-> "none"]
    /\ ScriptStore!StoreInit
    /\ live = {}
    /\ begun = {}
    /\ production = {}

To(c, p) == phase' = [phase EXCEPT ![c] = p]

Returns(c, code) == To(c, "returned") /\ exit' = [exit EXCEPT ![c] = code]
Raises(c)        == To(c, "raised") /\ UNCHANGED exit
-----------------------------------------------------------------------------
EnableProductionMode(w) ==
  /\ production' = production \cup {w}
  /\ UNCHANGED <<phase, exit, scriptRecords, live, begun>>

Dispatchable(c) ==
  c.kind \in DOMAIN Hosts /\ (c.worker \in production => Hosts[c.kind].safe)

(* dispatch() raises for a kind that is unknown or not fit for production. *)
DispatchRefused(c) ==
  /\ phase[c] = "new" /\ ~Dispatchable(c)
  /\ Raises(c)
  /\ UNCHANGED <<scriptRecords, live, begun, production>>

(* Mutant: a slot counts as taken once its script has been acknowledged.   *)
SlotTakenOnceDone(key) == scriptRecords[key] = "acknowledged"

(* Whatever its state, a record means that the script is not run again.    *)
SlotTaken(key) == scriptRecords[key] # "absent"

(* A call whose slot is taken returns the empty result of a success.       *)
ReturnsNoop(c) ==
  /\ phase[c] = "new" /\ Dispatchable(c) /\ Wrapped(c) /\ SlotTaken(c.key)
  /\ Returns(c, "noop")
  /\ UNCHANGED <<scriptRecords, live, begun, production>>

(* reserve() or mark_dispatched() raises before the script is touched.     *)
SlotRaises(c) ==
  /\ "store" \in ScriptFaults
  /\ phase[c] = "new" /\ Dispatchable(c) /\ Wrapped(c) /\ ~SlotTaken(c.key)
  /\ \/ UNCHANGED scriptRecords
     \/ ScriptStore!Reserve(c.key)
  /\ Raises(c)
  /\ UNCHANGED <<live, begun, production>>

(* The inner runtime is entered: by a bare call always, by a wrapped one   *)
(* that took the slot.                                                     *)
Enters(c) ==
  phase[c] = "new" /\ Dispatchable(c) /\ (Wrapped(c) => ~SlotTaken(c.key))

(* Only the wrapper writes to the store.                                   *)
Records(c, state) ==
  scriptRecords' = IF Wrapped(c) THEN [scriptRecords EXCEPT ![c.key] = state] ELSE scriptRecords

(* No await lies between the slot and its settlement: the record goes from *)
(* absent to acknowledged, or stops at dispatched when the store raises.   *)
SettlesAtOnce(c, code) ==
  \/ Records(c, "acknowledged") /\ Returns(c, code)
  \/ "store" \in ScriptFaults /\ Wrapped(c) /\ Records(c, "dispatched") /\ Raises(c)

RunEcho(c) ==
  /\ Enters(c) /\ Runtime(c) = "echo"
  /\ begun' = begun \cup {c}
  /\ SettlesAtOnce(c, "0")
  /\ UNCHANGED <<live, production>>

(* The parameters have no JSON form: json.dumps raises.                    *)
EchoRaises(c) ==
  /\ "runtime" \in ScriptFaults
  /\ Enters(c) /\ Runtime(c) = "echo"
  /\ \/ Records(c, "unknown_effect")
     \/ "store" \in ScriptFaults /\ Records(c, "dispatched")
  /\ Raises(c)
  /\ UNCHANGED <<live, begun, production>>

(* The subprocess runtime parses the script before it starts a process.    *)
SyntaxErrorFound(c) ==
  /\ Enters(c) /\ Runtime(c) = "subprocess"
  /\ SettlesAtOnce(c, "2")
  /\ UNCHANGED <<live, begun, production>>

(* exec() in a thread of the process, begun before the first await.        *)
RunInProcess(c) ==
  /\ Enters(c) /\ Runtime(c) = "in_process_python"
  /\ Records(c, "dispatched")
  /\ To(c, "running")
  /\ live' = live \cup {c}
  /\ begun' = begun \cup {c}
  /\ UNCHANGED <<exit, production>>

(* The runtimes that start a process wait for the process to be created.   *)
CreateProcess(c) ==
  /\ Enters(c) /\ Runtime(c) \in {"local_process", "subprocess"}
  /\ Records(c, "dispatched")
  /\ To(c, "creating")
  /\ UNCHANGED <<exit, live, begun, production>>

ProcessCreated(c) ==
  /\ phase[c] = "creating"
  /\ To(c, "running")
  /\ live' = live \cup {c}
  /\ begun' = begun \cup {c}
  /\ UNCHANGED <<exit, scriptRecords, production>>

(* An exception of the runtime: the record is marked unknown, unless the   *)
(* store raises as well, which is suppressed.                              *)
CreateProcessFails(c) ==
  /\ "runtime" \in ScriptFaults
  /\ phase[c] = "creating"
  /\ \/ Wrapped(c) /\ ScriptStore!MarkUnknownEffect(c.key)
     \/ (Wrapped(c) => "store" \in ScriptFaults) /\ UNCHANGED scriptRecords
  /\ Raises(c)
  /\ UNCHANGED <<live, begun, production>>

(* The runtime has returned a result: mark_acknowledged is called outside  *)
(* the try, so that an error of the store replaces the result.             *)
Settles(c, code) ==
  \/ Wrapped(c) /\ ScriptStore!MarkAcknowledged(c.key) /\ Returns(c, code)
  \/ Wrapped(c) /\ "store" \in ScriptFaults /\ Raises(c) /\ UNCHANGED scriptRecords
  \/ ~Wrapped(c) /\ Returns(c, code) /\ UNCHANGED scriptRecords

(* The script comes to its end, in time or long after its caller left.     *)
ScriptEnds(c) ==
  /\ c \in live
  /\ live' = live \ {c}
  /\ IF phase[c] = "running"
       THEN \E code \in {"0", "1"} : Settles(c, code)
       ELSE UNCHANGED <<phase, exit, scriptRecords>>
  /\ UNCHANGED <<begun, production>>

(* Mutant: the process is left to itself.                                  *)
LeftoversUnkilled(c) == {{c}}

(* What a timeout may leave running: a thread is only abandoned, a process *)
(* is killed and waited for, but where that process is a shell the command *)
(* it runs may survive it.                                                 *)
Leftovers(c) ==
  CASE Runtime(c) = "in_process_python" -> {{c}}
    [] Runtime(c) = "local_process"     -> {{c}, {}}
    [] OTHER                            -> {{}}

ScriptTimesOut(c) ==
  /\ phase[c] = "running"
  /\ \E left \in Leftovers(c) : live' = (live \ {c}) \cup left
  /\ Settles(c, "-1")
  /\ UNCHANGED <<begun, production>>

(* The task of the call is cancelled: the in-process runtime turns that    *)
(* into the result of a timeout; the others let it pass, with the record   *)
(* dispatched and the process, if there is one, running.                   *)
CallCancelled(c) ==
  /\ "cancel" \in ScriptFaults
  /\ phase[c] \in {"creating", "running"}
  /\ IF Runtime(c) = "in_process_python"
       THEN Settles(c, "-1") /\ UNCHANGED <<live, begun>>
       ELSE /\ To(c, "cancelled")
            /\ UNCHANGED <<exit, scriptRecords>>
            /\ \/ UNCHANGED <<live, begun>>
               \/ /\ phase[c] = "creating"
                  /\ live' = live \cup {c}
                  /\ begun' = begun \cup {c}
  /\ UNCHANGED production

(* A worker dies and is started again: its calls are lost, its threads     *)
(* end with it, the processes it created do not.                           *)
WorkerDies(w) ==
  LET mine == {c \in DOMAIN phase : c.worker = w}
  IN  /\ "death" \in ScriptFaults
      /\ \E c \in mine : phase[c] \in {"creating", "running"}
      /\ phase' = [c \in DOMAIN phase |->
           IF c \in mine /\ phase[c] \in {"creating", "running"} THEN "lost" ELSE phase[c]]
      /\ live' = {c \in live : c \in mine => Runtime(c) # "in_process_python"}
      /\ production' = production \ {w}
      /\ UNCHANGED <<exit, scriptRecords, begun>>

CallStepOf(c) ==
  \/ DispatchRefused(c)
  \/ ReturnsNoop(c)
  \/ SlotRaises(c)
  \/ RunEcho(c)
  \/ EchoRaises(c)
  \/ SyntaxErrorFound(c)
  \/ RunInProcess(c)
  \/ CreateProcess(c)
  \/ ProcessCreated(c)
  \/ CreateProcessFails(c)
  \/ ScriptEnds(c)
  \/ ScriptTimesOut(c)
  \/ CallCancelled(c)

ScriptNext ==
  \/ \E c \in DOMAIN phase : CallStepOf(c)
  \/ \E w \in Workers : EnableProductionMode(w) \/ WorkerDies(w)

ScriptSpec == ScriptInit /\ [][ScriptNext]_scriptVars
-----------------------------------------------------------------------------
(* Across retries, cancelled calls, dead workers, two workers that get the *)
(* same call, and a store that fails: of the calls with one key that go    *)
(* through the wrapper, one at most begins the script, whatever bare calls *)
(* of the key do (DedupeAwareScriptRuntime.execute_script).  The bare      *)
(* runtimes begin the script at every call.                                *)
ScriptRunsOnce ==
  \A c, d \in begun : Wrapped(c) /\ Wrapped(d) /\ c.key = d.key => c = d

(* An acknowledged subprocess is over: no script that the subprocess       *)
(* runtime runs behind the wrapper runs while its record says              *)
(* acknowledged, because a timeout kills the process and waits for it      *)
(* before the result is returned, and a cancelled call leaves the record   *)
(* alone.  The threads of the in-process runtime and the commands under    *)
(* the shell of the local one do outlive their results (execute_script of  *)
(* the three runtimes).                                                    *)
AcknowledgedScriptIsOver ==
  \A c \in live :
    Wrapped(c) /\ Runtime(c) = "subprocess" => scriptRecords[c.key] # "acknowledged"
=============================================================================
