----------------------------- MODULE MCServices -----------------------------
(***************************************************************************)
(* Instances of what surrounds a run: the trace registries of the facade   *)
(* instances, the two substrates, the durable stores, and the services a   *)
(* turn calls.  They share no state, so one behaviour follows one of them: *)
(* part says which.                                                        *)
(***************************************************************************)
EXTENDS TLC, TraceFacade, LocalRuntime, SqlStores, ProjectionCache, EventExport,
        SchemaMigrations, Admission, ScriptRuntimes, TemporalSubstrate, ChildRuns, Reasoning

CONSTANTS
  Parts,                                    \* the parts a run looks at
  f1, f2, r1, r2, b1, s1, g1,               \* instances, runs, nodes, gates
  child, key1, key2,                        \* of the local runtime
  c1, c2, c3, k1, k2,                       \* connections and dispatch keys
  w1, w2,                                   \* worker processes
  old, current, orphan                      \* commits of three schema versions

VARIABLE part

stores   == <<sqlVars, cacheVars, exportVars, migrationVars>>
services == <<admissionVars, scriptVars, substrateVars, childVars, reasonVars>>

vars == <<traceVars, runtimeVars, stores, services, part>>

(* The requests of the clients: changes of a branch at one instance, and   *)
(* of a stage at two, a gate that another instance rejects, two verdicts on*)
(* one gate, and two runs where one may be tracked.  Each instance answers *)
(* queries; in all but the first, two queries of one instance overlap.     *)
Requests(writes, queries) == [writes |-> writes, queries |-> queries]

MCBatches ==
  LET both   == {Query(f1, r1, "a"), Query(f2, r1, "a")}
      twice1 == both \cup {Query(f1, r1, "b")}
      twice2 == both \cup {Query(f2, r1, "b")}
  IN  {Requests({Write(f1, "open", r1, b1, "active"), Write(f1, "mark", r1, b1, "failed"),
                 Write(f1, "mark", r1, b1, "succeeded")}, both),
       Requests({Write(f1, "open", r1, s1, "active"), Write(f2, "mark", r1, s1, "failed")},
                twice2),
       Requests({Write(f1, "gate", r1, g1, "open"), Write(f2, "approval", r1, g1, "rejected")},
                twice1),
       Requests({Write(f1, "approval", r1, g1, "approved"),
                 Write(f1, "approval", r1, g1, "rejected")}, twice2),
       Requests({Write(f1, "open", r1, b1, "active"), Write(f1, "escalation", r2, r2, "done")},
                twice1)}

(* The calls: starts and cancels of one run, with a third start while the  *)
(* runtime is not stopped, a spawn raced by a cancel of the parent, and    *)
(* turns of which two have the same key.                                   *)
StartsAndCancels ==
  {Call("a", "start", r1, "none"), Call("b", "start", r1, "none"),
   Call("a", "cancel", r1, "none"), Call("b", "cancel", r1, "none")}

ThirdStart == Call("c", "start", r1, "none")

MCCallBatches == {
  StartsAndCancels, StartsAndCancels \cup {ThirdStart},
  {Call("a", "start", r1, "none"), Call("a", "spawn", r1, child),
   Call("a", "cancel", r1, "none")},
  {Call("a", "turn", key1, "none"), Call("b", "turn", key1, "none"),
   Call("a", "turn", key2, "none")}}

(* The calls of three worker processes: appends to one run, a race for one *)
(* key with and without the atomic record, and the life of one key.        *)
MCSqlBatches == {
  {SqlCall("a1", c1, "append", k1, r1, 2), SqlCall("a2", c2, "append", k1, r1, 1),
   SqlCall("a3", c3, "append", k1, r1, 2), SqlCall("a4", c1, "append", k1, r2, 1)},
  {SqlCall("a1", c1, "atomic", k1, r1, 2), SqlCall("a2", c2, "atomic", k1, r1, 1),
   SqlCall("a3", c2, "append", k2, r1, 1), SqlCall("d1", c3, "reserve", k1, r1, 0),
   SqlCall("d2", c3, "dispatched", k1, r1, 0)},
  {SqlCall("d1", c1, "reserve", k1, r1, 0),
   SqlCall("d2", c2, "reserve_and_dispatch", k1, r1, 0),
   SqlCall("d3", c1, "dispatched", k1, r1, 0), SqlCall("d4", c2, "acknowledged", k1, r1, 0),
   SqlCall("d5", c1, "unknown", k1, r1, 0), SqlCall("d6", c2, "succeeded", k1, r1, 0)}}

(* "1" leads to "3" through "2"; nothing leads away from "0".              *)
MCVersionOf  == old :> "1" @@ current :> "3" @@ orphan :> "0"
MCRegistered == {<<"1", "2">>, <<"2", "3">>, <<"2", "1">>}

(* Actions of one run that pass, or that one rule each denies, some under  *)
(* the policy file; and an action of another run under the default policy. *)
Tool ==
  [run |-> r1, ref |-> "file", readonly |-> FALSE, type |-> "tool_call", target |-> "bound",
   bindings |-> {"bound"}, idempotent |-> TRUE, effect |-> "read_only", tier |-> 0]

MCActions == {
  Tool, [Tool EXCEPT !.target = "unbound"], [Tool EXCEPT !.readonly = TRUE],
  [Tool EXCEPT !.tier = 2], [Tool EXCEPT !.ref = "unknown"],
  [Tool EXCEPT !.type = "peer_signal", !.bindings = {}, !.idempotent = FALSE,
               !.effect = "remote_write"],
  [Tool EXCEPT !.run = r2, !.ref = "policy:default"]}

Policy(limit) == [tier |-> 1, remoteWrites |-> limit = 2, perMinute |-> limit]

MCDefaultPolicy == Policy(2)
MCFilePolicies  == {Policy(1), Policy(2)}

(* The application wraps the built-in runtimes under names of their own.   *)
MCHosts == [
  echo_once   |-> Host("echo", TRUE, FALSE),
  python_once |-> Host("in_process_python", TRUE, FALSE),
  local_once  |-> Host("local_process", TRUE, TRUE),
  subprocess  |-> Host("subprocess", TRUE, TRUE)]

(* One script called twice on two workers and again on the first, and with *)
(* it kinds that answer at once or are not registered; and one that bare   *)
(* calls run beside the wrapped ones.                                      *)
MCScriptBatches == {
  {ScriptCall(1, w1, k1, "local_once"), ScriptCall(2, w2, k1, "local_once"),
   ScriptCall(3, w1, k1, "subprocess")},
  {ScriptCall(1, w1, k1, "python_once"), ScriptCall(2, w2, k1, "python_once"),
   ScriptCall(3, w1, k2, "echo_once"), ScriptCall(4, w1, k2, "unknown")},
  {ScriptCall(1, w1, k1, "local_process"), ScriptCall(2, w2, k1, "subprocess"),
   ScriptCall(3, w1, k1, "in_process_python")},
  {ScriptCall(1, w1, k1, "echo"), ScriptCall(2, w2, k1, "echo_once")}}

(* A child spawned twice under a parent that is cancelled; a run started   *)
(* for a parent, cancelled, and spawned under the same id; two children.   *)
MCRunCallBatches == {
  {RunCall("a", "start", r1, NoParent), RunCall("a", "spawn", r2, r1),
   RunCall("b", "spawn", r2, r1), RunCall("a", "cancel", r1, NoParent)},
  {RunCall("a", "start", r1, NoParent), RunCall("a", "start", r2, r1),
   RunCall("a", "cancel", r2, NoParent), RunCall("a", "spawn", r2, r1)},
  {RunCall("a", "start", r1, NoParent), RunCall("a", "spawn", r2, r1),
   RunCall("a", "spawn", child, r1)}}

(* A part that is not looked at starts in one of its initial states.       *)
Some(S) == CHOOSE x \in S : TRUE

MCInit ==
  /\ part \in Parts
  /\ TraceInit /\ RuntimeInit /\ SqlInit /\ CacheInit /\ ExportInit /\ MigrationInit
  /\ AdmissionInit /\ ScriptInit /\ SubstrateInit /\ ChildInit /\ ReasonInit
  /\ part # "trace" => /\ {w \in Writes : at[w] = "unsent"} = Some(MCBatches).writes
                       /\ DOMAIN load = Some(MCBatches).queries
  /\ part # "runtime" => {c \in Calls : pc[c] = "new"} = Some(MCCallBatches)
  /\ part # "sql" => backend = Some(Backends) /\ DOMAIN answers = Some(MCSqlBatches)
  /\ part # "admission" => policyFile = Some(MCFilePolicies)
  /\ part # "scripts" => DOMAIN phase = Some(MCScriptBatches)
  /\ part # "children" => DOMAIN request = Some(MCRunCallBatches)

OnRuntime(A) ==
  /\ part = "runtime" /\ A /\ UNCHANGED <<traceVars, stores, services, part>>
  /\ pc[ThirdStart] = "unused" \/ UNCHANGED stop

OnStore(name, A, others) ==
  part = name /\ A /\ UNCHANGED <<others, traceVars, runtimeVars, services, part>>

OnService(name, A, others) ==
  part = name /\ A /\ UNCHANGED <<others, traceVars, runtimeVars, stores, part>>

MCNext ==
  \/ OnRuntime(RuntimeNext)
  \/ part = "trace" /\ TraceNext /\ UNCHANGED <<runtimeVars, stores, services, part>>
  \/ OnStore("sql", SqlNext, <<cacheVars, exportVars, migrationVars>>)
  \/ OnStore("cache", CacheNext, <<sqlVars, exportVars, migrationVars>>)
  \/ OnStore("export", ExportNext, <<sqlVars, cacheVars, migrationVars>>)
  \/ OnStore("migrations", MigrationNext, <<sqlVars, cacheVars, exportVars>>)
  \/ OnService("admission", AdmissionNext, <<scriptVars, substrateVars, childVars, reasonVars>>)
  \/ OnService("scripts", ScriptNext, <<admissionVars, substrateVars, childVars, reasonVars>>)
  \/ OnService("temporal", SubstrateNext, <<admissionVars, scriptVars, childVars, reasonVars>>)
  \/ OnService("children", ChildNext, <<admissionVars, scriptVars, substrateVars, reasonVars>>)
  \/ OnService("reasoning", ReasonNext, <<admissionVars, scriptVars, substrateVars, childVars>>)

(* Fairness: a stop that is not waiting goes on, the drain's time runs out,*)
(* and a run task that was cancelled ends.  Nothing is assumed of the      *)
(* handlers of turns.                                                      *)
MCSpec ==
  /\ MCInit /\ [][MCNext]_vars
  /\ \A s \in Stoppers : /\ WF_runtimeVars(OnRuntime(DrainWaited(s)))
                         /\ WF_runtimeVars(OnRuntime(CancelBackground(s)))
                         /\ WF_runtimeVars(OnRuntime(ShutdownGateway(s)))
                         /\ WF_runtimeVars(OnRuntime(CloseResources(s)))
  /\ \A t \in AllTasks : WF_runtimeVars(OnRuntime(t \in cancelled /\ RunTaskEnds(t)))
=============================================================================
