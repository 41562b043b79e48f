----------------------------- MODULE TurnEngine -----------------------------
(***************************************************************************)
(* Turns of the TurnEngine (kernel/turn_engine.py) running concurrently    *)
(* against one shared DedupeStore.  A turn is the six phases of run_turn;  *)
(* the phases that touch the store are split at every store call, since    *)
(* the SQLite and PostgreSQL stores are shared between processes.          *)
(*                                                                         *)
(* A dispatch key stands for the action it was computed from: the policy   *)
(* key hashes the action, its effect class and the capability snapshot, so *)
(* turns with equal keys carry the same action at the same offset, and     *)
(* LegacyOf gives the historical key `run:action:offset' of that action.   *)
(***************************************************************************)
EXTENDS DedupeStore, Naturals, FiniteSets

CONSTANTS Turns,          \* run_turn invocations, of any process
          Keys,           \* policy keys `dispatch:run:action:hash'
          LegacyKeys,     \* historical keys `run:action:offset'
          LegacyOf,       \* Keys -> LegacyKeys
          ActionOf,       \* Keys -> Action
          MaxAttempts,    \* max_attempts of RetryingExecutorService
          Faults          \* which of "store", "timeout", "crash" can happen

EffectClasses == {"read_only", "idempotent_write",
                  "compensatable_write", "irreversible_write"}
HostKinds == {"local_process", "local_cli", "cli_process", "in_process_python",
              "remote_service"}

(***************************************************************************)
(* What the dispatch policy reads of an action: its effect class, the host *)
(* named by a tag or the payload, the external idempotency level and the   *)
(* remote service contract ("key_and_ack" accepts the dispatch key and     *)
(* acknowledges stably; "weak" declares less).                             *)
(***************************************************************************)
Action == [effect_class : EffectClasses,
           host         : HostKinds \cup {"unset"},
           level        : {"unset", "best_effort", "guaranteed"},
           contract     : {"missing", "weak", "key_and_ack"}]

ASSUME KeyAssumption ==
  /\ StoreKeys = Keys \cup LegacyKeys
  /\ Keys \cap LegacyKeys = {}
  /\ LegacyOf \in [Keys -> LegacyKeys]
  /\ ActionOf \in [Keys -> Action]

ASSUME AttemptsAssumption == MaxAttempts \in Nat \ {0}

VARIABLES pc,       \* per turn: the next step, or how the turn ended
          key,      \* per turn: the dispatch_dedupe_key of its identity
          slot,     \* per turn: how phase 5 left the key: held, degraded
          alias,    \* per turn: _legacy_alias_key is set
          calls,    \* per turn: invocations of the inner executor
          verdict   \* per turn: what the executor reported

turnVars == <<pc, key, slot, alias, calls, verdict>>
vars == <<records, turnVars>>

Ended == {"noop", "blocked", "dispatched", "recovery_pending", "raised",
          "timed_out", "crashed"}
Phases == {"noop_or_reasoning", "snapshot", "admission", "dispatch_policy",
           "legacy_get", "reserve", "mirror", "execute", "executing",
           "settle", "settle_alias"}

TypeOK ==
  /\ StoreTypeOK
  /\ pc \in [Turns -> Phases \cup Ended]
  /\ key \in [Turns -> Keys]
  /\ slot \in [Turns -> {"none", "held", "degraded"}]
  /\ alias \in [Turns -> BOOLEAN]
  /\ calls \in [Turns -> 0..MaxAttempts]
  /\ verdict \in [Turns -> {"none", "acked", "unacked", "raised"}]

Init ==
  /\ StoreInit
  /\ pc = [t \in Turns |-> "noop_or_reasoning"]
  /\ key \in [Turns -> Keys]
  /\ slot = [t \in Turns |-> "none"]
  /\ alias = [t \in Turns |-> FALSE]
  /\ calls = [t \in Turns |-> 0]
  /\ verdict = [t \in Turns |-> "none"]
-----------------------------------------------------------------------------
Goto(t, p) == pc' = [pc EXCEPT ![t] = p]

Step(t, from, to) == pc[t] = from /\ Goto(t, to)

(* A store call may raise instead of returning; its write may be durable   *)
(* all the same (a connection lost after the commit).                      *)
StoreRaises(write) == "store" \in Faults /\ (write \/ UNCHANGED records)

(* Phase 1.  The action is given, or derived by the reasoning loop; with   *)
(* no loop, a loop that fails or no proposed action the turn is a noop.    *)
NoopOrReasoning(t) ==
  /\ \E next \in {"snapshot", "noop"} : Step(t, "noop_or_reasoning", next)
  /\ UNCHANGED <<records, key, slot, alias, calls, verdict>>

(* Phase 2.  A snapshot that cannot be built, or is not compatible, makes  *)
(* the turn a noop; what is neither a build error nor a ValueError (of the *)
(* resolver, of the JSON that is hashed) ends it.                          *)
BuildSnapshot(t) ==
  /\ \E next \in {"admission", "noop", "raised"} : Step(t, "snapshot", next)
  /\ UNCHANGED <<records, key, slot, alias, calls, verdict>>

(* Phase 3.  The admission service admits, denies or raises.               *)
Admission(t) ==
  /\ \E next \in {"dispatch_policy", "blocked", "raised"} :
       Step(t, "admission", next)
  /\ UNCHANGED <<records, key, slot, alias, calls, verdict>>

HostKind(a) ==
  IF a.host # "unset" THEN a.host
  ELSE IF a.effect_class # "read_only" /\ a.level # "unset"
       THEN "remote_service" ELSE "local_cli"

CanClaimGuaranteed(a) == a.level = "guaranteed" /\ a.contract = "key_and_ack"

ShouldBlock(a) ==
  /\ HostKind(a) = "remote_service"
  /\ a.effect_class # "read_only"
  /\ a.level = "guaranteed"
  /\ ~CanClaimGuaranteed(a)

(* Phase 4.  A guaranteed remote write needs a contract that backs it.     *)
DispatchPolicy(t) ==
  /\ Step(t, "dispatch_policy",
          IF ShouldBlock(ActionOf[key[t]]) THEN "blocked" ELSE "legacy_get")
  /\ UNCHANGED <<records, key, slot, alias, calls, verdict>>

(* Phase 5, first call: get(legacy_key).  A record blocks the turn; an     *)
(* error of the store is suppressed and reads as no record.                *)
LegacyGet(t) ==
  /\ \/ /\ records[LegacyOf[key[t]]] # "absent"
        /\ Step(t, "legacy_get", "blocked")
     \/ /\ records[LegacyOf[key[t]]] = "absent" \/ "store" \in Faults
        /\ Step(t, "legacy_get", "reserve")
  /\ UNCHANGED <<records, key, slot, alias, calls, verdict>>

(* Mutant: the store degrades every effect class, not only idempotent      *)
(* writes.                                                                 *)
ReserveSlotDegradesAny(t) ==
  /\ pc[t] = "reserve"
  /\ \/ /\ ReserveAndDispatch(key[t])
        /\ slot' = [slot EXCEPT ![t] = "held"]
        /\ Goto(t, "mirror")
     \/ /\ records[key[t]] # "absent"
        /\ Goto(t, "blocked")
        /\ UNCHANGED <<records, slot>>
     \/ /\ StoreRaises(ReserveAndDispatch(key[t]))
        /\ slot' = [slot EXCEPT ![t] = "degraded"]
        /\ Goto(t, "execute")
  /\ UNCHANGED <<key, alias, calls, verdict>>

(* Phase 5, second call: _reserve_with_degradation.  When the store raises *)
(* an idempotent write goes on without a slot, any other action fails.     *)
ReserveSlot(t) ==
  /\ pc[t] = "reserve"
  /\ \/ /\ ReserveAndDispatch(key[t])
        /\ slot' = [slot EXCEPT ![t] = "held"]
        /\ Goto(t, "mirror")
     \/ /\ records[key[t]] # "absent"
        /\ Goto(t, "blocked")
        /\ UNCHANGED <<records, slot>>
     \/ /\ StoreRaises(ReserveAndDispatch(key[t]))
        /\ IF ActionOf[key[t]].effect_class = "idempotent_write"
           THEN /\ slot' = [slot EXCEPT ![t] = "degraded"]
                /\ Goto(t, "execute")
           ELSE /\ Goto(t, "raised")
                /\ UNCHANGED slot
  /\ UNCHANGED <<key, alias, calls, verdict>>

(* Phase 5, third call: the slot is mirrored under the legacy key.  Every  *)
(* error is suppressed; only an accepted mirror becomes an alias.          *)
MirrorSlot(t) ==
  /\ Step(t, "mirror", "execute")
  /\ \/ /\ ReserveAndDispatch(LegacyOf[key[t]])
        /\ alias' = [alias EXCEPT ![t] = TRUE]
     \/ /\ records[LegacyOf[key[t]]] # "absent"
        /\ UNCHANGED <<records, alias>>
     \/ /\ StoreRaises(ReserveAndDispatch(LegacyOf[key[t]]))
        /\ UNCHANGED alias
  /\ UNCHANGED <<key, slot, calls, verdict>>

(* Phase 6: the executor is called.                                        *)
Execute(t) ==
  /\ Step(t, "execute", "executing")
  /\ calls' = [calls EXCEPT ![t] = @ + 1]
  /\ UNCHANGED <<records, key, slot, alias, verdict>>

(* Mutant: an attempt counter that restarts.                              *)
RetryTransientForever(t) ==
  /\ Step(t, "executing", "executing")
  /\ calls' = [calls EXCEPT ![t] = IF @ < MaxAttempts THEN @ + 1 ELSE 1]
  /\ UNCHANGED <<records, key, slot, alias, verdict>>

(* Mutant: the last attempt is not counted.                                *)
RetryTransientOnceMore(t) ==
  /\ Step(t, "executing", "executing")
  /\ calls[t] <= MaxAttempts
  /\ calls' = [calls EXCEPT ![t] = @ + 1]
  /\ UNCHANGED <<records, key, slot, alias, verdict>>

(* RetryingExecutorService: a transient error before the last attempt is   *)
(* retried inside the same turn.                                           *)
RetryTransient(t) ==
  /\ Step(t, "executing", "executing")
  /\ calls[t] < MaxAttempts
  /\ calls' = [calls EXCEPT ![t] = @ + 1]
  /\ UNCHANGED <<records, key, slot, alias, verdict>>

(* The executor returns (acknowledged or not) or raises.  A turn without a *)
(* slot has no record to settle.                                           *)
Outcome(v) == CASE v = "acked"   -> "dispatched"
                [] v = "unacked" -> "recovery_pending"
                [] v = "raised"  -> "raised"

(* Mutant: an executor that raised leaves its slot unmarked.               *)
ExecutorReportsUnmarked(t) ==
  \E v \in {"acked", "unacked", "raised"} :
    /\ Step(t, "executing", IF slot[t] = "held" /\ v # "raised"
                            THEN "settle" ELSE Outcome(v))
    /\ verdict' = [verdict EXCEPT ![t] = v]
    /\ UNCHANGED <<records, key, slot, alias, calls>>


ExecutorReports(t) ==
  \E v \in {"acked", "unacked", "raised"} :
    /\ Step(t, "executing", IF slot[t] = "held" THEN "settle" ELSE Outcome(v))
    /\ verdict' = [verdict EXCEPT ![t] = v]
    /\ UNCHANGED <<records, key, slot, alias, calls>>

Markable(v) == IF v = "acked" THEN {"dispatched", "acknowledged"}
                              ELSE {"dispatched", "unknown_effect"}

(* Mutant: an unacknowledged effect is marked acknowledged.                *)
MarkVerdictOptimistic(k, v) ==
  IF v # "raised" THEN MarkAcknowledged(k) ELSE MarkUnknownEffect(k)


MarkVerdict(k, v) ==
  IF v = "acked" THEN MarkAcknowledged(k) ELSE MarkUnknownEffect(k)

MarkRaises(k, v) ==
  \/ records[k] \notin Markable(v) /\ UNCHANGED records
  \/ StoreRaises(MarkVerdict(k, v))

(* Mutant: a failing mark of the turn's own record is suppressed too.      *)
SettleSuppressed(t) ==
  /\ pc[t] = "settle"
  /\ MarkVerdict(key[t], verdict[t]) \/ MarkRaises(key[t], verdict[t])
  /\ Goto(t, IF alias[t] THEN "settle_alias" ELSE Outcome(verdict[t]))
  /\ UNCHANGED <<key, slot, alias, calls, verdict>>

(* Phase 6: the record of the turn is settled.  When the mark raises, a    *)
(* turn whose executor raised ignores it, and a turn whose executor        *)
(* returned fails although the effect is done.                             *)
Settle(t) ==
  /\ pc[t] = "settle"
  /\ \/ /\ MarkVerdict(key[t], verdict[t])
        /\ Goto(t, IF alias[t] THEN "settle_alias" ELSE Outcome(verdict[t]))
     \/ /\ MarkRaises(key[t], verdict[t])
        /\ Goto(t, IF verdict[t] = "raised" /\ alias[t]
                   THEN "settle_alias" ELSE "raised")
  /\ UNCHANGED <<key, slot, alias, calls, verdict>>

(* Phase 6: the mirror follows; every error is suppressed.                 *)
SettleAlias(t) ==
  /\ Step(t, "settle_alias", Outcome(verdict[t]))
  /\ \/ MarkVerdict(LegacyOf[key[t]], verdict[t])
     \/ MarkRaises(LegacyOf[key[t]], verdict[t])
  /\ UNCHANGED <<key, slot, alias, calls, verdict>>

(* run_turn's wait_for cancels a phase at one of its awaits.  The          *)
(* CancelledError is no Exception, so no handler of phase 6 marks the slot.*)
PhaseTimeout(t) ==
  /\ "timeout" \in Faults
  /\ pc[t] \in {"noop_or_reasoning", "admission", "executing"}
  /\ Goto(t, "timed_out")
  /\ UNCHANGED <<records, key, slot, alias, calls, verdict>>

(* The process running the turn dies; the shared store survives.           *)
Crash(t) ==
  /\ "crash" \in Faults
  /\ pc[t] \in Phases
  /\ Goto(t, "crashed")
  /\ UNCHANGED <<records, key, slot, alias, calls, verdict>>

TurnStep(t) ==
  \/ NoopOrReasoning(t) \/ BuildSnapshot(t) \/ Admission(t)
  \/ DispatchPolicy(t) \/ LegacyGet(t) \/ ReserveSlot(t) \/ MirrorSlot(t)
  \/ Execute(t) \/ RetryTransient(t) \/ ExecutorReports(t)
  \/ Settle(t) \/ SettleAlias(t)

AllEnded == (\A t \in Turns : pc[t] \in Ended) /\ UNCHANGED vars

Next ==
  \/ \E t \in Turns : TurnStep(t) \/ PhaseTimeout(t) \/ Crash(t)
  \/ AllEnded

Spec == Init /\ [][Next]_vars
-----------------------------------------------------------------------------
(* Two turns that carry the same dispatch key never both reach the         *)
(* executor, whatever store call, phase or process fails in between,       *)
(* unless one of them ran on the degraded path that                        *)
(* _reserve_with_degradation reserves to idempotent writes.                *)
AtMostOneDispatchPerKey ==
  \A t, u \in Turns :
    t # u /\ key[t] = key[u] /\ calls[t] > 0 /\ calls[u] > 0 =>
      /\ "degraded" \in {slot[t], slot[u]}
      /\ ActionOf[key[t]].effect_class = "idempotent_write"

(* The calls of the executor that turns made under key k, numbered.        *)
Executions(k) == UNION {{t} \X (1..calls[t]) : t \in {u \in Turns : key[u] = k}}

(* An action that is not an idempotent write reaches its executor at most  *)
(* max_attempts times, counted over every turn that carries its key: the   *)
(* retries of one turn are bounded, and neither a timeout, a crash nor a   *)
(* store that raises gives another turn a round of attempts of its own.    *)
EffectIsBounded ==
  \A k \in Keys : ActionOf[k].effect_class # "idempotent_write" =>
    Cardinality(Executions(k)) <= MaxAttempts

(* A record says "acknowledged" only if the executor of a turn that holds  *)
(* it acknowledged; a mirror under the legacy key says so only if the      *)
(* record it mirrors does (the settle order of _phase_execute).            *)
AcknowledgedIsTrue ==
  /\ \A k \in Keys : records[k] = "acknowledged" =>
       \E t \in Turns : key[t] = k /\ slot[t] = "held" /\ verdict[t] = "acked"
  /\ \A l \in LegacyKeys : records[l] = "acknowledged" =>
       \E k \in Keys : LegacyOf[k] = l /\ records[k] = "acknowledged"

(* What run_turn returned and what the store says agree at any later time: *)
(* a turn reported as dispatched has an acknowledged record, one sent to   *)
(* recovery an unknown one, and neither is changed by another turn.        *)
ReturnedTurnIsSettled ==
  \A t \in Turns : slot[t] = "held" =>
    /\ pc[t] = "dispatched" => records[key[t]] = "acknowledged"
    /\ pc[t] = "recovery_pending" => records[key[t]] = "unknown_effect"

(* A key stays "dispatched" only while its turn is under way or after a    *)
(* phase timeout, a crash or a failing store: a turn that returned, or     *)
(* whose executor raised, leaves no dispatched record behind ("so the      *)
(* DedupeStore does not stay in dispatched", _phase_execute).              *)
DispatchedIsExplained ==
  "store" \notin Faults =>
    \A k \in Keys : records[k] = "dispatched" =>
      \E t \in Turns : /\ key[t] = k /\ slot[t] = "held"
                       /\ pc[t] \in Phases \cup {"timed_out", "crashed"}

(* Every turn ends: the retries of a transient error are bounded, and no   *)
(* fault leaves run_turn waiting for another turn or for a sweep.          *)
EveryTurnEnds == \A t \in Turns : <>(pc[t] \in Ended)
=============================================================================
