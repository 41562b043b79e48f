----------------------------- MODULE TurnProofs -----------------------------
(***************************************************************************)
(* Proofs about turns, for every set of turns and keys, any number of      *)
(* attempts and any combination of faults: the turn engine, the engine     *)
(* with the reconciler and older writers beside it, and the keys it uses.  *)
(***************************************************************************)
EXTENDS OutboxReconciler, TurnIdentity, SequenceTheorems, FiniteSetTheorems, TLAPS
-----------------------------------------------------------------------------
(* The turn engine.  The invariants that matter are not inductive alone:   *)
(* at-most-one dispatch needs to know that a turn which holds a slot has a *)
(* record and is the only holder, and what a returned turn's record says   *)
(* needs to know what the record says at each step of the turn.  Discipline*)
(* states that for one turn, OneHolder relates two of them.                *)
BeforeSlot == {"noop_or_reasoning", "snapshot", "admission",
               "dispatch_policy", "legacy_get", "reserve"}

SlotDiscipline(t) ==
  /\ pc[t] \in BeforeSlot => slot[t] = "none"
  /\ pc[t] \in {"mirror", "settle", "settle_alias"} => slot[t] = "held"
  /\ pc[t] \in {"execute", "executing"} => slot[t] # "none"
  /\ slot[t] = "none" \/ pc[t] \in {"mirror", "execute"} => calls[t] = 0
  /\ slot[t] = "degraded" =>
       ActionOf[key[t]].effect_class = "idempotent_write"
  /\ pc[t] \in {"settle", "settle_alias"} => verdict[t] # "none"

RecordDiscipline(t) ==
  slot[t] = "held" =>
    /\ records[key[t]] # "absent"
    /\ pc[t] \in {"mirror", "execute", "executing", "settle"} =>
         records[key[t]] = "dispatched"
    /\ pc[t] = "settle_alias" /\ verdict[t] = "acked" =>
         records[key[t]] = "acknowledged"
    /\ pc[t] = "settle_alias" /\ verdict[t] = "unacked" =>
         records[key[t]] = "unknown_effect"
    /\ pc[t] = "dispatched" => records[key[t]] = "acknowledged"
    /\ pc[t] = "recovery_pending" => records[key[t]] = "unknown_effect"

OneHolder ==
  \A t, u \in Turns :
    slot[t] = "held" /\ slot[u] = "held" /\ key[t] = key[u] => t = u

Inv ==
  /\ TypeOK
  /\ \A t \in Turns : SlotDiscipline(t)
  /\ \A t \in Turns : RecordDiscipline(t)
  /\ OneHolder
  /\ AcknowledgedIsTrue
-----------------------------------------------------------------------------
(* Inv gives the two properties it was strengthened for: slots explain     *)
(* executor calls, and the record of a returned turn is settled.           *)
LEMMA InvImplies == Inv => AtMostOneDispatchPerKey /\ ReturnedTurnIsSettled
  BY DEF Inv, TypeOK, SlotDiscipline, RecordDiscipline, OneHolder,
         AtMostOneDispatchPerKey, ReturnedTurnIsSettled

(* It holds before any turn has begun.                                     *)
LEMMA InvInit == Init => Inv
  BY AttemptsAssumption, KeyAssumption
  DEF Init, StoreInit, Inv, TypeOK, StoreTypeOK, RecordStates, Phases, Ended,
      SlotDiscipline, RecordDiscipline, OneHolder, AcknowledgedIsTrue,
      BeforeSlot

(***************************************************************************)
(* A step of one turn preserves Inv.  The steps that write no record and   *)
(* no slot only have to keep the discipline of their own turn; the store   *)
(* calls are split by conjunct.                                            *)
(***************************************************************************)

(* Taking the slot of a dispatch key.                                      *)
LEMMA ReserveSlotInv ==
  ASSUME Inv, NEW t \in Turns, ReserveSlot(t) PROVE Inv'
<1>1. key[t] \in StoreKeys /\ records \in [StoreKeys -> RecordStates]
  BY KeyAssumption DEF Inv, TypeOK, StoreTypeOK
<1>2. \/ UNCHANGED records
      \/ /\ records[key[t]] = "absent"
         /\ records' = [records EXCEPT ![key[t]] = "dispatched"]
  BY DEF ReserveSlot, StoreRaises, ReserveAndDispatch, MoveTo
<1>3. TypeOK'
  BY <1>1, <1>2 DEF Inv, TypeOK, StoreTypeOK, RecordStates, Phases, Ended,
                    ReserveSlot, Goto
<1>4. ASSUME NEW u \in Turns PROVE SlotDiscipline(u)'
  BY DEF Inv, TypeOK, SlotDiscipline, BeforeSlot, ReserveSlot, Goto
<1>5. ASSUME NEW u \in Turns PROVE RecordDiscipline(u)'
  <2>1. CASE u = t
    <3>1. slot[t] = "none" /\ pc[t] = "reserve" /\ key' = key
      BY DEF Inv, TypeOK, SlotDiscipline, BeforeSlot, ReserveSlot
    <3>2. slot'[t] = "held" => /\ pc'[t] = "mirror"
                               /\ records' = [records EXCEPT ![key[t]] = "dispatched"]
      BY <3>1, Zenon DEF Inv, TypeOK, ReserveSlot, ReserveAndDispatch, MoveTo, Goto
    <3>3. slot'[t] = "held" => pc'[t] = "mirror" /\ records'[key'[t]] = "dispatched"
      BY <1>1, <3>1, <3>2
    <3>4. QED BY <2>1, <3>3 DEF RecordDiscipline
  <2>2. CASE u # t
    <3>1. pc'[u] = pc[u] /\ slot'[u] = slot[u] /\ key' = key /\ verdict' = verdict
      BY <2>2 DEF Inv, TypeOK, ReserveSlot, Goto
    <3>2. slot[u] = "held" => records'[key[u]] = records[key[u]]
      BY KeyAssumption, <1>1, <1>2 DEF Inv, TypeOK, RecordDiscipline
    <3>3. QED BY <3>1, <3>2, Zenon DEF Inv, RecordDiscipline
  <2>3. QED BY <2>1, <2>2
<1>6. OneHolder'
  <2>1. /\ key' = key
        /\ \A u \in Turns : u # t => slot'[u] = slot[u]
        /\ slot'[t] = "held" => slot[t] = "held" \/ records[key[t]] = "absent"
    BY Zenon DEF Inv, TypeOK, ReserveSlot, ReserveAndDispatch, MoveTo
  <2>2. \A u \in Turns : slot[u] = "held" => records[key[u]] # "absent"
    BY DEF Inv, RecordDiscipline
  <2>3. QED BY <2>1, <2>2 DEF Inv, OneHolder
<1>7. AcknowledgedIsTrue'
  <2>1. \A k \in StoreKeys :
          records'[k] = "acknowledged" <=> records[k] = "acknowledged"
    BY <1>1, <1>2
  <2>2. \A u \in Turns : slot[u] = "held" =>
          slot'[u] = "held" /\ key'[u] = key[u] /\ verdict'[u] = verdict[u]
    BY DEF Inv, TypeOK, SlotDiscipline, BeforeSlot, ReserveSlot
  <2>3. QED BY KeyAssumption, <2>1, <2>2 DEF Inv, AcknowledgedIsTrue
<1>8. QED BY <1>3, <1>4, <1>5, <1>6, <1>7 DEF Inv

(* Mirroring the slot under the legacy key touches no policy key.          *)
LEMMA MirrorSlotInv ==
  ASSUME Inv, NEW t \in Turns, MirrorSlot(t) PROVE Inv'
<1> DEFINE l == LegacyOf[key[t]]
<1>1. /\ l \in LegacyKeys /\ l \in StoreKeys
      /\ records \in [StoreKeys -> RecordStates]
  BY KeyAssumption DEF Inv, TypeOK, StoreTypeOK
<1>2. UNCHANGED records \/ records' = [records EXCEPT ![l] = "dispatched"]
  BY DEF MirrorSlot, StoreRaises, ReserveAndDispatch, MoveTo
<1> HIDE DEF l
<1>3. TypeOK'
  BY <1>1, <1>2, Zenon DEF Inv, TypeOK, StoreTypeOK, RecordStates, Phases, Ended,
                    MirrorSlot, Step, Goto
<1>4. \A k \in Keys : records'[k] = records[k]
  BY KeyAssumption, <1>1, <1>2
<1>5. ASSUME NEW u \in Turns PROVE SlotDiscipline(u)' /\ RecordDiscipline(u)'
  BY <1>4 DEF Inv, TypeOK, SlotDiscipline, RecordDiscipline, BeforeSlot,
              MirrorSlot, Step, Goto
<1>6. OneHolder'
  BY DEF Inv, OneHolder, MirrorSlot
<1>7. AcknowledgedIsTrue'
  <2>1. \A m \in LegacyKeys :
          records'[m] = "acknowledged" => records[m] = "acknowledged"
    BY KeyAssumption, <1>1, <1>2
  <2>2. QED BY <1>4, <2>1 DEF Inv, AcknowledgedIsTrue, MirrorSlot
<1>8. QED BY <1>3, <1>5, <1>6, <1>7 DEF Inv

(* What a mark of phase 6 does to the record it is given: nothing, or the  *)
(* verdict.                                                                *)
LEMMA MarkEffect ==
  ASSUME NEW k, NEW v, MarkVerdict(k, v) \/ MarkRaises(k, v)
  PROVE  \/ UNCHANGED records
         \/ /\ records[k] \in Markable(v)
            /\ records' = [records EXCEPT ![k] =
                             IF v = "acked" THEN "acknowledged" ELSE "unknown_effect"]
  BY DEF MarkVerdict, MarkRaises, Markable, StoreRaises, MarkAcknowledged,
         MarkUnknownEffect, MoveTo

(* Settling the record of a turn.                                          *)
LEMMA SettleInv ==
  ASSUME Inv, NEW t \in Turns, Settle(t) PROVE Inv'
<1> DEFINE mark == IF verdict[t] = "acked" THEN "acknowledged" ELSE "unknown_effect"
<1>1. /\ UNCHANGED <<key, slot, alias, calls, verdict>>
      /\ pc[t] = "settle" /\ slot[t] = "held" /\ key[t] \in Keys
      /\ verdict[t] \in {"acked", "unacked", "raised"}
      /\ records[key[t]] = "dispatched"
  BY DEF Inv, TypeOK, SlotDiscipline, RecordDiscipline, Settle
<1>2. \/ /\ records' = [records EXCEPT ![key[t]] = mark]
         /\ Goto(t, IF alias[t] THEN "settle_alias" ELSE Outcome(verdict[t]))
      \/ /\ records' = records \/ records' = [records EXCEPT ![key[t]] = mark]
         /\ Goto(t, IF verdict[t] = "raised" /\ alias[t]
                    THEN "settle_alias" ELSE "raised")
  BY MarkEffect DEF Settle, MarkVerdict, MarkAcknowledged, MarkUnknownEffect, MoveTo
<1>3. TypeOK'
  BY <1>1, <1>2 DEF Inv, TypeOK, StoreTypeOK, RecordStates, Goto, Outcome,
     Phases, Ended
<1>4. ASSUME NEW u \in Turns PROVE SlotDiscipline(u)'
  BY <1>1, <1>2 DEF Inv, TypeOK, SlotDiscipline, BeforeSlot, Goto, Outcome
<1>5. ASSUME NEW u \in Turns PROVE RecordDiscipline(u)'
  BY <1>1, <1>2, KeyAssumption DEF Inv, TypeOK, StoreTypeOK, RecordDiscipline,
     OneHolder, Goto, Outcome
<1>6. OneHolder'
  BY <1>1 DEF Inv, OneHolder
<1>7. AcknowledgedIsTrue'
  BY <1>1, <1>2, KeyAssumption DEF Inv, TypeOK, StoreTypeOK, AcknowledgedIsTrue
<1>8. QED BY <1>3, <1>4, <1>5, <1>6, <1>7 DEF Inv

(* Settling its mirror: by then the record itself carries the verdict.     *)
LEMMA SettleAliasInv ==
  ASSUME Inv, NEW t \in Turns, SettleAlias(t) PROVE Inv'
<1> DEFINE legacy == LegacyOf[key[t]]
           mark == IF verdict[t] = "acked" THEN "acknowledged" ELSE "unknown_effect"
<1>1. /\ UNCHANGED <<key, slot, alias, calls, verdict>>
      /\ pc[t] = "settle_alias" /\ slot[t] = "held"
      /\ key[t] \in Keys /\ legacy \in LegacyKeys
      /\ verdict[t] \in {"acked", "unacked", "raised"}
      /\ Goto(t, Outcome(verdict[t]))
      /\ verdict[t] = "acked" => records[key[t]] = "acknowledged"
  BY KeyAssumption DEF Inv, TypeOK, SlotDiscipline, RecordDiscipline,
     SettleAlias, Step
<1>2. records' = records \/ records' = [records EXCEPT ![legacy] = mark]
  BY MarkEffect DEF SettleAlias
<1>3. TypeOK'
  BY <1>1, <1>2 DEF Inv, TypeOK, StoreTypeOK, RecordStates, Goto, Outcome,
     Phases, Ended
<1>4. ASSUME NEW u \in Turns PROVE SlotDiscipline(u)'
  BY <1>1 DEF Inv, TypeOK, SlotDiscipline, BeforeSlot, Goto, Outcome
<1>5. \A k \in Keys : records'[k] = records[k]
  BY <1>1, <1>2, KeyAssumption DEF Inv, TypeOK, StoreTypeOK
<1>6. ASSUME NEW u \in Turns PROVE RecordDiscipline(u)'
  BY <1>1, <1>5 DEF Inv, TypeOK, RecordDiscipline, Goto, Outcome
<1>7. OneHolder'
  BY <1>1 DEF Inv, OneHolder
<1>8. AcknowledgedIsTrue'
  BY <1>1, <1>2, <1>5, KeyAssumption
  DEF Inv, TypeOK, StoreTypeOK, AcknowledgedIsTrue
<1>9. QED BY <1>3, <1>4, <1>6, <1>7, <1>8 DEF Inv

(* The executor calls of a turn, and what the executor reports.            *)
LEMMA ExecutorInv ==
  ASSUME Inv, NEW t \in Turns,
         Execute(t) \/ RetryTransient(t) \/ ExecutorReports(t)
  PROVE  Inv'
<1> USE DEF Step, Goto
<1>1. TypeOK'
  BY AttemptsAssumption
  DEF Inv, TypeOK, StoreTypeOK, SlotDiscipline, Phases, Ended, Execute,
      RetryTransient, ExecutorReports, Outcome
<1>2. ASSUME NEW u \in Turns PROVE SlotDiscipline(u)'
  BY DEF Inv, TypeOK, SlotDiscipline, BeforeSlot, Execute, RetryTransient,
         ExecutorReports, Outcome
<1>3. ASSUME NEW u \in Turns PROVE RecordDiscipline(u)'
  BY DEF Inv, TypeOK, RecordDiscipline, Execute, RetryTransient,
         ExecutorReports, Outcome
<1>4. OneHolder' /\ AcknowledgedIsTrue'
  <2>1. UNCHANGED <<records, key, slot>>
    BY DEF Execute, RetryTransient, ExecutorReports
  <2>2. \A u \in Turns : slot[u] = "held" /\ records[key[u]] = "acknowledged" =>
          verdict'[u] = verdict[u]
    BY DEF Inv, TypeOK, RecordDiscipline, Execute, RetryTransient, ExecutorReports
  <2>3. QED BY <2>1, <2>2 DEF Inv, OneHolder, AcknowledgedIsTrue
<1>5. QED BY <1>1, <1>2, <1>3, <1>4 DEF Inv

(* The phases before the store is touched, a timeout and a crash move pc   *)
(* only, and none of them to a step that needs a slot.                     *)
LEMMA QuietInv ==
  ASSUME Inv, NEW t \in Turns,
         \/ NoopOrReasoning(t) \/ BuildSnapshot(t) \/ Admission(t)
         \/ DispatchPolicy(t) \/ LegacyGet(t) \/ PhaseTimeout(t) \/ Crash(t)
  PROVE  Inv'
<1>1. /\ UNCHANGED <<records, key, slot, alias, calls, verdict>>
      /\ \E p \in (BeforeSlot \cup {"noop", "blocked", "raised",
                                    "timed_out", "crashed"}) :
            Goto(t, p) /\ (p \in BeforeSlot => pc[t] \in BeforeSlot)
  BY DEF NoopOrReasoning, BuildSnapshot, Admission, DispatchPolicy, LegacyGet,
         PhaseTimeout, Crash, Step, Goto, BeforeSlot
<1>2. PICK p \in (BeforeSlot \cup {"noop", "blocked", "raised",
                                   "timed_out", "crashed"}) :
        Goto(t, p) /\ (p \in BeforeSlot => pc[t] \in BeforeSlot)
  BY <1>1
<1>3. TypeOK'
  BY <1>1, <1>2, Zenon DEF Goto, Inv, TypeOK, StoreTypeOK, Phases, Ended, BeforeSlot
<1>4. ASSUME NEW u \in Turns PROVE SlotDiscipline(u)'
  BY <1>1, <1>2, Zenon DEF Goto, Inv, TypeOK, BeforeSlot, SlotDiscipline
<1>5. ASSUME NEW u \in Turns PROVE RecordDiscipline(u)'
  BY <1>1, <1>2, Zenon DEF Goto, Inv, TypeOK, BeforeSlot, RecordDiscipline
<1>6. OneHolder' /\ AcknowledgedIsTrue'
  BY <1>1 DEF Inv, OneHolder, AcknowledgedIsTrue
<1>7. QED BY <1>3, <1>4, <1>5, <1>6, Zenon DEF Inv

(* Every step of every turn, and every fault, keeps it.                    *)
LEMMA InvNext == Inv /\ [Next]_vars => Inv'
<1> SUFFICES ASSUME Inv, [Next]_vars PROVE Inv'
  OBVIOUS
<1>1. ASSUME NEW t \in Turns, TurnStep(t) \/ PhaseTimeout(t) \/ Crash(t)
      PROVE  Inv'
  BY <1>1, ReserveSlotInv, MirrorSlotInv, SettleInv, SettleAliasInv,
     ExecutorInv, QuietInv, Zenon DEF TurnStep
<1>2. CASE UNCHANGED vars
  BY <1>2 DEF vars, turnVars, Inv, TypeOK, StoreTypeOK, SlotDiscipline,
              RecordDiscipline, OneHolder, AcknowledgedIsTrue
<1>3. QED BY <1>1, <1>2 DEF Next, AllEnded

(* So it holds in every reachable state.                                   *)
LEMMA SpecInv == Spec => []Inv
  BY InvInit, InvNext, PTL DEF Spec
-----------------------------------------------------------------------------
(* Every reachable state of any number of concurrent turns is well typed;  *)
(* in particular the retrying executor makes at most MaxAttempts calls.    *)
THEOREM TypeCorrect == Spec => []TypeOK
  BY SpecInv, PTL DEF Inv

(* No two turns with the same dispatch key both reach the executor, unless *)
(* an idempotent write ran on the degraded path of phase 5.                *)
THEOREM AtMostOnce == Spec => []AtMostOneDispatchPerKey
  BY SpecInv, InvImplies, PTL

(* What run_turn returned is what the store says ever after.               *)
THEOREM ReturnedIsSettled == Spec => []ReturnedTurnIsSettled
  BY SpecInv, InvImplies, PTL

(* With one turn per key at the executor, its calls are those of the key.  *)
LEMMA InvBoundsEffects == Inv => EffectIsBounded
<1> SUFFICES ASSUME Inv, NEW k \in Keys, ActionOf[k].effect_class # "idempotent_write"
             PROVE  Cardinality(Executions(k)) <= MaxAttempts
  BY DEF EffectIsBounded
<1>1. calls \in [Turns -> 0..MaxAttempts] /\ MaxAttempts \in Nat
  BY AttemptsAssumption DEF Inv, TypeOK
<1>2. ASSUME NEW t \in Turns, key[t] = k, calls[t] > 0,
             NEW u \in Turns, key[u] = k, u # t
      PROVE  calls[u] = 0
  <2>1. ~(calls[u] > 0)
    BY <1>2, InvImplies, Zenon DEF AtMostOneDispatchPerKey
  <2> QED BY <1>1, <2>1
<1>3. CASE \E t \in Turns : key[t] = k /\ calls[t] > 0
  <2>1. PICK t \in Turns : key[t] = k /\ calls[t] > 0
    BY <1>3
  <2>2. \A u \in Turns : key[u] = k /\ u # t => 1..calls[u] = {}
    BY <1>2, <2>1
  <2>3. Executions(k) = {t} \X (1..calls[t])
    BY <2>1, <2>2 DEF Executions
  <2>4. /\ IsFiniteSet(1..calls[t])
        /\ Cardinality(1..calls[t]) = calls[t]
    BY <1>1, <2>1, FS_Interval
  <2>5. Cardinality({t} \X (1..calls[t])) = 1 * calls[t]
    <3>1. IsFiniteSet({t}) /\ Cardinality({t}) = 1
      BY FS_Singleton, Zenon
    <3>2. Cardinality({t} \X (1..calls[t])) = Cardinality({t}) * Cardinality(1..calls[t])
      BY <2>4, <3>1, FS_Product, Zenon
    <3> QED BY <2>4, <3>1, <3>2
  <2> QED BY <1>1, <2>3, <2>5
<1>4. CASE \A t \in Turns : key[t] = k => ~(calls[t] > 0)
  <2>1. \A u \in Turns : key[u] = k => 1..calls[u] = {}
    BY <1>1, <1>4
  <2>2. Executions(k) = {}
    BY <2>1 DEF Executions
  <2> QED BY <1>1, <2>2, FS_EmptySet
<1> QED BY <1>3, <1>4

(* The retries of one turn bound the calls that an action gets from all    *)
(* turns together (RetryingExecutorService.execute, behind the reservation *)
(* of _reserve_with_degradation), for any number of turns.                 *)
THEOREM EffectsAreBounded == Spec => []EffectIsBounded
  BY SpecInv, InvBoundsEffects, PTL

(* A record is acknowledged only if an executor acknowledged, and a mirror *)
(* only if its record is.                                                  *)
THEOREM AcknowledgedTrue == Spec => []AcknowledgedIsTrue
  BY SpecInv, PTL DEF Inv
-----------------------------------------------------------------------------
(* Who answers for a dispatched record while the store works: a turn that  *)
(* holds it and has yet to settle it, or was cut off before it could.      *)
Unsettled == {"mirror", "execute", "executing", "settle", "timed_out", "crashed"}

Explained ==
  "store" \notin Faults =>
    \A k \in Keys : records[k] = "dispatched" =>
      \E t \in Turns : key[t] = k /\ slot[t] = "held" /\ pc[t] \in Unsettled

LEMMA ExplainedNext == Inv /\ Explained /\ [Next]_vars => Explained'
<1> SUFFICES ASSUME Inv, Explained, [Next]_vars, "store" \notin Faults,
                    NEW k \in Keys, records'[k] = "dispatched"
             PROVE  \E t \in Turns : key'[t] = k /\ slot'[t] = "held"
                                     /\ pc'[t] \in Unsettled
  BY DEF Explained
<1>1. CASE UNCHANGED vars
  BY <1>1 DEF Explained, vars, turnVars
<1>2. ASSUME NEW u \in Turns, TurnStep(u) \/ PhaseTimeout(u) \/ Crash(u)
      PROVE  \E t \in Turns : key'[t] = k /\ slot'[t] = "held"
                              /\ pc'[t] \in Unsettled
  <2>1. key[u] \in Keys /\ LegacyOf[key[u]] \in StoreKeys \ Keys
    BY KeyAssumption DEF Inv, TypeOK
  <2>2. k \in StoreKeys /\ records \in [StoreKeys -> RecordStates]
    BY KeyAssumption, Zenon DEF Inv, TypeOK, StoreTypeOK
  <2>3. key' = key
    BY <1>2, Zenon DEF TurnStep, NoopOrReasoning, BuildSnapshot, Admission,
       DispatchPolicy, LegacyGet, ReserveSlot, MirrorSlot, Execute,
       RetryTransient, ExecutorReports, Settle, SettleAlias, PhaseTimeout, Crash
  <2>4. \A t \in Turns \ {u} : pc'[t] = pc[t] /\ slot'[t] = slot[t]
    BY <1>2, Zenon DEF Inv, TypeOK, TurnStep, NoopOrReasoning, BuildSnapshot, Admission,
       DispatchPolicy, LegacyGet, ReserveSlot, MirrorSlot, Execute,
       RetryTransient, ExecutorReports, Settle, SettleAlias, PhaseTimeout, Crash,
       Goto, Step
  <2>5. CASE records[k] = "dispatched"
    <3>1. PICK t \in Turns :
            key[t] = k /\ slot[t] = "held" /\ pc[t] \in Unsettled
      BY <2>5 DEF Explained
    <3>2. CASE t # u
      BY <2>3, <2>4, <3>1, <3>2
    <3>3. CASE t = u
      <4>1. ~Settle(u)
        <5> SUFFICES ASSUME Settle(u) PROVE FALSE
          OBVIOUS
        <5>1. MarkVerdict(key[u], verdict[u])
          BY <2>5, <3>1, <3>3 DEF Settle, MarkRaises, Markable, StoreRaises
        <5>2. records'[k] # "dispatched"
          BY <2>2, <3>1, <3>3, <5>1, Zenon
          DEF MarkVerdict, MarkAcknowledged, MarkUnknownEffect, MoveTo
        <5>3. QED BY <5>2
      <4>2. slot'[u] = "held" /\ pc'[u] \in Unsettled
        BY <1>2, <3>1, <3>3, <4>1, Zenon
        DEF Inv, TypeOK, Unsettled, TurnStep, NoopOrReasoning, BuildSnapshot,
            Admission, DispatchPolicy, LegacyGet, ReserveSlot, MirrorSlot,
            Execute, RetryTransient, ExecutorReports, SettleAlias, PhaseTimeout,
            Crash, Goto, Step
      <4>3. QED BY <2>3, <3>1, <3>3, <4>2
    <3>4. QED BY <3>2, <3>3
  <2>6. CASE records[k] # "dispatched"
    <3>1. ReserveSlot(u) /\ k = key[u]
      <4>1. ~Settle(u) /\ ~SettleAlias(u)
        BY <2>1, <2>2, <2>6, MarkEffect, Zenon DEF Settle, SettleAlias
      <4>2. ~MirrorSlot(u)
        BY <2>1, <2>2, <2>6, Zenon
        DEF MirrorSlot, ReserveAndDispatch, MoveTo, StoreRaises
      <4>3. ReserveSlot(u)
        BY <1>2, <2>6, <4>1, <4>2, Zenon
        DEF TurnStep, NoopOrReasoning, BuildSnapshot, Admission, DispatchPolicy,
            LegacyGet, Execute, RetryTransient, ExecutorReports, PhaseTimeout,
            Crash
      <4>4. QED
        BY <2>1, <2>2, <2>6, <4>3, Zenon
        DEF ReserveSlot, ReserveAndDispatch, MoveTo, StoreRaises
    <3>2. slot'[u] = "held" /\ pc'[u] = "mirror"
      BY <2>6, <3>1 DEF Inv, TypeOK, ReserveSlot, StoreRaises, Goto
    <3>3. QED BY <2>3, <3>1, <3>2 DEF Unsettled
  <2>7. QED BY <2>5, <2>6
<1>3. QED BY <1>1, <1>2 DEF Next, AllEnded

(* A record is left dispatched only by a turn under way, a phase timeout   *)
(* or a crash, as long as no store call fails: _phase_execute settles the  *)
(* record of every turn that returned or whose executor raised.            *)
THEOREM DispatchedExplained == Spec => []DispatchedIsExplained
<1>1. Init => Explained
  BY KeyAssumption DEF Init, StoreInit, Explained
<1>2. Explained => DispatchedIsExplained
  BY DEF Explained, DispatchedIsExplained, Unsettled, Phases
<1>3. QED BY <1>1, <1>2, SpecInv, ExplainedNext, PTL DEF Spec
-----------------------------------------------------------------------------
(* Every step of the engine is one legal transition of one key of the      *)
(* store or leaves the store alone.                                        *)
LEMMA StepRefinesStore == Inv /\ [Next]_vars => [StoreNext]_records
<1> SUFFICES ASSUME Inv, Next, records' # records PROVE StoreNext
  BY DEF vars
<1>1. PICK t \in Turns : TurnStep(t) \/ PhaseTimeout(t) \/ Crash(t)
  BY Zenon DEF Next, AllEnded, vars
<1>2. ReserveSlot(t) \/ MirrorSlot(t) \/ Settle(t) \/ SettleAlias(t)
  BY <1>1 DEF TurnStep, PhaseTimeout, Crash, NoopOrReasoning, BuildSnapshot,
     Admission, DispatchPolicy, LegacyGet, Execute, RetryTransient,
     ExecutorReports
<1>3. key[t] \in StoreKeys /\ LegacyOf[key[t]] \in StoreKeys
  BY KeyAssumption, Zenon DEF Inv, TypeOK
<1>4. \E k \in {key[t], LegacyOf[key[t]]} :
        \/ ReserveAndDispatch(k)
        \/ MarkAcknowledged(k)
        \/ MarkUnknownEffect(k)
  BY <1>2, Zenon DEF ReserveSlot, MirrorSlot, Settle, SettleAlias, StoreRaises,
              MarkVerdict, MarkRaises
<1>5. QED BY <1>3, <1>4 DEF StoreNext, StoreStep

(* The promise of the store is enough for a reader: verdicts are final and *)
(* a taken key is never free again.                                        *)
THEOREM StoreVerdictIsFinal == StoreSpec => VerdictIsFinal
<1>1. StoreInit => StoreTypeOK
  BY DEF StoreInit, StoreTypeOK, RecordStates
<1>2. StoreTypeOK /\ [StoreNext]_records => StoreTypeOK'
  BY DEF StoreTypeOK, RecordStates, StoreNext, StoreStep, Reserve,
         ReserveAndDispatch, MarkDispatched, MarkAcknowledged, MarkSucceeded,
         MarkUnknownEffect, MoveTo
<1>3. ASSUME StoreTypeOK, StoreNext, NEW k \in StoreKeys
      PROVE  /\ records[k] # "absent" => records'[k] # "absent"
             /\ records[k] \in {"acknowledged", "succeeded"} =>
                  records'[k] \in {"acknowledged", "succeeded"}
             /\ records[k] = "unknown_effect" =>
                  records'[k] = "unknown_effect"
  BY <1>3 DEF StoreTypeOK, StoreNext, StoreStep, Reserve, ReserveAndDispatch,
     MarkDispatched, MarkAcknowledged, MarkSucceeded, MarkUnknownEffect, MoveTo
<1> DEFINE Final ==
      \A k \in StoreKeys :
        /\ records[k] # "absent" => records'[k] # "absent"
        /\ records[k] \in {"acknowledged", "succeeded"} =>
             records'[k] \in {"acknowledged", "succeeded"}
        /\ records[k] = "unknown_effect" => records'[k] = "unknown_effect"
<1>4. StoreTypeOK /\ [StoreNext]_records => [Final]_records
  BY <1>3
<1>5. QED BY <1>1, <1>2, <1>4, PTL DEF StoreSpec, VerdictIsFinal
-----------------------------------------------------------------------------
(* The turn engine with the reconciler sweeping beside it and writers of   *)
(* the version before the key policy sharing the store.  The inductive     *)
(* invariant is the one of the turn engine: a sweep and an old writer only *)
(* touch legacy keys and never acknowledge, so they disturb neither the    *)
(* slots of turns nor the records of policy keys, although the sweep acts  *)
(* on a record it read before.                                             *)
(* What the two other writers do to the store.                             *)
LegacyWrite(l) ==
  /\ UNCHANGED turnVars
  /\ \/ UNCHANGED records
     \/ Reserve(l) \/ MarkDispatched(l) \/ MarkUnknownEffect(l)

LEMMA OtherSteps ==
  ASSUME [ONext]_oVars
  PROVE  [Next]_vars \/ \E l \in LegacyKeys : LegacyWrite(l)
<1>1. ASSUME NEW l \in LegacyKeys, OldWriterReserves(l) PROVE LegacyWrite(l)
  BY <1>1 DEF OldWriterReserves, LegacyWrite
<1>2. ASSUME NEW l \in LegacyKeys, RepairMark(l) PROVE LegacyWrite(l)
  BY <1>2 DEF RepairMark, LegacyWrite
<1>3. ASSUME \/ \E t \in Turns : AppendOutcome(t)
             \/ LoadEvents \/ DetectViolations \/ SweepDone \/ SweepRaises
             \/ \E l \in LegacyKeys : RepairGet(l)
             \/ UNCHANGED oVars
      PROVE  UNCHANGED vars
  BY <1>3 DEF AppendOutcome, LoadEvents, DetectViolations, SweepDone,
     SweepRaises, RepairGet, oVars
<1>4. QED BY <1>1, <1>2, <1>3 DEF ONext, SweepStep

LEMMA LegacyWriteInv ==
  ASSUME Inv, Explained, NEW l \in LegacyKeys, LegacyWrite(l)
  PROVE  Inv' /\ Explained'
<1>1. l \in StoreKeys /\ records \in [StoreKeys -> RecordStates]
  BY KeyAssumption DEF Inv, TypeOK, StoreTypeOK
<1>2. PICK s \in RecordStates \ {"acknowledged"} :
        UNCHANGED records \/ records' = [records EXCEPT ![l] = s]
  BY DEF LegacyWrite, Reserve, MarkDispatched, MarkUnknownEffect, MoveTo,
         RecordStates
<1>3. UNCHANGED <<pc, key, slot, alias, calls, verdict>>
  BY DEF LegacyWrite, turnVars
<1>4. /\ records' \in [StoreKeys -> RecordStates]
      /\ \A k \in Keys : records'[k] = records[k]
      /\ \A m \in LegacyKeys :
           records'[m] = "acknowledged" => records[m] = "acknowledged"
  BY KeyAssumption, <1>1, <1>2
<1>5. TypeOK'
  BY <1>3, <1>4, Zenon DEF Inv, TypeOK, StoreTypeOK
<1>6. \A t \in Turns : SlotDiscipline(t)'
  BY <1>3, Zenon DEF Inv, SlotDiscipline
<1>7. \A t \in Turns : RecordDiscipline(t)'
  BY <1>3, <1>4, ZenonT(30) DEF Inv, TypeOK, RecordDiscipline
<1>8. OneHolder' /\ AcknowledgedIsTrue'
  BY <1>3, <1>4 DEF Inv, OneHolder, AcknowledgedIsTrue
<1>9. Explained'
  BY <1>3, <1>4 DEF Explained
<1>10. QED BY <1>5, <1>6, <1>7, <1>8, <1>9 DEF Inv

LEMMA OSpecInv == OSpec => [](Inv /\ Explained)
<1>1. OInit => Inv /\ Explained
  BY InvInit, KeyAssumption DEF OInit, Init, StoreInit, Explained
<1>2. Inv /\ Explained /\ [ONext]_oVars => Inv' /\ Explained'
  BY OtherSteps, LegacyWriteInv, InvNext, ExplainedNext
<1>3. QED BY <1>1, <1>2, PTL DEF OSpec

(* With the reconciler and old writers running, turns still reach the      *)
(* executor at most once per key, what they returned stays what the store  *)
(* says, and acknowledged still means that an executor acknowledged, for   *)
(* any number of turns, keys and interleaved sweeps.                       *)
THEOREM SweepsPreserveTurns == OSpec => []SweepPreservesTurns
<1>1. Inv => SweepPreservesTurns
  BY InvImplies DEF Inv, SweepPreservesTurns
<1>2. QED BY <1>1, OSpecInv, PTL

(* Nor does a sweep or an old writer leave a policy record dispatched that *)
(* no turn answers for.                                                    *)
THEOREM SweepsKeepDispatchedExplained == OSpec => []DispatchedIsExplained
<1>1. Explained => DispatchedIsExplained
  BY DEF Explained, DispatchedIsExplained, Unsettled, Phases
<1>2. QED BY <1>1, OSpecInv, PTL

(* Turns, sweeps and old writers change a record only by a call of the     *)
(* store ...                                                               *)
LEMMA ReconcilerImplementsStore == OSpec => StoreSpec
<1>1. OInit => StoreInit
  BY DEF OInit, Init
<1>2. Inv /\ [ONext]_oVars => [StoreNext]_records
  <2>1. ASSUME NEW l \in LegacyKeys, LegacyWrite(l) PROVE [StoreNext]_records
    BY <2>1, KeyAssumption DEF LegacyWrite, StoreNext, StoreStep
  <2>2. QED BY <2>1, OtherSteps, StepRefinesStore
<1>3. QED BY <1>1, <1>2, OSpecInv, PTL DEF OSpec, StoreSpec

(* ... and so a verdict in the store is final and a taken key never free   *)
(* again, although sweeps repair records that turns are settling.          *)
THEOREM ReconcilerVerdictIsFinal == OSpec => VerdictIsFinal
  BY ReconcilerImplementsStore, StoreVerdictIsFinal
-----------------------------------------------------------------------------
(* What a dispatch key says about its turn.  The turn engine's model takes *)
(* keys as given, with two assumptions: a policy key determines the legacy *)
(* key it is mirrored under, and no policy key is a legacy key.  Both are  *)
(* theorems about the texts the code builds.                               *)
(* The texts around a key; digests and decimals are texts without a colon. *)
TextAssumption ==
  /\ Colon \in Char
  /\ Dispatch \in Text
  /\ HashLength \in Nat
  /\ \A n \in Int : Decimal(n) \in Seq(Char \ {Colon})
  /\ \A m, n \in Int : Decimal(m) = Decimal(n) => m = n

(* What is hashed for the key of a turn: the snapshot and the content.     *)
Hashed(c, t) ==
  LET i == ResolveSnapshotInput(c, t)
  IN  {Canonical(i), Content(t, SnapshotHash(i))}

(* SHA-256 gives HashLength hex digits and does not collide on S.          *)
HashesWell(S) ==
  /\ \A p \in S : Hash(p) \in Seq(Char \ {Colon}) /\ Len(Hash(p)) = HashLength
  /\ \A p, q \in S : Hash(p) = Hash(q) => p = q
-----------------------------------------------------------------------------
(* Two texts that end in parts of equal length agree in both parts.        *)
LEMMA EqualSuffixes ==
  ASSUME NEW x \in Seq(Char), NEW y \in Seq(Char),
         NEW g \in Seq(Char), NEW h \in Seq(Char),
         Len(g) = Len(h), x \o g = y \o h
  PROVE  x = y /\ g = h
<1>1. Len(x \o g) = Len(x) + Len(g) /\ Len(y \o h) = Len(y) + Len(h)
  BY ConcatProperties, Zenon
<1>2. Len(x) = Len(y)
  BY <1>1, LenProperties
<1>3. \A i \in 1..Len(x) : x[i] = y[i]
  <2> TAKE i \in 1..Len(x)
  <2>1. (x \o g)[i] = x[i] /\ (y \o h)[i] = y[i]
    BY <1>1, <1>2, ConcatProperties, LenProperties
  <2> QED BY <2>1
<1>4. \A i \in 1..Len(g) : g[i] = h[i]
  <2> TAKE i \in 1..Len(g)
  <2>1. i + Len(x) \in 1..(Len(x) + Len(g))
    BY LenProperties
  <2>2. (x \o g)[i + Len(x)] = g[i] /\ (y \o h)[i + Len(x)] = h[i]
    BY <1>1, <1>2, <2>1, ConcatProperties, LenProperties
  <2> QED BY <2>2
<1>5. x = y BY <1>2, <1>3, SeqEqual
<1>6. g = h BY <1>4, SeqEqual
<1> QED BY <1>5, <1>6

(* A colon cannot be met inside a part that has none.                      *)
LEMMA NoShorterTail ==
  ASSUME NEW p \in Seq(Char), NEW q \in Seq(Char),
         NEW g \in Seq(Char \ {Colon}), NEW h \in Seq(Char \ {Colon}),
         Len(p) > 0, p[Len(p)] = Colon, p \o g = q \o h
  PROVE  Len(g) >= Len(h)
<1> SUFFICES ASSUME Len(g) < Len(h) PROVE FALSE
  BY LenProperties
<1>1. g \in Seq(Char) /\ h \in Seq(Char)
  BY SeqMonotonic
<1>2. Len(p) + Len(g) = Len(q) + Len(h)
  BY <1>1, ConcatProperties
<1>3. Len(p) \in 1..(Len(p) + Len(g)) /\ Len(p) - Len(q) \in 1..Len(h) /\ ~(Len(p) <= Len(q))
  BY <1>2, LenProperties
<1>4. (p \o g)[Len(p)] = Colon
  BY <1>1, <1>3, ConcatProperties, LenProperties
<1>5. (q \o h)[Len(p)] = h[Len(p) - Len(q)]
  BY <1>1, <1>2, <1>3, ConcatProperties, LenProperties
<1>6. h[Len(p) - Len(q)] \in Char \ {Colon}
  BY <1>3, ElementOfSeq
<1> QED BY <1>4, <1>5, <1>6

(* The last colon of a text splits it: what was joined last, if it has no  *)
(* colon, can be read back.                                                *)
LEMMA LastPartIsRead ==
  ASSUME Colon \in Char,
         NEW x \in Seq(Char), NEW y \in Seq(Char),
         NEW g \in Seq(Char \ {Colon}), NEW h \in Seq(Char \ {Colon}),
         Join(x, g) = Join(y, h)
  PROVE  x = y /\ g = h
<1> DEFINE p == x \o <<Colon>>
           q == y \o <<Colon>>
<1>1. /\ p \in Seq(Char) /\ Len(p) > 0 /\ p[Len(p)] = Colon
      /\ q \in Seq(Char) /\ Len(q) > 0 /\ q[Len(q)] = Colon
  OBVIOUS
<1>2. p \o g = q \o h
  BY Zenon DEF Join
<1>3. p = q => x = y
  <2>1. <<Colon>> \in Seq(Char) OBVIOUS
  <2>2. ASSUME p = q PROVE x = y
    BY <2>1, <2>2, EqualSuffixes, Zenon
  <2> QED BY <2>2
<1> HIDE DEF p, q
<1>4. Len(g) >= Len(h) /\ Len(h) >= Len(g)
  BY <1>1, <1>2, NoShorterTail, Zenon
<1>5. g \in Seq(Char) /\ h \in Seq(Char)
  BY SeqMonotonic
<1>6. p = q /\ g = h
  <2>1. Len(g) = Len(h)
    BY <1>4, <1>5, LenProperties
  <2>2. p \in Seq(Char) /\ q \in Seq(Char)
    BY <1>1
  <2>3. p = q BY <1>2, <1>5, <2>1, <2>2, EqualSuffixes, Zenon
  <2>4. g = h BY <1>2, <1>5, <2>2, <2>3, ConcatSimplifications, Zenon
  <2> QED BY <2>3, <2>4
<1> QED BY <1>3, <1>6

(* Joining is one to one in its last part.                                 *)
LEMMA JoinAfterSame ==
  ASSUME Colon \in Char, NEW x \in Seq(Char), NEW g \in Seq(Char), NEW h \in Seq(Char),
         Join(x, g) = Join(x, h)
  PROVE  g = h
<1> DEFINE p == x \o <<Colon>>
<1>1. p \in Seq(Char) OBVIOUS
<1> HIDE DEF p
<1>2. p \o g = p \o h BY Zenon DEF Join, p
<1> QED BY <1>1, <1>2, ConcatSimplifications, Zenon

LEMMA JoinType ==
  ASSUME Colon \in Char, NEW x \in Seq(Char), NEW g \in Seq(Char)
  PROVE  Join(x, g) \in Seq(Char)
BY DEF Join

(* Every reading of the inputs keeps the run and the offset of the turn.   *)
LEMMA InputIsOfTheTurn ==
  ASSUME NEW c, NEW t, ResolveSnapshotInput(c, t) # Refused
  PROVE  /\ ResolveSnapshotInput(c, t).run = t.run
         /\ ResolveSnapshotInput(c, t).offset = t.offset
BY Zenon DEF ResolveSnapshotInput, Resolve
-----------------------------------------------------------------------------
(* Equal policy keys are keys of one run, action id, offset, effect class, *)
(* input and capability snapshot, whatever the engines that built them     *)
(* were configured with, unless SHA-256 collides on what they hashed.  A   *)
(* policy key therefore determines the legacy key it is mirrored under     *)
(* (IdempotencyKeyPolicy.generate; LegacyOf of the turn engine's model).   *)
THEOREM PolicyKeyIdentifiesTurn ==
  ASSUME TextAssumption,
         NEW c, NEW t, NEW d, NEW u, IsTurn(t), IsTurn(u),
         Built(c, t), Built(d, u),
         HashesWell(Hashed(c, t) \cup Hashed(d, u)),
         DispatchDedupeKey(c, t) = DispatchDedupeKey(d, u)
  PROVE  /\ t.run = u.run /\ t.action = u.action /\ t.offset = u.offset
         /\ t.effect = u.effect /\ t.input = u.input /\ t.declared = u.declared
         /\ Canonical(ResolveSnapshotInput(c, t)) = Canonical(ResolveSnapshotInput(d, u))
         /\ LegacyDispatchDedupeKey(t) = LegacyDispatchDedupeKey(u)
<1> DEFINE i == ResolveSnapshotInput(c, t)
           j == ResolveSnapshotInput(d, u)
           m == Content(t, SnapshotHash(i))
           n == Content(u, SnapshotHash(j))
           x == Join(Join(Dispatch, t.run), t.action)
           y == Join(Join(Dispatch, u.run), u.action)
<1>1. /\ Colon \in Char /\ Dispatch \in Seq(Char)
      /\ t.run \in Seq(Char) /\ t.action \in Seq(Char)
      /\ u.run \in Seq(Char) /\ u.action \in Seq(Char)
  BY DEF TextAssumption, IsTurn, Text
<1>2. Join(Dispatch, t.run) \in Seq(Char) /\ Join(Dispatch, u.run) \in Seq(Char)
  BY <1>1, JoinType, Zenon
<1>3. x \in Seq(Char) /\ y \in Seq(Char)
  BY <1>1, <1>2, JoinType, Zenon
<1>4. Join(x, Hash(m)) = Join(y, Hash(n))
  BY Zenon DEF DispatchDedupeKey, Generate
<1>5. /\ Hash(m) \in Seq(Char \ {Colon}) /\ Hash(n) \in Seq(Char \ {Colon})
      /\ Hash(m) = Hash(n) => m = n
      /\ Hash(Canonical(i)) = Hash(Canonical(j)) => Canonical(i) = Canonical(j)
  BY DEF HashesWell, Hashed
<1>6. x = y /\ Hash(m) = Hash(n)
  <2> HIDE DEF x, y, m, n
  <2> QED BY <1>1, <1>3, <1>4, <1>5, LastPartIsRead, Zenon
<1>7. m = n
  BY <1>5, <1>6, Zenon
<1>8. /\ t.effect = u.effect /\ t.input = u.input /\ t.declared = u.declared
      /\ SnapshotHash(i) = SnapshotHash(j)
  <2> HIDE DEF i, j
  <2>1. m.effect_class = n.effect_class /\ m.input_json = n.input_json
        /\ m.snapshot_hash = n.snapshot_hash
    BY <1>7, Zenon
  <2> QED BY <2>1 DEF Content
<1>9. Canonical(i) = Canonical(j)
  BY <1>5, <1>8, Zenon DEF SnapshotHash
<1>10. i.run = j.run /\ i.offset = j.offset
  <2> HIDE DEF i, j
  <2>1. /\ Canonical(i).run_id = Canonical(j).run_id
        /\ Canonical(i).based_on_offset = Canonical(j).based_on_offset
    BY <1>9, Zenon
  <2> QED BY <2>1, Zenon DEF Canonical
<1>11. t.run = u.run /\ t.offset = u.offset
  <2>1. i # Refused /\ j # Refused
    BY DEF Built
  <2>2. i.run = t.run /\ i.offset = t.offset
    BY <2>1, InputIsOfTheTurn
  <2>3. j.run = u.run /\ j.offset = u.offset
    BY <2>1, InputIsOfTheTurn, Zenon
  <2> QED BY <1>10, <2>2, <2>3, Zenon
<1>12. t.action = u.action
  BY <1>1, <1>2, <1>6, <1>11, JoinAfterSame, Zenon
<1> QED BY <1>8, <1>9, <1>11, <1>12 DEF LegacyDispatchDedupeKey

(* No policy key is a legacy key: the one ends in a digest, the other in   *)
(* an offset, and a digest is longer than any offset of a log (Keys and    *)
(* LegacyKeys are disjoint in the turn engine's model).                    *)
THEOREM PolicyKeyIsNoLegacyKey ==
  ASSUME TextAssumption,
         NEW c, NEW t, NEW u, IsTurn(t), IsTurn(u),
         Built(c, t), HashesWell(Hashed(c, t)),
         Len(Decimal(u.offset)) < HashLength
  PROVE  DispatchDedupeKey(c, t) # LegacyDispatchDedupeKey(u)
<1> SUFFICES ASSUME DispatchDedupeKey(c, t) = LegacyDispatchDedupeKey(u) PROVE FALSE
  OBVIOUS
<1> DEFINE m == Content(t, SnapshotHash(ResolveSnapshotInput(c, t)))
           x == Join(Join(Dispatch, t.run), t.action)
           y == Join(u.run, u.action)
<1>1. Colon \in Char /\ x \in Seq(Char) /\ y \in Seq(Char)
  BY JoinType, Zenon DEF TextAssumption, IsTurn, Text
<1>2. Join(x, Hash(m)) = Join(y, Decimal(u.offset))
  BY Zenon DEF DispatchDedupeKey, Generate, LegacyDispatchDedupeKey
<1>3. Hash(m) \in Seq(Char \ {Colon}) /\ Len(Hash(m)) = HashLength
  BY Zenon DEF HashesWell, Hashed
<1>4. Decimal(u.offset) \in Seq(Char \ {Colon})
  BY Zenon DEF TextAssumption, IsTurn
<1>5. Hash(m) = Decimal(u.offset)
  <2> HIDE DEF m, x, y
  <2> QED BY <1>1, <1>2, <1>3, <1>4, LastPartIsRead
<1> QED BY <1>3, <1>5 DEF TextAssumption

(* A legacy key names one action at one offset of its run, whatever the    *)
(* ids are made of.  Turns of two runs share one only if they have one     *)
(* offset and their ids are two readings of one text: a colon that ends    *)
(* the one's run id is inside the other's (_legacy_dispatch_dedupe_key     *)
(* joins run id, action id and offset with colons it does not escape).     *)
THEOREM LegacyKeyIdentifiesAction ==
  ASSUME TextAssumption,
         NEW t, NEW u, IsTurn(t), IsTurn(u),
         LegacyDispatchDedupeKey(t) = LegacyDispatchDedupeKey(u)
  PROVE  /\ t.offset = u.offset
         /\ Join(t.run, t.action) = Join(u.run, u.action)
         /\ t.run = u.run => t.action = u.action
<1> DEFINE x == Join(t.run, t.action)
           y == Join(u.run, u.action)
<1>1. /\ Colon \in Char /\ t.run \in Seq(Char) /\ u.run \in Seq(Char)
      /\ t.action \in Seq(Char) /\ u.action \in Seq(Char)
      /\ t.offset \in Int /\ u.offset \in Int
  BY DEF TextAssumption, IsTurn, Text
<1>2. x \in Seq(Char) /\ y \in Seq(Char)
  BY <1>1, JoinType
<1>3. Join(x, Decimal(t.offset)) = Join(y, Decimal(u.offset))
  BY DEF LegacyDispatchDedupeKey
<1>4. Decimal(t.offset) \in Seq(Char \ {Colon}) /\ Decimal(u.offset) \in Seq(Char \ {Colon})
  BY <1>1, Zenon DEF TextAssumption
<1>5. x = y /\ Decimal(t.offset) = Decimal(u.offset)
  <2> DEFINE g == Decimal(t.offset)
             h == Decimal(u.offset)
  <2>1. g \in Seq(Char \ {Colon}) /\ h \in Seq(Char \ {Colon}) /\ Join(x, g) = Join(y, h)
    BY <1>3, <1>4
  <2> HIDE DEF x, y, g, h
  <2>2. x = y BY <1>1, <1>2, <2>1, LastPartIsRead, Zenon
  <2>3. g \in Seq(Char) /\ h \in Seq(Char) BY <2>1, SeqMonotonic
  <2>4. g = h BY <1>1, <1>2, <2>1, <2>2, <2>3, JoinAfterSame
  <2> QED BY <2>2, <2>4 DEF g, h
<1>6. t.offset = u.offset
  BY <1>1, <1>5, Zenon DEF TextAssumption
<1>7. ASSUME t.run = u.run PROVE t.action = u.action
  BY <1>1, <1>5, <1>7, JoinAfterSame, Zenon
<1> QED BY <1>5, <1>6, <1>7

(* The declaration p with every value moved out of its group.              *)
Flattened(p) ==
  [group     |-> NoPayload.group,
   flat      |-> [f \in Scalars \cup DigestFields |->
                    FirstNonEmpty(IF f \in DigestFields /\ p.digest # "object"
                                  THEN None ELSE p.group[f], p.flat[f])],
   groupList |-> NoPayload.groupList,
   flatList  |-> [f \in Lists |-> IF f \in Bindings /\ p.groupList[f] # Absent
                                  THEN p.groupList[f] ELSE p.flatList[f]],
   digest    |-> "absent"]

(* Moving a declaration out of its groups does not change what is read     *)
(* from it ("Resolver supports both structured payload ... and flat        *)
(* compatibility fields"), hence not the snapshot of the turn or its hash. *)
THEOREM FlatFormIsEquivalent ==
  ASSUME NEW c, NEW t, NEW u, t.declared # None, u.declared # None,
         t.declared.digest # "other",
         u.declared = Flattened(t.declared),
         u.run = t.run, u.offset = t.offset
  PROVE  Resolve(c, u) = Resolve(c, t)
<1> DEFINE p == t.declared
           q == Flattened(p)
<1>1. \A x, y : FirstNonEmpty(None, FirstNonEmpty(x, y)) = FirstNonEmpty(x, y)
  BY DEF FirstNonEmpty
<1>2. Scalars \cap DigestFields = {}
  BY Zenon DEF Scalars, DigestFields
<1>3. \A f \in Scalars : ScalarOf(q, f) = ScalarOf(p, f)
  <2> TAKE f \in Scalars
  <2>1. q.group[f] = None /\ q.flat[f] = FirstNonEmpty(p.group[f], p.flat[f])
    BY <1>2, Zenon DEF Flattened, NoPayload
  <2> QED BY <1>1, <2>1 DEF ScalarOf
<1>4. \A f \in Lists : ListOf(q, f) = ListOf(p, f)
  <2> TAKE f \in Lists
  <2>1. q.groupList[f] = Absent
    BY Zenon DEF Flattened, NoPayload
  <2>2. q.flatList[f] = IF f \in Bindings /\ p.groupList[f] # Absent
                        THEN p.groupList[f] ELSE p.flatList[f]
    BY Zenon DEF Flattened
  <2> QED BY <2>1, <2>2, Zenon DEF ListOf
<1>5. ResolveDeclarativeBundleDigest(q) = ResolveDeclarativeBundleDigest(p)
  <2> DEFINE Digest(r) == [f \in DigestFields |->
                FirstNonEmpty(IF r.digest = "object" THEN r.group[f] ELSE None, r.flat[f])]
  <2>1. q.digest = "absent"
    BY Zenon DEF Flattened
  <2>2. \A f \in DigestFields : q.flat[f] = Digest(p)[f]
    BY Zenon DEF Flattened
  <2>3. Digest(q) = Digest(p)
    BY <1>1, <2>1, <2>2
  <2> QED BY <2>1, <2>3, Zenon DEF ResolveDeclarativeBundleDigest
<1>6. /\ [f \in Scalars |-> ScalarOf(q, f)] = [f \in Scalars |-> ScalarOf(p, f)]
      /\ [f \in Lists |-> ListOf(q, f)] = [f \in Lists |-> ListOf(p, f)]
  BY <1>3, <1>4
<1>7. u.declared = q
  OBVIOUS
<1> HIDE DEF p, q
<1> QED BY <1>5, <1>6, <1>7, Zenon DEF Resolve, p
=============================================================================
