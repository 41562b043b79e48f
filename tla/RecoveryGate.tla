---------------------------- MODULE RecoveryGate ----------------------------
(***************************************************************************)
(* The recovery authority: PlannedRecoveryGateService.decide with its      *)
(* planner (kernel/recovery/planner.py), the compensation registry, the    *)
(* circuit breaker store shared by all workers, and the background probe   *)
(* scheduler of the breaker.                                               *)
(*                                                                         *)
(* A run calls decide for each failed action, any number of times.  decide *)
(* is split where another worker or task can step in: at the store calls   *)
(* and at the awaits.  Time is the age of the last failure of each effect  *)
(* class, counted up to the cooldown; counts above the threshold are not   *)
(* told apart.  The delay that a decision suggests to its caller is left   *)
(* out: nothing in the kernel reads it.                                    *)
(***************************************************************************)
EXTENDS Naturals, FiniteSets

CONSTANTS Runs,             \* runs whose actor calls decide
          Classes,          \* effect classes
          NoClass,          \* no failed_effect_class / no hint in the reason
          Actions,          \* failed actions
          NoAction,
          ClassOf,          \* Actions -> Classes
          Inputs,           \* the RecoveryInputs that can arrive
          Handlers,         \* effect classes a deployment registers a handler for
          Threshold,        \* CircuitBreakerPolicy.threshold
          Cooldown,         \* CircuitBreakerPolicy.half_open_after_ms, in ticks
          MaxCompensations, \* CompensationEntry.max_attempts
          MaxRounds,        \* ReflectionPolicy.max_rounds; 0 = no reflection
          Probed,           \* effect classes with a probe function
          Faults            \* which of "store", "breaker", "probe", "crash" happen

(***************************************************************************)
(* What decide reads of a failure.  "hint" is the effect class a reason    *)
(* code carries before a colon; "attached" says that the input brings the  *)
(* failed action along (an extension of RecoveryInput: the workflow's own  *)
(* inputs do not).                                                         *)
(***************************************************************************)
Reasons == {"human_review", "permission_denied", "transient_io",
            "runtime_error", "effect_unknown"}

RecoveryInput ==
  [class         : Classes \cup {NoClass},
   reason        : Reasons,
   hint          : Classes \cup {NoClass},
   recovery_mode : {"none", "human_escalation", "static_compensation", "abort"},
   waiting       : BOOLEAN,
   action        : Actions \cup {NoAction},
   attached      : BOOLEAN,
   round         : 0..MaxRounds]

ASSUME RecoveryAssumption ==
  /\ NoClass \notin Classes
  /\ NoAction \notin Actions
  /\ ClassOf \in [Actions -> Classes]
  /\ Inputs \subseteq RecoveryInput
  /\ Handlers \subseteq Classes /\ Probed \subseteq Classes
  /\ Threshold \in Nat \ {0}
  /\ Cooldown \in Nat \ {0}
  /\ MaxCompensations \in Nat \ {0}
  /\ MaxRounds \in Nat

VARIABLES
  pc,        \* per run: where its decide is
  input,     \* per run: the input of its decide
  mode,      \* per run: the mode chosen so far, and at the end the decision
  attempt,   \* per run: attempts of the compensation loop
  count,     \* per class: failure_count in the breaker store, up to Threshold
  age,       \* per class: ticks since last_failure_ts, up to Cooldown
  probe,     \* the probe scheduler: what it does, and the classes still due
  comps,     \* the dedupe records of the compensation keys
  handlers,  \* _entries: the classes with a registered handler
  ran,       \* per action: the runs that called its handler (history)
  undone     \* actions whose handler returned normally (history)

gateVars  == <<pc, input, mode, attempt>>
breaker   == <<count, age>>
compVars  == <<handlers, comps, ran, undone>>
recoveryVars == <<gateVars, breaker, probe, compVars>>

(* generate_compensation_key(effect_class, action_id): one key per action. *)
Store == INSTANCE DedupeStore WITH StoreKeys <- Actions, records <- comps
-----------------------------------------------------------------------------
(* The planner.                                                            *)
ClassifyReason(i) ==
  CASE i.hint # NoClass               -> "unknown"
    [] i.reason = "human_review"      -> "human"
    [] i.reason = "permission_denied" -> "fatal"
    [] i.reason = "transient_io"      -> "transient"
    [] OTHER                          -> "unknown"

ActionForClassification(kind) ==
  CASE kind = "human" -> "notify_human_operator"
    [] kind = "fatal" -> "abort_run"
    [] kind \in {"transient", "unknown"} -> "schedule_compensation"

(* An explicit mode of the projection wins; a run that waits for someone   *)
(* goes to a human; a compensation needs an action to compensate.          *)
BuildPlanFromInput(i) ==
  CASE i.recovery_mode = "human_escalation"    -> "notify_human_operator"
    [] i.recovery_mode = "static_compensation" -> "schedule_compensation"
    [] i.recovery_mode = "abort"               -> "abort_run"
    [] i.recovery_mode = "none" /\ i.waiting   -> "notify_human_operator"
    [] OTHER ->
         LET action == ActionForClassification(ClassifyReason(i))
         IN  IF action = "schedule_compensation" /\ i.action = NoAction
             THEN "abort_run" ELSE action

RecoveryModeOf(action) ==
  CASE action = "schedule_compensation" -> "static_compensation"
    [] action = "notify_human_operator" -> "human_escalation"
    [] action = "abort_run"             -> "abort"

IsReflectable(i) == i.hint = NoClass /\ i.reason = "runtime_error"

ShouldReflect(i, m) ==
  /\ m \in {"static_compensation", "abort"}
  /\ IsReflectable(i)
  /\ i.round < MaxRounds

(* CompensationRegistry.has_handler, and lookup of execute.                *)
HasHandler(c) == c \in handlers

Downgraded(i, m) ==
  m = "static_compensation" /\ i.hint # NoClass /\ ~HasHandler(i.hint)

(* Compensation runs inside decide when the reason names a handled class   *)
(* and the failed action is at hand; the registry then looks the handler   *)
(* up by the class of the action itself, and without one returns False,    *)
(* which decide does not look at.                                          *)
Compensates(i, m) ==
  /\ m = "static_compensation" /\ HasHandler(i.hint)
  /\ i.attached /\ i.action # NoAction
  /\ HasHandler(ClassOf[i.action])

-----------------------------------------------------------------------------
(* The breaker store: one row per class, one statement per call.           *)
Tripped(c) == count[c] >= Threshold

IsCircuitOpen(c) == c # NoClass /\ Tripped(c) /\ age[c] < Cooldown

(* A failure recorded after a probe sweep read its clock makes the class   *)
(* too young for that sweep.                                               *)
RecordFailure(c) ==
  /\ count' = [count EXCEPT ![c] = IF @ < Threshold THEN @ + 1 ELSE @]
  /\ age' = [age EXCEPT ![c] = 0]
  /\ probe' = [probe EXCEPT !.due = @ \ {c}]

ResetClass(c) ==
  /\ count' = [count EXCEPT ![c] = 0]
  /\ age' = [age EXCEPT ![c] = Cooldown]

Circuit == [c \in Classes |-> IF ~Tripped(c) THEN "closed"
                              ELSE IF age[c] < Cooldown THEN "open"
                              ELSE "half_open"]

Breaker == INSTANCE CircuitBreaker WITH circuit <- Circuit
-----------------------------------------------------------------------------
NoInput == CHOOSE i \in Inputs : TRUE

Init ==
  /\ pc = [r \in Runs |-> "idle"]
  /\ input = [r \in Runs |-> NoInput]
  /\ mode = [r \in Runs |-> "none"]
  /\ attempt = [r \in Runs |-> 0]
  /\ count = [c \in Classes |-> 0]
  /\ age = [c \in Classes |-> Cooldown]
  /\ probe = [at |-> NoClass, due |-> {}, dead |-> FALSE]
  /\ Store!StoreInit
  /\ handlers = {}
  /\ ran = [a \in Actions |-> {}]
  /\ undone = {}

Goto(r, p) == pc' = [pc EXCEPT ![r] = p]

(* decide ends, with a decision or an exception, and its locals are gone.  *)
(* Its caller can meet every mode: RunActor leaves the choice open.        *)
Return(r) ==
  /\ Goto(r, "idle")
  /\ input' = [input EXCEPT ![r] = NoInput]
  /\ mode' = [mode EXCEPT ![r] = "none"]
  /\ attempt' = [attempt EXCEPT ![r] = 0]

(* The end of decide once the mode is known: a reflection round first if   *)
(* the failure is eligible, otherwise the failure is recorded.             *)
Proceed(r, i, m) ==
  /\ mode' = [mode EXCEPT ![r] = m]
  /\ Goto(r, IF ShouldReflect(i, m) THEN "reflect" ELSE "record")

(* Mutant: a rejected request counts as another failure.                   *)
DecideRecordsRejects(r, i) ==
  LET planned == RecoveryModeOf(BuildPlanFromInput(i))
      m == IF Downgraded(i, planned) THEN "abort" ELSE planned
  IN /\ pc[r] = "idle"
     /\ IF IsCircuitOpen(i.class)
        THEN RecordFailure(i.class) /\ UNCHANGED gateVars
        ELSE /\ input' = [input EXCEPT ![r] = i]
             /\ IF Compensates(i, m)
                THEN Goto(r, "reserve") /\ mode' = [mode EXCEPT ![r] = m]
                ELSE Proceed(r, i, m)
             /\ UNCHANGED <<attempt, breaker, probe>>
     /\ UNCHANGED compVars

(* decide up to its first await or write: the circuit is read (an error of *)
(* the store ends decide), an open one rejects without recording, and the  *)
(* plan becomes a mode.                                                    *)
Decide(r, i) ==
  LET planned == RecoveryModeOf(BuildPlanFromInput(i))
      m == IF Downgraded(i, planned) THEN "abort" ELSE planned
  IN /\ pc[r] = "idle"
     /\ \/ /\ IsCircuitOpen(i.class)
           /\ Return(r)
        \/ /\ ~IsCircuitOpen(i.class)
           /\ input' = [input EXCEPT ![r] = i]
           /\ IF Compensates(i, m)
              THEN Goto(r, "reserve") /\ mode' = [mode EXCEPT ![r] = m]
              ELSE Proceed(r, i, m)
           /\ UNCHANGED attempt
        \/ /\ "breaker" \in Faults /\ i.class # NoClass
           /\ Return(r)
     /\ UNCHANGED <<breaker, probe, compVars>>

-----------------------------------------------------------------------------
(* CompensationRegistry.register; a second handler of a class replaces the *)
(* first, and what handlers do is not told apart.                          *)
RegisterHandler(c) ==
  /\ handlers' = handlers \cup {c}
  /\ UNCHANGED <<gateVars, breaker, probe, comps, ran, undone>>

(* CompensationRegistry.execute, called by decide with raise_on_failure:   *)
(* whatever it raises becomes an escalation to a human.                    *)
StoreRaises(write) == "store" \in Faults /\ (write \/ UNCHANGED comps)

Exhausted(r) == Proceed(r, input[r], "human_escalation")

(* Mutant: a rejected reservation is not looked at.                        *)
ReserveCompensationAnyway(r) ==
  /\ pc[r] = "reserve"
  /\ \/ Store!Reserve(input[r].action)
     \/ comps[input[r].action] # "absent" /\ UNCHANGED comps
  /\ Goto(r, "invoke")
  /\ UNCHANGED <<mode, input, attempt, breaker, probe, ran, undone, handlers>>

(* A key already taken counts as compensated.                              *)
ReserveCompensation(r) ==
  /\ pc[r] = "reserve"
  /\ \/ /\ Store!Reserve(input[r].action)
        /\ Goto(r, "mark")
        /\ UNCHANGED mode
     \/ /\ comps[input[r].action] # "absent"
        /\ Proceed(r, input[r], "static_compensation")
        /\ UNCHANGED comps
     \/ /\ StoreRaises(Store!Reserve(input[r].action))
        /\ Exhausted(r)
  /\ UNCHANGED <<input, attempt, breaker, probe, ran, undone, handlers>>

MarkCompensationDispatched(r) ==
  /\ pc[r] = "mark"
  /\ \/ /\ Store!MarkDispatched(input[r].action)
        /\ Goto(r, "invoke")
        /\ UNCHANGED mode
     \/ /\ StoreRaises(Store!MarkDispatched(input[r].action))
        /\ Exhausted(r)
  /\ UNCHANGED <<input, attempt, breaker, probe, ran, undone, handlers>>

InvokeHandler(r) ==
  /\ pc[r] = "invoke"
  /\ attempt' = [attempt EXCEPT ![r] = @ + 1]
  /\ Goto(r, "handler")
  /\ ran' = [ran EXCEPT ![input[r].action] = @ \cup {r}]
  /\ UNCHANGED <<input, mode, breaker, probe, comps, undone, handlers>>

(* Mutant: a timed out attempt is acknowledged like a finished one.        *)
HandlerReturnsOptimistic(r) ==
  /\ pc[r] = "handler"
  /\ \/ Goto(r, "acknowledge") /\ UNCHANGED undone
     \/ /\ Goto(r, "acknowledge")
        /\ undone' = undone \cup {input[r].action}
  /\ UNCHANGED <<input, mode, attempt, breaker, probe, comps, ran, handlers>>

(* The handler finishes, times out or fails in passing (another attempt    *)
(* after the backoff, if one is left), or fails for good.                  *)
HandlerReturns(r) ==
  /\ pc[r] = "handler"
  /\ \/ /\ Goto(r, "acknowledge")
        /\ undone' = undone \cup {input[r].action}
     \/ /\ Goto(r, IF attempt[r] < MaxCompensations THEN "invoke" ELSE "give_up")
        /\ UNCHANGED undone
     \/ /\ Goto(r, "give_up")
        /\ UNCHANGED undone
  /\ UNCHANGED <<input, mode, attempt, breaker, probe, comps, ran, handlers>>

(* mark_acknowledged sits inside the try: an error of the store after a    *)
(* compensation that worked is handled as a handler that raised, or, if it *)
(* is a TimeoutError, as one that timed out.                               *)
AcknowledgeCompensation(r) ==
  /\ pc[r] = "acknowledge"
  /\ \/ /\ Store!MarkAcknowledged(input[r].action)
        /\ Proceed(r, input[r], "static_compensation")
     \/ /\ StoreRaises(Store!MarkAcknowledged(input[r].action))
        /\ \E next \in {"give_up"} \cup
                       (IF attempt[r] < MaxCompensations THEN {"invoke"} ELSE {}) :
             Goto(r, next)
        /\ UNCHANGED mode
  /\ UNCHANGED <<input, attempt, breaker, probe, ran, undone, handlers>>

(* mark_unknown_effect with every error suppressed.                        *)
GiveUp(r) ==
  /\ pc[r] = "give_up"
  /\ \/ Store!MarkUnknownEffect(input[r].action)
     \/ /\ comps[input[r].action] \notin {"dispatched", "unknown_effect"}
        /\ UNCHANGED comps
     \/ StoreRaises(Store!MarkUnknownEffect(input[r].action))
  /\ Exhausted(r)
  /\ UNCHANGED <<input, attempt, breaker, probe, ran, undone, handlers>>
-----------------------------------------------------------------------------
(* The reasoning loop proposes a corrected action; if it fails or proposes *)
(* none the decision falls back.  No failure is recorded on this path.     *)
Reflect(r) ==
  /\ pc[r] = "reflect"
  /\ Return(r)
  /\ UNCHANGED <<breaker, probe, compVars>>

(* Mutant: the store counts the failure and keeps the old timestamp.       *)
RecordKeepsTimestamp(r) ==
  /\ pc[r] = "record"
  /\ Return(r)
  /\ IF input[r].class = NoClass THEN UNCHANGED <<breaker, probe>>
     ELSE /\ count' = [count EXCEPT ![input[r].class] =
                         IF @ < Threshold THEN @ + 1 ELSE @]
          /\ UNCHANGED <<age, probe>>
  /\ UNCHANGED compVars

(* _record_circuit_failure, then the decision.  If the store raises, the   *)
(* decision is lost with the exception.                                    *)
Record(r) ==
  /\ pc[r] = "record"
  /\ \/ /\ input[r].class = NoClass
        /\ Return(r)
        /\ UNCHANGED <<breaker, probe>>
     \/ /\ input[r].class # NoClass
        /\ RecordFailure(input[r].class)
        /\ Return(r)
     \/ /\ input[r].class # NoClass /\ "breaker" \in Faults
        /\ RecordFailure(input[r].class) \/ UNCHANGED <<breaker, probe>>
        /\ Return(r)
  /\ UNCHANGED compVars

(* The worker of a run dies inside decide; the stores survive.             *)
Crash(r) ==
  /\ "crash" \in Faults
  /\ pc[r] # "idle"
  /\ Return(r)
  /\ UNCHANGED <<breaker, probe, compVars>>
-----------------------------------------------------------------------------
(* A turn that dispatched calls on_action_success; the turn engine itself  *)
(* does not consult the breaker.                                           *)
OnActionSuccess(c) ==
  /\ ResetClass(c)
  /\ UNCHANGED <<gateVars, probe, compVars>>

Tick ==
  /\ age' = [c \in Classes |-> IF age[c] < Cooldown THEN age[c] + 1 ELSE age[c]]
  /\ UNCHANGED <<gateVars, count, probe, compVars>>

(* probe_once reads the clock once and then visits the classes.            *)
ProbeSweep ==
  /\ ~probe.dead /\ probe.at = NoClass /\ probe.due = {}
  /\ probe' = [probe EXCEPT !.due = {c \in Probed : age[c] = Cooldown}]
  /\ UNCHANGED <<gateVars, breaker, compVars>>

ProbeClass(c) ==
  /\ ~probe.dead /\ probe.at = NoClass /\ c \in probe.due
  /\ probe' = [probe EXCEPT !.due = @ \ {c},
                            !.at = IF Tripped(c) THEN c ELSE NoClass]
  /\ UNCHANGED <<gateVars, breaker, compVars>>

(* The probe answers; a success resets the row as it is by then.  A probe  *)
(* that raises ends the scheduler's loop.                                  *)
ProbeAnswers ==
  /\ probe.at # NoClass
  /\ \/ /\ ResetClass(probe.at)
        /\ probe' = [probe EXCEPT !.at = NoClass]
     \/ /\ probe' = [probe EXCEPT !.at = NoClass]
        /\ UNCHANGED breaker
     \/ /\ "probe" \in Faults
        /\ probe' = [probe EXCEPT !.at = NoClass, !.dead = TRUE]
        /\ UNCHANGED breaker
  /\ UNCHANGED <<gateVars, compVars>>
-----------------------------------------------------------------------------
DecideStep(r) ==
  \/ ReserveCompensation(r) \/ MarkCompensationDispatched(r)
  \/ InvokeHandler(r) \/ HandlerReturns(r) \/ AcknowledgeCompensation(r)
  \/ GiveUp(r) \/ Reflect(r) \/ Record(r)

Next ==
  \/ \E r \in Runs : DecideStep(r) \/ Crash(r) \/ \E i \in Inputs : Decide(r, i)
  \/ \E c \in Classes : OnActionSuccess(c) \/ ProbeClass(c)
  \/ \E c \in Handlers : RegisterHandler(c)
  \/ Tick \/ ProbeSweep \/ ProbeAnswers

Spec == Init /\ [][Next]_recoveryVars
-----------------------------------------------------------------------------
(* A compensation handler is entered for one action by one caller only,    *)
(* however many runs or workers fail on that action, retry or crash ("each *)
(* compensation attempt is wrapped with an IdempotencyEnvelope for         *)
(* at-most-once execution", CompensationRegistry.execute).                 *)
CompensatedByOneCaller == \A a \in Actions : Cardinality(ran[a]) <= 1

(* The record of a compensation never claims more than happened:           *)
(* acknowledged only if the handler returned normally, unknown only if the *)
(* handler was entered.                                                    *)
CompensationRecordIsTrue ==
  \A a \in Actions :
    /\ comps[a] = "acknowledged" => a \in undone
    /\ comps[a] = "unknown_effect" => ran[a] # {}

(* The counts, timestamps and sweeps of the gate implement a circuit       *)
(* breaker: a closed circuit is never found half open, and half open is    *)
(* only reached from open, by time.                                        *)
BreakerIsImplemented == Breaker!BreakerSpec

(* A circuit that opened gets its half-open chance although rejected       *)
(* requests keep arriving (DEF-019B in decide: a rejection that recorded a *)
(* failure would "prevent half-open recovery under sustained load").       *)
OpenCircuitHalfOpens ==
  \A c \in Classes : Circuit[c] = "open" ~> Circuit[c] # "open"

=============================================================================
