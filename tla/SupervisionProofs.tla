------------------------- MODULE SupervisionProofs -------------------------
(***************************************************************************)
(* Proofs about the recovery authority and the components that watch, for  *)
(* every set of runs, classes, actions, inputs and probes, every threshold *)
(* and cooldown, and any combination of faults: the gate (RecoveryGate),   *)
(* the runs (RunHeartbeat), the probes (KernelHealth) and the task         *)
(* registry (TaskManager).                                                 *)
(*                                                                         *)
(* RecoveryGate: one caller per compensation needs to know who holds a     *)
(* compensation key.  A decide that passed `reserve' holds the key of its  *)
(* action until it returns; Held says what the record and the history look *)
(* like meanwhile, OneHolder that two decides never hold the same key, and *)
(* RecordExplained what a record says of the history at any time.          *)
(***************************************************************************)
EXTENDS RecoveryGate, RunHeartbeat, KernelHealth, TaskManager, InductionLemmas,
        FiniteSetTheorems, TLAPS

Holding == {"mark", "invoke", "handler", "acknowledge", "give_up"}

GatePhases == {"idle", "reserve", "reflect", "record"} \cup Holding

GateTypeOK ==
  /\ pc \in [Runs -> GatePhases]
  /\ input \in [Runs -> Inputs \cup {NoInput}]
  /\ comps \in [Actions -> Store!RecordStates]
  /\ ran \in [Actions -> SUBSET Runs]
  /\ \A r \in Runs : pc[r] # "idle" => input[r] \in Inputs
  /\ \A r \in Runs :
       pc[r] \in {"reserve"} \cup Holding => input[r].action \in Actions

Held(r) ==
  LET a == input[r].action
  IN /\ pc[r] \in Holding => comps[a] # "absent" /\ ran[a] \subseteq {r}
     /\ pc[r] \in {"handler", "acknowledge", "give_up"} => ran[a] # {}
     /\ pc[r] = "acknowledge" => a \in undone

OneHolder ==
  \A r, q \in Runs :
    pc[r] \in Holding /\ pc[q] \in Holding /\ input[r].action = input[q].action
      => r = q

RecordExplained(a) ==
  /\ comps[a] = "absent" => ran[a] = {}
  /\ comps[a] = "acknowledged" => a \in undone
  /\ comps[a] = "unknown_effect" => ran[a] # {}
  /\ \A r, q \in ran[a] : r = q

GateInv ==
  /\ GateTypeOK
  /\ \A r \in Runs : Held(r)
  /\ OneHolder
  /\ \A a \in Actions : RecordExplained(a)

(* It gives the two properties it was strengthened for.                    *)
LEMMA GateInvImplies ==
  GateInv => CompensatedByOneCaller /\ CompensationRecordIsTrue
<1> SUFFICES ASSUME GateInv, NEW a \in Actions
             PROVE  /\ Cardinality(ran[a]) <= 1
                    /\ comps[a] = "acknowledged" => a \in undone
                    /\ comps[a] = "unknown_effect" => ran[a] # {}
  BY Zenon DEF CompensatedByOneCaller, CompensationRecordIsTrue
<1>1. RecordExplained(a)
  BY Zenon DEF GateInv
<1>2. CASE ran[a] = {}
  BY <1>1, <1>2, FS_EmptySet DEF RecordExplained
<1>3. CASE ran[a] # {}
  <2>1. PICK r \in ran[a] : ran[a] = {r}
    BY <1>1, <1>3, Zenon DEF RecordExplained
  <2>2. Cardinality({r}) = 1
    BY FS_Singleton, Zenon
  <2>3. QED BY <1>1, <2>1, <2>2 DEF RecordExplained
<1>4. QED BY <1>2, <1>3

LEMMA GateInvInit == Init => GateInv
  BY DEF Init, Store!StoreInit, Store!RecordStates, GateInv, GateTypeOK,
         GatePhases, Holding, Held, OneHolder, RecordExplained

(* A step of decide that touches no compensation and ends outside of one.  *)
LEMMA OutsideCompensation ==
  ASSUME GateInv, NEW r \in Runs, NEW p \in GatePhases \ Holding,
         NEW i \in Inputs \cup {NoInput},
         p # "idle" => i \in Inputs,
         p = "reserve" => i.action \in Actions,
         pc' = [pc EXCEPT ![r] = p],
         input' = [input EXCEPT ![r] = i],
         UNCHANGED <<comps, ran, undone>>
  PROVE  GateInv'
<1>1. GateTypeOK'
  BY Zenon DEF GateInv, GateTypeOK, Holding
<1>2. ASSUME NEW q \in Runs PROVE Held(q)'
  BY Zenon DEF GateInv, GateTypeOK, Held, Holding
<1>3. OneHolder'
  BY Zenon DEF GateInv, GateTypeOK, OneHolder
<1>4. ASSUME NEW a \in Actions PROVE RecordExplained(a)'
  BY Zenon DEF GateInv, RecordExplained
<1>5. QED BY <1>1, <1>2, <1>3, <1>4 DEF GateInv

LEMMA DecideInv ==
  ASSUME GateInv, NEW r \in Runs, NEW i \in Inputs, Decide(r, i)
  PROVE  GateInv'
<1> DEFINE planned == RecoveryModeOf(BuildPlanFromInput(i))
           m == IF Downgraded(i, planned) THEN "abort" ELSE planned
<1>1. CASE Return(r)
  BY <1>1, OutsideCompensation, Zenon
  DEF Decide, Return, Goto, compVars, GatePhases, Holding
<1>2. CASE /\ Compensates(i, m)
           /\ Goto(r, "reserve")
           /\ input' = [input EXCEPT ![r] = i]
  <2>1. i.action \in Actions
    BY <1>2, RecoveryAssumption, Zenon DEF Compensates, RecoveryInput
  <2>2. QED
    BY <1>2, <2>1, OutsideCompensation, Zenon
    DEF Decide, Goto, compVars, GatePhases, Holding
<1>3. CASE Proceed(r, i, m) /\ input' = [input EXCEPT ![r] = i]
  BY <1>3, OutsideCompensation, Zenon
  DEF Decide, Proceed, Goto, compVars, GatePhases, Holding
<1>4. QED BY <1>1, <1>2, <1>3 DEF Decide

LEMMA EndInv ==
  ASSUME GateInv, NEW r \in Runs, Reflect(r) \/ Record(r) \/ Crash(r)
  PROVE  GateInv'
<1>1. Return(r) /\ UNCHANGED compVars
  BY Zenon DEF Reflect, Record, Crash
<1>2. QED
  BY <1>1, OutsideCompensation, Zenon DEF Return, Goto, compVars, GatePhases, Holding

(* A step of decide around one call of the store: the record of the action *)
(* stays, or moves to a state that the history supports; the caller keeps  *)
(* the key only if it held it before or has just taken a free one.         *)
StoreCall(r, p, s) ==
  LET a == input[r].action
  IN /\ pc[r] \in {"reserve"} \cup Holding
     /\ pc' = [pc EXCEPT ![r] = p]
     /\ UNCHANGED <<input, ran, undone>>
     /\ \/ comps' = comps
        \/ /\ comps' = [comps EXCEPT ![a] = s]
           /\ s = "acknowledged" => a \in undone
           /\ s = "unknown_effect" => ran[a] # {}
     /\ p \in {"reserve"} \cup Holding =>
          /\ pc[r] \in Holding \/ comps[a] = "absent"
          /\ comps'[a] # "absent"
     /\ p \in {"handler", "acknowledge", "give_up"} =>
          pc[r] \in {"handler", "acknowledge", "give_up"}
     /\ p = "acknowledge" => pc[r] = "acknowledge"

LEMMA AroundStoreCall ==
  ASSUME GateInv, NEW r \in Runs, NEW p \in GatePhases \ {"idle"},
         NEW s \in Store!RecordStates \ {"absent"}, StoreCall(r, p, s)
  PROVE  GateInv'
<1> USE DEF StoreCall
<1> DEFINE a == input[r].action
<1>1. a \in Actions /\ comps \in [Actions -> Store!RecordStates]
  BY Zenon DEF GateInv, GateTypeOK
<1>2. /\ comps' \in [Actions -> Store!RecordStates]
      /\ \A b \in Actions : b # a => comps'[b] = comps[b]
      /\ comps'[a] = comps[a] \/ comps'[a] = s
  BY <1>1, Zenon
<1>3. GateTypeOK'
  BY <1>2, Zenon DEF GateInv, GateTypeOK, GatePhases, Holding
<1>4. ASSUME NEW q \in Runs PROVE Held(q)'
  <2>1. CASE q = r
    BY <1>1, <2>1 DEF GateInv, GateTypeOK, Held, Holding, RecordExplained
  <2>2. CASE q # r
    <3>1. pc'[q] = pc[q]
      BY <2>2, Zenon DEF GateInv, GateTypeOK
    <3>2. pc[q] \in Holding => input[q].action \in Actions
      BY Zenon DEF GateInv, GateTypeOK
    <3>3. Held(q)
      BY Zenon DEF GateInv
    <3>4. pc[q] \in Holding => comps'[input[q].action] # "absent"
      BY <1>2, <3>2, <3>3, Zenon DEF Held
    <3>5. QED BY <3>1, <3>3, <3>4, Zenon DEF Held, Holding
  <2>3. QED BY <2>1, <2>2
<1>5. OneHolder'
  <2>1. ASSUME NEW q \in Runs, q # r, pc[q] \in Holding, p \in Holding,
               input[q].action = a
        PROVE  FALSE
    <3>1. comps[a] # "absent"
      BY <2>1, Zenon DEF GateInv, Held
    <3>2. pc[r] \in Holding
      BY <2>1, <3>1, Zenon
    <3>3. QED BY <2>1, <3>2 DEF GateInv, OneHolder
  <2>2. QED BY <2>1 DEF GateInv, GateTypeOK, OneHolder
<1>6. ASSUME NEW b \in Actions PROVE RecordExplained(b)'
  BY <1>1, <1>2, Zenon DEF GateInv, RecordExplained
<1>7. QED BY <1>3, <1>4, <1>5, <1>6 DEF GateInv

LEMMA ReserveCompensationInv ==
  ASSUME GateInv, NEW r \in Runs, ReserveCompensation(r) PROVE GateInv'
<1> DEFINE a == input[r].action
<1>1. /\ pc[r] = "reserve" /\ UNCHANGED <<input, ran, undone>>
      /\ a \in Actions /\ comps \in [Actions -> Store!RecordStates]
  BY Zenon DEF GateInv, GateTypeOK, ReserveCompensation
<1>2. \E p \in {"mark", "reflect", "record"} : StoreCall(r, p, "reserved")
  <2>1. CASE Store!Reserve(a) /\ Goto(r, "mark")
    BY <1>1, <2>1, Zenon DEF StoreCall, Store!Reserve, Store!MoveTo, Goto, Holding
  <2>2. CASE Proceed(r, input[r], "static_compensation") /\ UNCHANGED comps
    BY <1>1, <2>2, Zenon DEF StoreCall, Proceed, Goto, Holding
  <2>3. CASE StoreRaises(Store!Reserve(a)) /\ Exhausted(r)
    BY <1>1, <2>3, Zenon DEF StoreCall, StoreRaises, Exhausted, Proceed,
                      Store!Reserve, Store!MoveTo, Goto, Holding
  <2>4. QED BY <2>1, <2>2, <2>3 DEF ReserveCompensation
<1>3. QED
  BY <1>2, AroundStoreCall, Zenon DEF GatePhases, Holding, Store!RecordStates

LEMMA MarkCompensationDispatchedInv ==
  ASSUME GateInv, NEW r \in Runs, MarkCompensationDispatched(r) PROVE GateInv'
<1> DEFINE a == input[r].action
<1>1. /\ pc[r] = "mark" /\ UNCHANGED <<input, ran, undone>>
      /\ a \in Actions /\ comps \in [Actions -> Store!RecordStates]
  BY Zenon DEF GateInv, GateTypeOK, MarkCompensationDispatched, Holding
<1>2. \E p \in {"invoke", "reflect", "record"} : StoreCall(r, p, "dispatched")
  <2>1. CASE Store!MarkDispatched(a) /\ Goto(r, "invoke")
    BY <1>1, <2>1, Zenon DEF StoreCall, Store!MarkDispatched, Store!MoveTo, Goto, Holding
  <2>2. CASE StoreRaises(Store!MarkDispatched(a)) /\ Exhausted(r)
    BY <1>1, <2>2, Zenon DEF StoreCall, StoreRaises, Exhausted, Proceed,
                      Store!MarkDispatched, Store!MoveTo, Goto, Holding
  <2>3. QED BY <2>1, <2>2, Zenon DEF MarkCompensationDispatched
<1>3. QED
  BY <1>2, AroundStoreCall, Zenon DEF GatePhases, Holding, Store!RecordStates

LEMMA AcknowledgeCompensationInv ==
  ASSUME GateInv, NEW r \in Runs, AcknowledgeCompensation(r) PROVE GateInv'
<1> DEFINE a == input[r].action
<1>1. /\ pc[r] = "acknowledge" /\ UNCHANGED <<input, ran, undone>>
      /\ a \in Actions /\ comps \in [Actions -> Store!RecordStates]
      /\ a \in undone /\ comps[a] # "absent"
  BY Zenon DEF GateInv, GateTypeOK, AcknowledgeCompensation, Held, Holding
<1>2. \E p \in {"give_up", "invoke", "reflect", "record"} :
        StoreCall(r, p, "acknowledged")
  <2>1. CASE /\ Store!MarkAcknowledged(a)
             /\ Proceed(r, input[r], "static_compensation")
    BY <1>1, <2>1, Zenon DEF StoreCall, Store!MarkAcknowledged, Store!MoveTo, Proceed,
                      Goto, Holding
  <2>2. ASSUME StoreRaises(Store!MarkAcknowledged(a)),
               NEW next \in {"give_up", "invoke"}, Goto(r, next)
        PROVE  StoreCall(r, next, "acknowledged")
    BY <1>1, <2>2 DEF StoreCall, StoreRaises, Store!MarkAcknowledged,
                      Store!MoveTo, Goto, Holding
  <2>3. QED BY <2>1, <2>2 DEF AcknowledgeCompensation
<1>3. QED
  BY <1>2, AroundStoreCall, Zenon DEF GatePhases, Holding, Store!RecordStates

LEMMA GiveUpInv ==
  ASSUME GateInv, NEW r \in Runs, GiveUp(r) PROVE GateInv'
<1> DEFINE a == input[r].action
<1>1. /\ pc[r] = "give_up" /\ UNCHANGED <<input, ran, undone>>
      /\ a \in Actions /\ ran[a] # {}
      /\ Exhausted(r)
  BY Zenon DEF GateInv, GateTypeOK, GiveUp, Held, Holding
<1>2. \/ UNCHANGED comps
      \/ comps' = [comps EXCEPT ![a] = "unknown_effect"]
  BY Zenon DEF GiveUp, StoreRaises, Store!MarkUnknownEffect, Store!MoveTo
<1>3. \E p \in {"reflect", "record"} : StoreCall(r, p, "unknown_effect")
  BY <1>1, <1>2, Zenon DEF StoreCall, Exhausted, Proceed, Goto, Holding
<1>4. QED
  BY <1>3, AroundStoreCall, Zenon DEF GatePhases, Holding, Store!RecordStates

(* Entering the handler: the caller holds the key, so it is the only one.  *)
LEMMA InvokeHandlerInv ==
  ASSUME GateInv, NEW r \in Runs, InvokeHandler(r) PROVE GateInv'
<1> DEFINE a == input[r].action
<1>1. /\ pc[r] = "invoke" /\ UNCHANGED <<input, comps, undone>>
      /\ pc' = [pc EXCEPT ![r] = "handler"]
      /\ a \in Actions /\ comps[a] # "absent" /\ ran[a] \subseteq {r}
      /\ ran' = [ran EXCEPT ![a] = @ \cup {r}]
  BY Zenon DEF GateInv, GateTypeOK, InvokeHandler, Goto, Held, Holding
<1>2. /\ ran \in [Actions -> SUBSET Runs] /\ ran'[a] = {r}
      /\ ran' \in [Actions -> SUBSET Runs]
      /\ \A b \in Actions : b # a => ran'[b] = ran[b]
  BY <1>1, Zenon DEF GateInv, GateTypeOK
<1>3. GateTypeOK'
  BY <1>1, <1>2 DEF GateInv, GateTypeOK, GatePhases, Holding
<1>4. ASSUME NEW q \in Runs PROVE Held(q)'
  <2>1. CASE q = r
    BY <1>1, <1>2, <2>1 DEF GateInv, GateTypeOK, Held
  <2>2. CASE q # r
    <3>1. pc'[q] = pc[q]
      BY <1>1, <2>2, Zenon DEF GateInv, GateTypeOK
    <3>2. pc[q] \in Holding => input[q].action \in Actions \ {a}
      BY <1>1, <2>2, Zenon DEF GateInv, GateTypeOK, OneHolder, Holding
    <3>3. pc[q] \in Holding => ran'[input[q].action] = ran[input[q].action]
      BY <1>2, <3>2, Zenon
    <3>4. QED BY <1>1, <3>1, <3>3 DEF GateInv, Held, Holding
  <2>3. QED BY <2>1, <2>2
<1>5. OneHolder'
  BY <1>1, ZenonT(30) DEF GateInv, GateTypeOK, OneHolder, Holding
<1>6. ASSUME NEW b \in Actions PROVE RecordExplained(b)'
  BY <1>1, <1>2 DEF GateInv, RecordExplained
<1>7. QED BY <1>3, <1>4, <1>5, <1>6 DEF GateInv

LEMMA HandlerReturnsInv ==
  ASSUME GateInv, NEW r \in Runs, HandlerReturns(r) PROVE GateInv'
<1> DEFINE a == input[r].action
<1>1. PICK p \in {"acknowledge", "invoke", "give_up"} :
        /\ pc' = [pc EXCEPT ![r] = p]
        /\ p = "acknowledge" => a \in undone'
  BY Zenon DEF HandlerReturns, Goto
<1>2. /\ pc[r] = "handler" /\ UNCHANGED <<input, comps, ran>>
      /\ undone \subseteq undone'
  BY Zenon DEF HandlerReturns
<1>3. GateTypeOK'
  BY <1>1, <1>2, Zenon DEF GateInv, GateTypeOK, GatePhases, Holding
<1>4. ASSUME NEW q \in Runs PROVE Held(q)'
  BY <1>1, <1>2 DEF GateInv, GateTypeOK, Held, Holding
<1>5. OneHolder'
  BY <1>1, <1>2, ZenonT(30) DEF GateInv, GateTypeOK, OneHolder, Holding
<1>6. ASSUME NEW b \in Actions PROVE RecordExplained(b)'
  BY <1>2, Zenon DEF GateInv, RecordExplained
<1>7. QED BY <1>3, <1>4, <1>5, <1>6, Zenon DEF GateInv

(* The gate keeps its invariant; the breaker, the probe scheduler and the  *)
(* registration of handlers do not touch it.                               *)
LEMMA GateInvNext == GateInv /\ [Next]_recoveryVars => GateInv'
<1> SUFFICES ASSUME GateInv, [Next]_recoveryVars PROVE GateInv'
  BY Zenon
<1>1. ASSUME NEW r \in Runs, DecideStep(r) PROVE GateInv'
  BY <1>1, ReserveCompensationInv, MarkCompensationDispatchedInv,
     InvokeHandlerInv, HandlerReturnsInv, AcknowledgeCompensationInv,
     GiveUpInv, EndInv, Zenon DEF DecideStep
<1>2. ASSUME NEW r \in Runs, NEW i \in Inputs, Decide(r, i) PROVE GateInv'
  BY <1>2, DecideInv, Zenon
<1>3. ASSUME NEW r \in Runs, Crash(r) PROVE GateInv'
  BY <1>3, EndInv, Zenon
<1>4. CASE UNCHANGED <<pc, input, comps, ran, undone>>
  <2>1. GateTypeOK' /\ OneHolder'
    BY <1>4, Zenon DEF GateInv, GateTypeOK, OneHolder
  <2>2. \A r \in Runs : Held(r)'
    BY <1>4, Zenon DEF GateInv, Held
  <2>3. \A a \in Actions : RecordExplained(a)'
    BY <1>4, Zenon DEF GateInv, RecordExplained
  <2>4. QED BY <2>1, <2>2, <2>3 DEF GateInv
<1>5. ASSUME \/ \E c \in Classes : OnActionSuccess(c) \/ ProbeClass(c)
             \/ \E c \in Handlers : RegisterHandler(c)
             \/ Tick \/ ProbeSweep \/ ProbeAnswers
             \/ UNCHANGED recoveryVars
      PROVE  UNCHANGED <<pc, input, comps, ran, undone>>
  BY <1>5, Zenon DEF OnActionSuccess, ProbeClass, RegisterHandler, Tick, ProbeSweep,
              ProbeAnswers, recoveryVars, gateVars, compVars
<1>6. QED BY <1>1, <1>2, <1>3, <1>4, <1>5 DEF Next

(* The compensation handler of an action is entered by one caller only,    *)
(* and its record claims no more than happened, for any number of runs     *)
(* that fail on the action, retry, crash or lose a store call.             *)
LEMMA CompensationSafe ==
  Spec => [](CompensatedByOneCaller /\ CompensationRecordIsTrue)
<1>1. Spec => []GateInv
  BY GateInvInit, GateInvNext, PTL DEF Spec
<1>2. QED BY <1>1, GateInvImplies, PTL

(* Two recoveries that race, retry or crash never both enter the handler   *)
(* of one action (CompensationRegistry.execute).                           *)
THEOREM CompensationIsExclusive == Spec => []CompensatedByOneCaller
  BY CompensationSafe, PTL

(* A compensation record claims no more than happened: acknowledged only   *)
(* after the handler returned, unknown only after it was entered (execute).*)
THEOREM CompensationRecordTrue == Spec => []CompensationRecordIsTrue
  BY CompensationSafe, PTL
-----------------------------------------------------------------------------
(***************************************************************************)
(* The breaker: each call of the store and each tick is a step of the      *)
(* circuit breaker or leaves every circuit as it is.                       *)
(***************************************************************************)
BreakerTypeOK ==
  /\ count \in [Classes -> 0..Threshold]
  /\ age \in [Classes -> 0..Cooldown]
  /\ probe \in [at : Classes \cup {NoClass}, due : SUBSET Classes, dead : BOOLEAN]

(* What a step does to the rows of the store: a failure of one class, a    *)
(* success of one class, the passing of time, or nothing.                  *)
BreakerStep ==
  \/ \E c \in Classes : RecordFailure(c)
  \/ \E c \in Classes : ResetClass(c)
  \/ /\ age' = [c \in Classes |-> IF age[c] < Cooldown THEN age[c] + 1 ELSE age[c]]
     /\ UNCHANGED count
  \/ UNCHANGED breaker

LEMMA NextIsBreakerStep ==
  ASSUME GateInv, BreakerTypeOK, [Next]_recoveryVars PROVE BreakerStep
<1>1. ASSUME NEW r \in Runs, Record(r) PROVE BreakerStep
  <2>1. input[r] \in RecoveryInput
    BY <1>1, RecoveryAssumption, Zenon DEF Record, GateInv, GateTypeOK
  <2>2. input[r].class # NoClass => input[r].class \in Classes
    BY <2>1, Zenon DEF RecoveryInput
  <2>3. QED BY <1>1, <2>2, Zenon DEF Record, BreakerStep
<1>2. CASE ProbeAnswers
  <2>1. probe.at \in Classes
    BY <1>2, Zenon DEF ProbeAnswers, BreakerTypeOK
  <2>2. QED BY <1>2, <2>1 DEF ProbeAnswers, BreakerStep
<1>3. ASSUME NEW c \in Classes, OnActionSuccess(c) PROVE BreakerStep
  BY <1>3, Zenon DEF OnActionSuccess, BreakerStep
<1>4. CASE Tick
  BY <1>4, Zenon DEF Tick, BreakerStep
<1>5. ASSUME \/ \E r \in Runs :
                 \/ ReserveCompensation(r) \/ MarkCompensationDispatched(r)
                 \/ InvokeHandler(r) \/ HandlerReturns(r)
                 \/ AcknowledgeCompensation(r) \/ GiveUp(r) \/ Reflect(r)
                 \/ Crash(r) \/ \E i \in Inputs : Decide(r, i)
             \/ \E c \in Classes : ProbeClass(c)
             \/ \E c \in Handlers : RegisterHandler(c)
             \/ ProbeSweep
             \/ UNCHANGED recoveryVars
      PROVE  UNCHANGED breaker
  BY <1>5, Zenon DEF ReserveCompensation, MarkCompensationDispatched, InvokeHandler,
     HandlerReturns, AcknowledgeCompensation, GiveUp, Reflect, Crash, Decide,
     ProbeClass, RegisterHandler, ProbeSweep, recoveryVars
<1>6. QED
  BY <1>1, <1>2, <1>3, <1>4, <1>5, Zenon DEF Next, DecideStep, BreakerStep

LEMMA BreakerTypeInit == Init => BreakerTypeOK
  BY RecoveryAssumption DEF Init, BreakerTypeOK

LEMMA BreakerTypeNext ==
  GateInv /\ BreakerTypeOK /\ [Next]_recoveryVars => BreakerTypeOK'
<1> SUFFICES ASSUME GateInv, BreakerTypeOK, [Next]_recoveryVars
             PROVE  BreakerTypeOK'
  BY Zenon
<1>1. count' \in [Classes -> 0..Threshold] /\ age' \in [Classes -> 0..Cooldown]
  <2>1. BreakerStep
    BY NextIsBreakerStep, Zenon
  <2>2. QED
    BY <2>1, RecoveryAssumption
    DEF BreakerStep, BreakerTypeOK, RecordFailure, ResetClass, breaker
<1>2. probe' \in [at : Classes \cup {NoClass}, due : SUBSET Classes, dead : BOOLEAN]
  <2>1. \/ UNCHANGED probe
        \/ \E r \in Runs : Record(r)
        \/ \E c \in Classes : ProbeClass(c)
        \/ ProbeSweep \/ ProbeAnswers
    <3>1. ASSUME NEW r \in Runs, DecideStep(r) PROVE UNCHANGED probe \/ Record(r)
      BY <3>1, Zenon DEF DecideStep, ReserveCompensation, MarkCompensationDispatched,
         InvokeHandler, HandlerReturns, AcknowledgeCompensation, GiveUp, Reflect
    <3>2. ASSUME NEW r \in Runs, Crash(r) \/ \E i \in Inputs : Decide(r, i)
          PROVE  UNCHANGED probe
      BY <3>2, Zenon DEF Crash, Decide
    <3>3. ASSUME \/ \E c \in Handlers : RegisterHandler(c)
                 \/ \E c \in Classes : OnActionSuccess(c)
                 \/ Tick \/ UNCHANGED recoveryVars
          PROVE  UNCHANGED probe
      BY <3>3, Zenon DEF RegisterHandler, OnActionSuccess, Tick, recoveryVars
    <3>4. QED BY <3>1, <3>2, <3>3, Zenon DEF Next
  <2> DEFINE ProbeType == [at : Classes \cup {NoClass}, due : SUBSET Classes,
                           dead : BOOLEAN]
  <2>2. ASSUME NEW r \in Runs, Record(r) PROVE probe' \in ProbeType
    <3>1. UNCHANGED probe \/ probe' = [probe EXCEPT !.due = @ \ {input[r].class}]
      BY <2>2, Zenon DEF Record, RecordFailure
    <3>2. QED BY <3>1 DEF BreakerTypeOK
  <2>3. ASSUME NEW c \in Classes, ProbeClass(c) PROVE probe' \in ProbeType
    <3>1. PICK d \in Classes \cup {NoClass} :
            probe' = [probe EXCEPT !.due = @ \ {c}, !.at = d]
      BY <2>3, Zenon DEF ProbeClass
    <3>2. QED BY <3>1, Zenon DEF BreakerTypeOK
  <2>4. CASE ProbeSweep
    BY <2>4, RecoveryAssumption, Zenon DEF BreakerTypeOK, ProbeSweep
  <2>5. CASE ProbeAnswers
    BY <2>5, Zenon DEF BreakerTypeOK, ProbeAnswers
  <2>6. CASE UNCHANGED probe
    BY <2>6, Zenon DEF BreakerTypeOK
  <2>7. QED BY <2>1, <2>2, <2>3, <2>4, <2>5, <2>6, Zenon
<1>3. QED BY <1>1, <1>2 DEF BreakerTypeOK

LEMMA BreakerStepRefines ==
  ASSUME BreakerTypeOK, BreakerStep
  PROVE  Breaker!BreakerNext \/ UNCHANGED Circuit
<1>1. ASSUME NEW c \in Classes, RecordFailure(c)
      PROVE  Breaker!Trip(c) \/ UNCHANGED Circuit
  <2>1. \A d \in Classes : d # c => count'[d] = count[d] /\ age'[d] = age[d]
    BY <1>1, Zenon DEF RecordFailure, BreakerTypeOK
  <2>2. /\ age'[c] = 0
        /\ count'[c] = IF count[c] < Threshold THEN count[c] + 1 ELSE count[c]
    BY <1>1, Zenon DEF RecordFailure, BreakerTypeOK
  <2>3. /\ \A d \in Classes : d # c => Circuit'[d] = Circuit[d]
        /\ Circuit'[c] \in {"open", Circuit[c]}
        /\ Circuit[c] = "half_open" => Circuit'[c] = "open"
    BY <2>1, <2>2, RecoveryAssumption DEF Circuit, Tripped, BreakerTypeOK
  <2>4. Circuit[c] \in {"closed", "half_open", "open"}
    BY Zenon DEF Circuit
  <2>5. CASE Circuit'[c] = Circuit[c]
    BY <2>3, <2>5, Zenon DEF Circuit
  <2>6. CASE Circuit'[c] # Circuit[c]
    <3>1. Circuit' = [Circuit EXCEPT ![c] = "open"]
      BY <2>3, <2>6, Zenon DEF Circuit
    <3>2. QED
      BY <2>3, <2>4, <2>6, <3>1, Zenon DEF Breaker!Trip, Breaker!Become
  <2>7. QED BY <2>5, <2>6
<1>2. ASSUME NEW c \in Classes, ResetClass(c)
      PROVE  Breaker!Reset(c) \/ UNCHANGED Circuit
  <2>1. /\ \A d \in Classes : d # c => count'[d] = count[d] /\ age'[d] = age[d]
        /\ count'[c] = 0
    BY <1>2, Zenon DEF ResetClass, BreakerTypeOK
  <2>2. /\ \A d \in Classes : d # c => Circuit'[d] = Circuit[d]
        /\ Circuit'[c] = "closed"
    BY <2>1, RecoveryAssumption DEF Circuit, Tripped
  <2>3. Circuit' = [Circuit EXCEPT ![c] = "closed"]
    BY <2>2, Zenon DEF Circuit
  <2>4. Circuit[c] \in {"closed", "half_open", "open"}
    BY Zenon DEF Circuit
  <2>5. CASE Circuit[c] = "closed"
    BY <2>2, <2>5, Zenon DEF Circuit
  <2>6. QED BY <2>3, <2>4, <2>5 DEF Breaker!Reset, Breaker!Become
<1>3. ASSUME age' = [c \in Classes |-> IF age[c] < Cooldown THEN age[c] + 1
                                       ELSE age[c]],
             UNCHANGED count
      PROVE  Breaker!Cool
  <2> DEFINE rested == {c \in Classes : Circuit[c] = "open" /\ Circuit'[c] # "open"}
  <2>1. \A c \in Classes :
          Circuit'[c] = IF c \in rested THEN "half_open" ELSE Circuit[c]
    BY <1>3, RecoveryAssumption, Zenon DEF Circuit, Tripped, BreakerTypeOK
  <2>2. Circuit' = [c \in Classes |-> IF c \in rested THEN "half_open" ELSE Circuit[c]]
    BY <2>1, Zenon DEF Circuit
  <2>3. rested \in SUBSET {c \in Classes : Circuit[c] = "open"}
    BY Zenon
  <2> HIDE DEF rested
  <2>4. QED BY <2>2, <2>3 DEF Breaker!Cool
<1>4. CASE UNCHANGED breaker
  BY <1>4, Zenon DEF Circuit, Tripped, breaker
<1>5. QED BY <1>1, <1>2, <1>3, <1>4 DEF BreakerStep, Breaker!BreakerNext

(* The counts, timestamps, rejections and probe sweeps of the gate         *)
(* implement a circuit breaker for every threshold and cooldown: opened by *)
(* failures only, half open by time only, closed by a success.             *)
THEOREM GateImplementsBreaker == Spec => BreakerIsImplemented
<1>1. Init => Breaker!BreakerInit
  BY RecoveryAssumption DEF Init, Breaker!BreakerInit, Circuit, Tripped
<1>2. GateInv /\ BreakerTypeOK /\ [Next]_recoveryVars =>
        [Breaker!BreakerNext]_Circuit
  BY NextIsBreakerStep, BreakerStepRefines, Zenon
<1>3. QED
  BY <1>1, <1>2, GateInvInit, GateInvNext, BreakerTypeInit, BreakerTypeNext, PTL
  DEF Spec, BreakerIsImplemented, Breaker!BreakerSpec
-----------------------------------------------------------------------------
(***************************************************************************)
(* KernelHealth: a cached ok is as old as its stamp at most, because the   *)
(* stamp is the start of the refresh and each answer came later.           *)
(***************************************************************************)
HealthTypeOK ==
  /\ up \subseteq Parts
  /\ since \in [Parts -> 0..Old]
  /\ refresh \in [Probes -> [at : {"idle", "event_log", "projection"},
                             began : 0..Old, log : {"ok", "unhealthy"}]]
  /\ cache \in [Parts -> {"ok", "unhealthy"}]
  /\ stamp \in 0..(Old + 1)

HealthInv ==
  /\ HealthTypeOK
  /\ \A p \in up : since[p] = 0
  /\ \A f \in Probes :
       refresh[f].at = "projection" /\ refresh[f].log = "ok" =>
         since["event_log"] <= refresh[f].began
  /\ \A p \in Parts : cache[p] = "ok" => since[p] <= stamp

LEMMA HealthInvImplies == HealthInv => ReadinessIsRecent
<1> SUFFICES ASSUME HealthInv, NEW p \in Parts, Check(p) = "ok"
             PROVE  since[p] <= StaleAge
  <2>1. Readiness = "ok" => \A p \in Parts : Check(p) = "ok"
    BY Zenon DEF Readiness
  <2>2. Startup = "ok" => \A p \in Required : Check(p) = "ok" /\ p \in Parts
    BY HealthAssumption, Zenon DEF Startup
  <2>3. QED BY <2>1, <2>2 DEF ReadinessIsRecent
<1>1. cache[p] = "ok" /\ stamp # Old /\ stamp # Old + 1
  BY Zenon DEF Check
<1>2. QED
  BY <1>1, HealthAssumption DEF HealthInv, HealthTypeOK, Old

LEMMA HealthInvInit == HealthInit => HealthInv
  BY HealthAssumption
  DEF HealthInit, HealthInv, HealthTypeOK, NoRefresh, Old, Parts

LEMMA HealthInvNext == HealthInv /\ [HealthNext]_healthVars => HealthInv'
<1> SUFFICES ASSUME HealthInv, [HealthNext]_healthVars PROVE HealthInv'
  BY Zenon
<1> USE HealthAssumption DEF Old
<1>1. CASE HealthTick
  <2>1. \A m, n \in 0..(Old + 1) : m <= n /\ m <= Old => Aged(m) <= Aged(n)
    BY DEF Aged
  <2>2. HealthTypeOK'
    BY <1>1 DEF HealthInv, HealthTypeOK, HealthTick, Aged
  <2>3. QED
    BY <1>1, <2>2 DEF HealthInv, HealthTypeOK, HealthTick, Aged, Parts
<1>2. ASSUME NEW p \in Parts, PartSwitches(p) PROVE HealthInv'
  BY <1>2 DEF HealthInv, HealthTypeOK, PartSwitches, Parts
<1>3. ASSUME NEW f \in Probes, RefreshStarts(f) PROVE HealthInv'
  BY <1>3 DEF HealthInv, HealthTypeOK, RefreshStarts, NoRefresh
<1>4. ASSUME NEW f \in Probes, ProbeEventLog(f) PROVE HealthInv'
  <2> DEFINE new == [refresh[f] EXCEPT !.at = "projection",
                                       !.log = Answer("event_log")]
  <2>1. refresh' = [refresh EXCEPT ![f] = new]
    BY <1>4, Zenon DEF HealthInv, HealthTypeOK, ProbeEventLog
  <2>2. /\ Answer("event_log") \in {"ok", "unhealthy"}
        /\ Answer("event_log") = "ok" => since["event_log"] = 0
    BY Zenon DEF HealthInv, Answer
  <2>3. refresh[f] \in [at : {"idle", "event_log", "projection"},
                        began : 0..Old, log : {"ok", "unhealthy"}]
    BY Zenon DEF HealthInv, HealthTypeOK
  <2>4. /\ new \in [at : {"idle", "event_log", "projection"},
                    began : 0..Old, log : {"ok", "unhealthy"}]
        /\ new.log = Answer("event_log") /\ new.began \in 0..Old
    BY <2>2, <2>3, Zenon
  <2> HIDE DEF new
  <2>5. QED
    BY <1>4, <2>1, <2>2, <2>4 DEF HealthInv, HealthTypeOK, ProbeEventLog
<1>5. ASSUME NEW f \in Probes, ProbeProjection(f) PROVE HealthInv'
  BY <1>5 DEF HealthInv, HealthTypeOK, ProbeProjection, Answer, NoRefresh, Parts
<1>6. CASE UNCHANGED healthVars
  BY <1>6, Zenon DEF HealthInv, HealthTypeOK, healthVars
<1>7. QED BY <1>1, <1>2, <1>3, <1>4, <1>5, <1>6, Zenon DEF HealthNext

(* A readiness or startup probe that says ok is true of the recent past,   *)
(* for every staleness bound, any number of overlapping refreshes and any  *)
(* set of required checks.                                                 *)
THEOREM ReadinessRecent == HealthSpec => []ReadinessIsRecent
  BY HealthInvInit, HealthInvNext, HealthInvImplies, PTL DEF HealthSpec
-----------------------------------------------------------------------------
(* RunHeartbeat.  A run that get_timed_out_runs has marked is passed over  *)
(* by every later sweep, so a mark must not outlive the signal it stands   *)
(* for: the current sweep has still to signal the run, or it was signalled *)
(* in its current silence, or a stop of the watchdog cut its signal off.   *)
MarkStandsForSignal ==
  \A r \in timedOut : r \in due \/ r \in told \/ r \in cut

(* Between sweeps: a silent run that no sweep has signalled, and whose     *)
(* signal no stop has cut off, is one that the next sweep returns.         *)
SilentRunIsFoundNext ==
  \A r \in HRuns : Overdue(r) /\ due = {} /\ r \notin told \cup cut => r \notin timedOut

LEMMA MarkInvNext ==
  ASSUME MarkStandsForSignal, [HeartNext]_heartVars
  PROVE  MarkStandsForSignal'
<1>1. ASSUME NEW r \in HRuns, Touch(r) PROVE MarkStandsForSignal'
  BY <1>1, Zenon DEF MarkStandsForSignal, Touch, Heard
<1>2. ASSUME NEW r \in HRuns, SignalDelivered(r) PROVE MarkStandsForSignal'
  BY <1>2, Zenon DEF MarkStandsForSignal, SignalDelivered, Delivered
<1>3. ASSUME NEW r \in HRuns, SignalFails(r) PROVE MarkStandsForSignal'
  BY <1>3, Zenon DEF MarkStandsForSignal, SignalFails, Delivered
<1>4. ASSUME NEW r \in HRuns, NEW s, OnRunLifecycleTransition(r, s)
      PROVE  MarkStandsForSignal'
  BY <1>4, Zenon DEF MarkStandsForSignal, OnRunLifecycleTransition, Heard
<1>5. CASE HeartTick \/ StartWatchdog \/ UNCHANGED heartVars
  BY <1>5, Zenon DEF MarkStandsForSignal, HeartTick, StartWatchdog, heartVars
<1>6. CASE StopWatchdog
  BY <1>6, Zenon DEF MarkStandsForSignal, StopWatchdog
<1>7. CASE GetTimedOutRuns
  BY <1>7, Zenon DEF MarkStandsForSignal, GetTimedOutRuns
<1> QED
  BY <1>1, <1>2, <1>3, <1>4, <1>5, <1>6, <1>7, Zenon DEF HeartNext

(* The safety half of what the watchdog promises, for any runs, states and *)
(* delivery faults: no mark hides a silent run from the sweeps before it   *)
(* was signalled (get_timed_out_runs, HeartbeatWatchdog).                  *)
THEOREM NoSilentRunIsHidden == HeartSpec => []SilentRunIsFoundNext
<1>1. HeartInit => MarkStandsForSignal
  BY Zenon DEF HeartInit, MarkStandsForSignal
<1>2. MarkStandsForSignal => SilentRunIsFoundNext
  BY Zenon DEF MarkStandsForSignal, SilentRunIsFoundNext
<1> QED
  BY <1>1, <1>2, MarkInvNext, PTL DEF HeartSpec
-----------------------------------------------------------------------------
(* TaskManager.  Two registries are similar when they differ in nothing    *)
(* but heartbeats; the methods of the registry keep that, evictions        *)
(* included, and the replay of the log is similar to the registry as long  *)
(* as every change has its event.  A run that is launched anew is in no attempt, so *)
(* the replay never takes a start for one that is there already.           *)
Attempts == [run : TaskRuns, outcome : {"open", "completed", "failed"}]

Entries == [state : TaskStates, attempts : Seq(Attempts), age : 0..NoBeat]

IsRegistry(g) ==
  /\ g = [order |-> g.order, entry |-> g.entry, index |-> g.index]
  /\ g.entry \in [Tasks -> Entries]
  /\ g.index \in [TaskRuns -> Tasks \cup {NoTask}]

Similar(g, h) ==
  /\ g.order = h.order /\ g.index = h.index
  /\ \A t \in Tasks : /\ g.entry[t].state = h.entry[t].state
                      /\ g.entry[t].attempts = h.entry[t].attempts

Alike(g, h) == IsRegistry(g) /\ IsRegistry(h) /\ Similar(g, h)

AttemptsLaunched(g, runs) ==
  \A t \in Tasks : \A i \in DOMAIN g.entry[t].attempts : g.entry[t].attempts[i].run \in runs

TaskEvents ==
  [kind : {"registered", "attempt_started", "attempt_closed", "state"},
   task : Tasks, run : TaskRuns \cup {NoRun}, state : TaskStates]

Recoverable ==
  /\ taskLog \in Seq(TaskEvents)
  /\ Alike(Replay(NewRegistry, taskLog), reg)
  /\ AttemptsLaunched(reg, launched)

ReplayInv ==
  /\ restarts \in Nat /\ lost \in BOOLEAN
  /\ ~lost /\ restarts = 0 => Recoverable

(* The recursion of a replay over the first m events has a solution,       *)
(* whatever the events do.                                                 *)
Replays(f, g, log, m) ==
  f = [n \in 0..m |-> IF n = 0 THEN g ELSE ReplayEvent(f[n - 1], log[n])]

(* Its values, one by one.                                                 *)
LEMMA ReplaysStep ==
  ASSUME NEW f, NEW g, NEW log, NEW m \in Nat, Replays(f, g, log, m)
  PROVE  /\ f[0] = g
         /\ \A n \in 1..m : f[n] = ReplayEvent(f[n - 1], log[n])
<1>1. \A n \in 0..m : f[n] = IF n = 0 THEN g ELSE ReplayEvent(f[n - 1], log[n])
  BY Zenon DEF Replays
<1>2. 0 \in 0..m /\ \A n \in 1..m : n \in 0..m /\ n # 0
  OBVIOUS
<1> QED
  BY <1>1, <1>2, Zenon

(* The replay of a log of any length exists.                               *)
LEMMA ReplaysExist ==
  ASSUME NEW g, NEW log, NEW N \in Nat
  PROVE  \E f : Replays(f, g, log, N)
<1> DEFINE S == {m \in 0..N : \E f : Replays(f, g, log, m)}
<1>1. 0 \in S
  <2> DEFINE f0 == [n \in 0..0 |-> g]
  <2>1. \A n \in 0..0 : n = 0
    OBVIOUS
  <2>2. Replays(f0, g, log, 0)
    BY <2>1, Zenon DEF Replays
  <2> HIDE DEF f0
  <2> QED
    BY <2>2
<1>2. ASSUME NEW m \in 0..(N - 1), m \in S PROVE m + 1 \in S
  <2>1. PICK f : Replays(f, g, log, m)
    BY <1>2, Zenon
  <2> DEFINE h == [n \in 0..(m + 1) |-> IF n <= m THEN f[n] ELSE ReplayEvent(f[m], log[m + 1])]
  <2>2. f[0] = g /\ \A n \in 1..m : f[n] = ReplayEvent(f[n - 1], log[n])
    BY <2>1, ReplaysStep
  <2>3. ASSUME NEW n \in 0..(m + 1)
        PROVE  h[n] = IF n = 0 THEN g ELSE ReplayEvent(h[n - 1], log[n])
    <3>1. CASE n = 0
      BY <2>2, <3>1
    <3>2. CASE n \in 1..m
      <4>1. h[n] = f[n] /\ h[n - 1] = f[n - 1]
        BY <3>2
      <4> QED
        BY <2>2, <3>2, <4>1, Zenon
    <3>3. CASE n = m + 1
      <4>1. h[n] = ReplayEvent(f[m], log[m + 1]) /\ h[n - 1] = f[m]
        BY <3>3
      <4> QED
        BY <3>3, <4>1
    <3> QED
      BY <3>1, <3>2, <3>3
  <2>4. h = [n \in 0..(m + 1) |-> h[n]]
    BY Zenon
  <2> HIDE DEF h
  <2>5. Replays(h, g, log, m + 1)
    BY <2>3, <2>4, Zenon DEF Replays
  <2> QED
    BY <2>5
<1>3. 0..N \subseteq S
  <2> HIDE DEF S
  <2> QED
    BY <1>1, <1>2, BoundedInduction, Zenon
<1>4. N \in 0..N
  OBVIOUS
<1> QED
  BY <1>3, <1>4, Zenon

(* A replay is the last value of the solution of its recursion.            *)
LEMMA ReplayIsLast ==
  ASSUME NEW g, NEW l, Len(l) \in Nat
  PROVE  \E f : Replays(f, g, l, Len(l)) /\ Replay(g, l) = f[Len(l)]
<1> DEFINE f == CHOOSE x : Replays(x, g, l, Len(l))
<1>1. Replays(f, g, l, Len(l))
  BY ReplaysExist, Zenon
<1>2. Replay(g, l) = f[Len(l)]
  BY Zenon DEF Replay, Replays
<1> HIDE DEF f
<1> QED
  BY <1>1, <1>2, Zenon

(* Replaying nothing changes nothing.                                      *)
LEMMA ReplayOfNothing ==
  ASSUME NEW g
  PROVE  Replay(g, <<>>) = g
<1>1. Len(<<>>) = 0
  BY Zenon
<1>2. PICK f : Replays(f, g, <<>>, 0) /\ Replay(g, <<>>) = f[0]
  BY <1>1, ReplayIsLast, Zenon
<1> QED
  BY <1>2, ReplaysStep, Zenon

(* An event that is appended is replayed last.                             *)
LEMMA ReplayAppends ==
  ASSUME NEW g, NEW log \in Seq(TaskEvents), NEW e \in TaskEvents
  PROVE  Replay(g, Append(log, e)) = ReplayEvent(Replay(g, log), e)
<1> DEFINE N == Len(log)
           longer == Append(log, e)
<1>3. N \in Nat /\ Len(longer) = N + 1 /\ longer[N + 1] = e /\ \A n \in 1..N : longer[n] = log[n]
  OBVIOUS
<1>4. PICK f : Replays(f, g, log, N) /\ Replay(g, log) = f[N]
  BY <1>3, ReplayIsLast, Zenon
<1>5. PICK h : Replays(h, g, longer, N + 1) /\ Replay(g, longer) = h[N + 1]
  <2> HIDE DEF longer, N
  <2> QED
    BY <1>3, ReplayIsLast
<1> HIDE DEF longer, N
<1>6. f[0] = g /\ \A n \in 1..N : f[n] = ReplayEvent(f[n - 1], log[n])
  BY <1>3, <1>4, ReplaysStep
<1>7. h[0] = g /\ \A n \in 1..(N + 1) : h[n] = ReplayEvent(h[n - 1], longer[n])
  BY <1>3, <1>5, ReplaysStep
<1> DEFINE S == {n \in 0..N : h[n] = f[n]}
<1>8. ASSUME NEW n \in 0..(N - 1), n \in S PROVE n + 1 \in S
  <2>1. n + 1 \in 1..N /\ n + 1 \in 1..(N + 1) /\ (n + 1) - 1 = n /\ n + 1 \in 0..N
    BY <1>3
  <2>2. f[n + 1] = ReplayEvent(f[n], log[n + 1])
    BY <1>6, <2>1, Zenon
  <2>3. h[n + 1] = ReplayEvent(h[n], log[n + 1])
    BY <1>3, <1>7, <2>1, Zenon
  <2> QED
    BY <1>8, <2>1, <2>2, <2>3, Zenon
<1>9. 0..N \subseteq S
  <2>1. 0 \in S
    BY <1>3, <1>6, <1>7
  <2> HIDE DEF S
  <2> QED
    BY <1>3, <1>8, <2>1, BoundedInduction, Zenon
<1>10. h[N] = f[N]
  <2>1. N \in 0..N
    BY <1>3
  <2> QED
    BY <1>9, <2>1, Zenon
<1>11. h[N + 1] = ReplayEvent(h[N], e)
  <2>1. N + 1 \in 1..(N + 1) /\ (N + 1) - 1 = N
    BY <1>3
  <2> QED
    BY <1>3, <1>7, <2>1, Zenon
<1> QED
  BY <1>4, <1>5, <1>10, <1>11, Zenon DEF longer

(* The methods of the registry keep its type.                              *)
LEMMA RegistersTyped ==
  ASSUME NEW g, IsRegistry(g), NEW t \in Tasks
  PROVE  IsRegistry(RegisterIn(g, t))
<1>1. NewEntry \in Entries
  BY TaskAssumption DEF NewEntry, Entries, TaskStates, NoBeat
<1>2. IsRegistry(EvictIfNeeded(g))
  <2> DEFINE terminal == TerminalIn(g.order, [u \in Tasks |-> g.entry[u].state])
             half == Len(terminal) \div 2
             gone == SubSeq(terminal, 1, IF half = 0 THEN 1 ELSE half)
             kept == [u \in Tasks |-> IF u \in Range(gone) THEN NewEntry ELSE g.entry[u]]
  <2>1. \/ EvictIfNeeded(g) = g
        \/ EvictIfNeeded(g) = [g EXCEPT !.order = Without(@, gone), !.entry = kept]
    BY Zenon DEF EvictIfNeeded
  <2> HIDE DEF gone
  <2>2. kept \in [Tasks -> Entries]
    BY <1>1, Zenon DEF IsRegistry
  <2> HIDE DEF kept
  <2> QED
    BY <2>1, <2>2, Zenon DEF IsRegistry
<1> QED
  BY <1>2, Zenon DEF RegisterIn, IsRegistry

(* Registries that differ in heartbeats alone evict and register alike.    *)
LEMMA RegistersAlike ==
  ASSUME NEW g, NEW h, Alike(g, h), NEW t \in Tasks
  PROVE  Alike(RegisterIn(g, t), RegisterIn(h, t))
<1>0. IsRegistry(g) /\ IsRegistry(h) /\ Similar(g, h)
  BY Zenon DEF Alike
<1>1. IsRegistry(RegisterIn(g, t)) /\ IsRegistry(RegisterIn(h, t))
  BY <1>0, RegistersTyped, Zenon
<1>2. [u \in Tasks |-> g.entry[u].state] = [u \in Tasks |-> h.entry[u].state]
  BY <1>0, Zenon DEF Similar
<1> DEFINE states == [u \in Tasks |-> g.entry[u].state]
           terminal == TerminalIn(g.order, states)
           half == Len(terminal) \div 2
           gone == SubSeq(terminal, 1, IF half = 0 THEN 1 ELSE half)
           Kept(x) == [u \in Tasks |-> IF u \in Range(gone) THEN NewEntry ELSE x.entry[u]]
           Trimmed(x) == [x EXCEPT !.order = Without(@, gone), !.entry = Kept(x)]
           stays == Len(g.order) < MaxTasks \/ terminal = <<>>
<1>3. /\ EvictIfNeeded(g) = IF stays THEN g ELSE Trimmed(g)
      /\ EvictIfNeeded(h) = IF stays THEN h ELSE Trimmed(h)
  <2>1. EvictIfNeeded(g) = IF stays THEN g ELSE Trimmed(g)
    BY Zenon DEF EvictIfNeeded
  <2>2. h.order = g.order
    BY <1>0, Zenon DEF Similar
  <2>3. EvictIfNeeded(h) = IF stays THEN h ELSE Trimmed(h)
    BY <1>2, <2>2, Zenon DEF EvictIfNeeded
  <2> QED
    BY <2>1, <2>3, Zenon
<1> HIDE DEF stays, gone
<1>4. Similar(Trimmed(g), Trimmed(h))
  <2>1. /\ Trimmed(g).order = Without(g.order, gone) /\ Trimmed(h).order = Without(h.order, gone)
        /\ Trimmed(g).index = g.index /\ Trimmed(h).index = h.index
        /\ Trimmed(g).entry = Kept(g) /\ Trimmed(h).entry = Kept(h)
    <3> HIDE DEF Kept
    <3> QED
      BY <1>0, Zenon DEF IsRegistry
  <2> HIDE DEF Trimmed
  <2>2. \A u \in Tasks : /\ Kept(g)[u].state = Kept(h)[u].state
                         /\ Kept(g)[u].attempts = Kept(h)[u].attempts
    BY <1>0, Zenon DEF Similar
  <2> HIDE DEF Kept
  <2> QED
    BY <1>0, <2>1, <2>2, Zenon DEF Similar
<1>5. Similar(EvictIfNeeded(g), EvictIfNeeded(h))
  <2> HIDE DEF Trimmed
  <2> QED
    BY <1>0, <1>3, <1>4, Zenon
<1>6. \A x, y : /\ DOMAIN x = {"order", "entry", "index"} /\ DOMAIN y = {"order", "entry", "index"}
                /\ Similar(x, y)
                => Similar([x EXCEPT !.order = Append(@, t)], [y EXCEPT !.order = Append(@, t)])
  BY Zenon DEF Similar
<1>7. /\ DOMAIN EvictIfNeeded(g) = {"order", "entry", "index"}
      /\ DOMAIN EvictIfNeeded(h) = {"order", "entry", "index"}
  <2>1. DOMAIN g = {"order", "entry", "index"} /\ DOMAIN h = {"order", "entry", "index"}
    <3>1. \A o, n, i : DOMAIN [order |-> o, entry |-> n, index |-> i] = {"order", "entry", "index"}
      BY Zenon
    <3> QED
      BY <1>0, <3>1, Zenon DEF IsRegistry
  <2>2. DOMAIN Trimmed(g) = DOMAIN g /\ DOMAIN Trimmed(h) = DOMAIN h
    <3> HIDE DEF Kept
    <3> QED
      BY Zenon
  <2> HIDE DEF Trimmed
  <2> QED
    BY <1>3, <2>1, <2>2, Zenon
<1>8. Registered(g, t) <=> Registered(h, t)
  BY <1>0, Zenon DEF Similar, Registered
<1>9. Similar(RegisterIn(g, t), RegisterIn(h, t))
  <2>1. CASE Registered(g, t)
    BY <1>0, <1>8, <2>1, Zenon DEF RegisterIn
  <2>2. CASE ~Registered(g, t)
    <3>1. /\ RegisterIn(g, t) = [EvictIfNeeded(g) EXCEPT !.order = Append(@, t)]
          /\ RegisterIn(h, t) = [EvictIfNeeded(h) EXCEPT !.order = Append(@, t)]
      BY <1>8, <2>2, Zenon DEF RegisterIn
    <3>2. PICK x, y : x = EvictIfNeeded(g) /\ y = EvictIfNeeded(h)
      BY Zenon
    <3>3. Similar([x EXCEPT !.order = Append(@, t)], [y EXCEPT !.order = Append(@, t)])
      BY <1>5, <1>6, <1>7, <3>2, Zenon
    <3> QED
      BY <3>1, <3>2, <3>3, Zenon
  <2> QED
    BY <2>1, <2>2, Zenon
<1> QED
  BY <1>1, <1>9, Zenon DEF Alike

(* What a registry with another entry for a task is.                       *)
LEMMA WithEntryIs ==
  ASSUME NEW g, IsRegistry(g), NEW t \in Tasks, NEW e
  PROVE  WithEntry(g, t, e) =
           [order |-> g.order, entry |-> [u \in Tasks |-> IF u = t THEN e ELSE g.entry[u]],
            index |-> g.index]
<1>1. PICK n : n = [u \in Tasks |-> IF u = t THEN e ELSE g.entry[u]]
  BY Zenon
<1>2. WithEntry(g, t, e) = [g EXCEPT !.entry = n]
  BY <1>1, Zenon DEF WithEntry, IsRegistry
<1>3. g = [order |-> g.order, entry |-> g.entry, index |-> g.index]
  BY Zenon DEF IsRegistry
<1>4. [g EXCEPT !.entry = n] = [order |-> g.order, entry |-> n, index |-> g.index]
  BY <1>3
<1> QED
  BY <1>1, <1>2, <1>4, Zenon

(* So they start attempts alike.                                           *)
LEMMA StartsAlike ==
  ASSUME NEW g, NEW h, Alike(g, h), NEW t \in Tasks, NEW r \in TaskRuns
  PROVE  Alike(StartIn(g, t, r), StartIn(h, t, r))
<1>0. IsRegistry(g) /\ IsRegistry(h) /\ Similar(g, h)
  BY Zenon DEF Alike
<1> DEFINE history(x) == Append(x.entry[t].attempts, [run |-> r, outcome |-> "open"])
           Entry(x) == [state |-> "running", attempts |-> history(x), age |-> 0]
           Started(x) == [order |-> x.order,
                          entry |-> [u \in Tasks |-> IF u = t THEN Entry(x) ELSE x.entry[u]],
                          index |-> [x.index EXCEPT ![r] = t]]
<1>1. ASSUME NEW x, IsRegistry(x), Registered(x, t) PROVE StartIn(x, t, r) = Started(x)
  <2> HIDE DEF history
  <2>1. StartIn(x, t, r) = [WithEntry(x, t, Entry(x)) EXCEPT !.index[r] = t]
    BY <1>1, Zenon DEF StartIn, history
  <2>2. PICK e, n : /\ e = Entry(x)
                    /\ n = [u \in Tasks |-> IF u = t THEN e ELSE x.entry[u]]
    BY Zenon
  <2>3. WithEntry(x, t, e) = [order |-> x.order, entry |-> n, index |-> x.index]
    BY <1>1, <2>2, WithEntryIs, Zenon
  <2>4. StartIn(x, t, r) = [[order |-> x.order, entry |-> n, index |-> x.index]
                              EXCEPT !.index[r] = t]
    BY <2>1, <2>2, <2>3, Zenon
  <2>5. StartIn(x, t, r) = [order |-> x.order, entry |-> n, index |-> [x.index EXCEPT ![r] = t]]
    BY <2>4, Zenon
  <2> QED
    BY <2>2, <2>5, Zenon
<1>2. ASSUME NEW x, IsRegistry(x) PROVE Entry(x) \in Entries
  <2>1. x.entry[t].attempts \in Seq(Attempts)
    BY <1>2, Zenon DEF IsRegistry, Entries
  <2>2. history(x) \in Seq(Attempts)
    BY <2>1 DEF Attempts
  <2> HIDE DEF history
  <2> QED
    BY <2>2, TaskAssumption DEF Entries, TaskStates, NoBeat
<1>3. history(g) = history(h)
  BY <1>0, Zenon DEF Similar
<1>4. Entry(g) = Entry(h)
  <2> HIDE DEF history
  <2> QED
    BY <1>3, Zenon
<1>5. Entry(g) \in Entries /\ Entry(h) \in Entries
  BY <1>0, <1>2, Zenon
<1> HIDE DEF Entry
<1>6. IsRegistry(Started(g)) /\ IsRegistry(Started(h))
  BY <1>0, <1>5, Zenon DEF IsRegistry
<1>7. Similar(Started(g), Started(h))
  BY <1>0, <1>4, Zenon DEF Similar, IsRegistry
<1>8. Registered(g, t) <=> Registered(h, t)
  BY <1>0, Zenon DEF Similar, Registered
<1> HIDE DEF Started
<1>9. CASE Registered(g, t)
  BY <1>0, <1>1, <1>6, <1>7, <1>8, <1>9 DEF Alike
<1>10. CASE ~Registered(g, t)
  BY <1>8, <1>10, Zenon DEF StartIn
<1> QED
  BY <1>9, <1>10, Zenon

(* And they close them alike.                                              *)
LEMMA ClosesAlike ==
  ASSUME NEW g, NEW h, Alike(g, h), NEW t \in Tasks, NEW r \in TaskRuns,
         NEW o \in {"completed", "failed"}
  PROVE  /\ Alike(CompleteIn(g, t, r, o), CompleteIn(h, t, r, o))
         /\ \A runs : AttemptsLaunched(g, runs) => AttemptsLaunched(CompleteIn(g, t, r, o), runs)
<1>0. IsRegistry(g) /\ IsRegistry(h) /\ Similar(g, h)
  BY Zenon DEF Alike
<1> DEFINE history(x) == [i \in DOMAIN x.entry[t].attempts |->
                            IF i \in OpenAttempts(x, t, r) THEN [run |-> r, outcome |-> o]
                            ELSE x.entry[t].attempts[i]]
           Entry(x) == [state |-> o, attempts |-> history(x), age |-> x.entry[t].age]
           Closed(x) == [order |-> x.order,
                         entry |-> [u \in Tasks |-> IF u = t THEN Entry(x) ELSE x.entry[u]],
                         index |-> [x.index EXCEPT ![r] = NoTask]]
           idle(x) == ~Registered(x, t) \/ OpenAttempts(x, t, r) = {}
<1>1. ASSUME NEW x, IsRegistry(x)
      PROVE  CompleteIn(x, t, r, o) = IF idle(x) THEN x ELSE Closed(x)
  <2>1. CompleteIn(x, t, r, o) =
          IF idle(x) THEN x ELSE [WithEntry(x, t, Entry(x)) EXCEPT !.index[r] = NoTask]
    BY Zenon DEF CompleteIn
  <2> HIDE DEF Entry, idle
  <2>2. [WithEntry(x, t, Entry(x)) EXCEPT !.index[r] = NoTask] = Closed(x)
    <3>1. PICK n : n = [u \in Tasks |-> IF u = t THEN Entry(x) ELSE x.entry[u]]
      BY Zenon
    <3>2. WithEntry(x, t, Entry(x)) = [order |-> x.order, entry |-> n, index |-> x.index]
      BY <1>1, <3>1, WithEntryIs, Zenon
    <3>3. [[order |-> x.order, entry |-> n, index |-> x.index] EXCEPT !.index[r] = NoTask]
          = [order |-> x.order, entry |-> n, index |-> [x.index EXCEPT ![r] = NoTask]]
      OBVIOUS
    <3> QED
      BY <3>1, <3>2, <3>3, Zenon
  <2> QED
    BY <2>1, <2>2, Zenon
<1>2. ASSUME NEW x, IsRegistry(x)
      PROVE  /\ x.entry[t].attempts \in Seq(Attempts) /\ x.entry[t].age \in 0..NoBeat
             /\ history(x) \in Seq(Attempts) /\ DOMAIN history(x) = DOMAIN x.entry[t].attempts
             /\ \A i \in DOMAIN history(x) : history(x)[i].run = x.entry[t].attempts[i].run
             /\ Entry(x) \in Entries
  <2>1. x.entry[t].attempts \in Seq(Attempts) /\ x.entry[t].age \in 0..NoBeat
    BY <1>2, Zenon DEF IsRegistry, Entries
  <2>2. \A i \in DOMAIN x.entry[t].attempts : x.entry[t].attempts[i] \in Attempts
    BY <2>1
  <2>3. [run |-> r, outcome |-> o] \in Attempts
    BY Zenon DEF Attempts
  <2>4. /\ DOMAIN history(x) = DOMAIN x.entry[t].attempts
        /\ \A i \in DOMAIN history(x) : history(x)[i] \in Attempts
    BY <2>2, <2>3, ZenonT(30)
  <2>5. \A i \in DOMAIN history(x) : history(x)[i].run = x.entry[t].attempts[i].run
    BY DEF OpenAttempts
  <2>6. history(x) = [i \in DOMAIN x.entry[t].attempts |-> history(x)[i]]
    BY Zenon
  <2> HIDE DEF history
  <2>7. DOMAIN x.entry[t].attempts = 1..Len(x.entry[t].attempts) /\ Len(x.entry[t].attempts) \in Nat
    BY <2>1
  <2>8. history(x) \in [1..Len(x.entry[t].attempts) -> Attempts]
    BY <2>4, <2>6, <2>7, Zenon
  <2>9. history(x) \in Seq(Attempts)
    BY <2>7, <2>8
  <2> QED
    BY <2>1, <2>4, <2>5, <2>9, Zenon DEF Entries, TaskStates, LoggedStates
<1>3. g.entry[t].attempts = h.entry[t].attempts /\ g.order = h.order
  BY <1>0, Zenon DEF Similar
<1>4. OpenAttempts(g, t, r) = OpenAttempts(h, t, r)
  BY <1>3, Zenon DEF OpenAttempts
<1>5. history(g) = history(h) /\ (idle(g) <=> idle(h))
  <2>1. history(g) = history(h)
    BY <1>3, <1>4, Zenon
  <2>2. Registered(g, t) <=> Registered(h, t)
    BY <1>3, Zenon DEF Registered
  <2> QED
    BY <1>4, <2>1, <2>2, Zenon
<1>6. /\ Entry(g).state = Entry(h).state /\ Entry(g).attempts = Entry(h).attempts
      /\ Entry(g).attempts = history(g)
  <2> HIDE DEF history
  <2> QED
    BY <1>5, Zenon
<1>7. Entry(g) \in Entries /\ Entry(h) \in Entries
  BY <1>0, <1>2, Zenon
<1>8. /\ DOMAIN history(g) = DOMAIN g.entry[t].attempts
      /\ \A i \in DOMAIN history(g) : history(g)[i].run = g.entry[t].attempts[i].run
  BY <1>0, <1>2, Zenon
<1> HIDE DEF Entry, history, idle
<1>9. IsRegistry(Closed(g)) /\ IsRegistry(Closed(h))
  BY <1>0, <1>7, Zenon DEF IsRegistry
<1>10. Similar(Closed(g), Closed(h))
  BY <1>0, <1>6, Zenon DEF Similar, IsRegistry
<1>11. \A runs : AttemptsLaunched(g, runs) => AttemptsLaunched(Closed(g), runs)
  <2> SUFFICES ASSUME NEW runs, AttemptsLaunched(g, runs), NEW u \in Tasks,
                      NEW i \in DOMAIN Closed(g).entry[u].attempts
               PROVE  Closed(g).entry[u].attempts[i].run \in runs
    BY Zenon DEF AttemptsLaunched
  <2>1. Closed(g).entry[u] = IF u = t THEN Entry(g) ELSE g.entry[u]
    BY <1>0, Zenon DEF IsRegistry
  <2> HIDE DEF Closed
  <2>2. CASE u = t
    BY <1>6, <1>8, <2>1, <2>2, Zenon DEF AttemptsLaunched
  <2>3. CASE u # t
    BY <2>1, <2>3, Zenon DEF AttemptsLaunched
  <2> QED
    BY <2>2, <2>3, Zenon
<1>12. /\ CompleteIn(g, t, r, o) = IF idle(g) THEN g ELSE Closed(g)
       /\ CompleteIn(h, t, r, o) = IF idle(h) THEN h ELSE Closed(h)
  BY <1>0, <1>1, Zenon
<1> HIDE DEF Closed
<1>13. CASE idle(g)
  BY <1>5, <1>12, <1>13, Zenon
<1>14. CASE ~idle(g)
  BY <1>5, <1>9, <1>10, <1>11, <1>12, <1>14, Zenon DEF Alike
<1> QED
  BY <1>13, <1>14, Zenon

(* And they set a state alike.                                             *)
LEMMA UpdatesAlike ==
  ASSUME NEW g, NEW h, Alike(g, h), NEW t \in Tasks, NEW v \in TaskStates
  PROVE  /\ Alike(UpdateStateIn(g, t, v), UpdateStateIn(h, t, v))
         /\ \A runs : AttemptsLaunched(g, runs) => AttemptsLaunched(UpdateStateIn(g, t, v), runs)
<1>0. IsRegistry(g) /\ IsRegistry(h) /\ Similar(g, h)
  BY Zenon DEF Alike
<1> DEFINE Entry(x) == [x.entry[t] EXCEPT !.state = v]
           Moved(x) == [order |-> x.order,
                        entry |-> [u \in Tasks |-> IF u = t THEN Entry(x) ELSE x.entry[u]],
                        index |-> x.index]
<1>1. ASSUME NEW x, IsRegistry(x)
      PROVE  UpdateStateIn(x, t, v) = IF Registered(x, t) THEN Moved(x) ELSE x
  <2>1. WithEntry(x, t, Entry(x)) = Moved(x)
    BY <1>1, WithEntryIs, Zenon
  <2> QED
    BY <2>1, Zenon DEF UpdateStateIn
<1>2. ASSUME NEW x, IsRegistry(x)
      PROVE  /\ Entry(x) \in Entries /\ Entry(x).state = v
             /\ Entry(x).attempts = x.entry[t].attempts
  BY <1>2, Zenon DEF IsRegistry, Entries
<1>3. /\ Entry(g) \in Entries /\ Entry(g).state = v /\ Entry(g).attempts = g.entry[t].attempts
      /\ Entry(h) \in Entries /\ Entry(h).state = v /\ Entry(h).attempts = h.entry[t].attempts
  BY <1>0, <1>2, Zenon
<1> HIDE DEF Entry
<1>4. IsRegistry(Moved(g)) /\ IsRegistry(Moved(h))
  BY <1>0, <1>3, Zenon DEF IsRegistry
<1>5. Similar(Moved(g), Moved(h))
  BY <1>0, <1>3, Zenon DEF Similar, IsRegistry
<1>6. \A runs : AttemptsLaunched(g, runs) => AttemptsLaunched(Moved(g), runs)
  <2>1. \A u \in Tasks : Moved(g).entry[u].attempts = g.entry[u].attempts
    BY <1>0, <1>3, Zenon DEF IsRegistry
  <2> HIDE DEF Moved
  <2> QED
    BY <2>1, Zenon DEF AttemptsLaunched
<1>7. Registered(g, t) <=> Registered(h, t)
  BY <1>0, Zenon DEF Similar, Registered
<1>8. /\ UpdateStateIn(g, t, v) = IF Registered(g, t) THEN Moved(g) ELSE g
      /\ UpdateStateIn(h, t, v) = IF Registered(h, t) THEN Moved(h) ELSE h
  BY <1>0, <1>1, Zenon
<1> HIDE DEF Moved
<1> QED
  BY <1>4, <1>5, <1>6, <1>7, <1>8, Zenon DEF Alike

(* A heartbeat changes nothing but the age of an entry.                    *)
LEMMA BeatsAlike ==
  ASSUME NEW g, IsRegistry(g), NEW t \in Tasks \cup {NoTask}
  PROVE  /\ Alike(g, BeatIn(g, t))
         /\ \A runs : AttemptsLaunched(g, runs) => AttemptsLaunched(BeatIn(g, t), runs)
<1>1. CASE t \in Tasks /\ Registered(g, t)
  <2> DEFINE Entry == [g.entry[t] EXCEPT !.age = 0]
             Beaten == [order |-> g.order,
                        entry |-> [u \in Tasks |-> IF u = t THEN Entry ELSE g.entry[u]],
                        index |-> g.index]
  <2>1. WithEntry(g, t, Entry) = Beaten
    BY <1>1, WithEntryIs, Zenon
  <2>2. BeatIn(g, t) = Beaten
    BY <1>1, <2>1, TaskAssumption, Zenon DEF BeatIn
  <2>3. /\ Entry \in Entries /\ Entry.state = g.entry[t].state
        /\ Entry.attempts = g.entry[t].attempts
    <3>1. 0 \in 0..NoBeat
      BY TaskAssumption DEF NoBeat
    <3>2. g.entry[t] \in Entries
      BY <1>1, Zenon DEF IsRegistry
    <3> QED
      BY <3>1, <3>2, Zenon DEF Entries
  <2> HIDE DEF Entry
  <2>4. IsRegistry(Beaten)
    BY <1>1, <2>3, Zenon DEF IsRegistry
  <2>5. Similar(g, Beaten)
    BY <1>1, <2>3, Zenon DEF Similar, IsRegistry
  <2> HIDE DEF Beaten
  <2> QED
    BY <2>2, <2>4, <2>5, Zenon DEF Alike, Similar, AttemptsLaunched
<1>2. CASE ~(t \in Tasks /\ Registered(g, t))
  BY <1>2, Zenon DEF BeatIn, Alike, Similar
<1> QED
  BY <1>1, <1>2, Zenon

(* Registering and starting add no attempt of a run but the one started.   *)
LEMMA LaunchesKept ==
  ASSUME NEW g, IsRegistry(g), NEW t \in Tasks, NEW r \in TaskRuns, NEW runs,
         AttemptsLaunched(g, runs)
  PROVE  /\ AttemptsLaunched(RegisterIn(g, t), runs)
         /\ AttemptsLaunched(StartIn(g, t, r), runs \cup {r})
<1>1. AttemptsLaunched(RegisterIn(g, t), runs)
  <2> DEFINE terminal == TerminalIn(g.order, [u \in Tasks |-> g.entry[u].state])
             half == Len(terminal) \div 2
             gone == SubSeq(terminal, 1, IF half = 0 THEN 1 ELSE half)
             kept == [u \in Tasks |-> IF u \in Range(gone) THEN NewEntry ELSE g.entry[u]]
  <2>1. \/ EvictIfNeeded(g) = g
        \/ EvictIfNeeded(g) = [g EXCEPT !.order = Without(@, gone), !.entry = kept]
    BY ZenonT(30) DEF EvictIfNeeded
  <2> HIDE DEF gone
  <2>2. \A u \in Tasks : kept[u].attempts \in {<<>>, g.entry[u].attempts}
    BY Zenon DEF NewEntry
  <2> HIDE DEF kept
  <2>3. EvictIfNeeded(g).entry \in {g.entry, kept}
    BY <2>1, Zenon DEF IsRegistry
  <2>4. RegisterIn(g, t).entry \in {g.entry, EvictIfNeeded(g).entry}
    <3>1. PICK e : e = EvictIfNeeded(g)
      BY Zenon
    <3>2. [e EXCEPT !.order = Append(@, t)].entry = e.entry
      <4>1. DOMAIN e = {"order", "entry", "index"}
        <5>1. \A o, n, i : DOMAIN [order |-> o, entry |-> n, index |-> i] = {"order", "entry", "index"}
          BY Zenon
        <5>2. DOMAIN g = {"order", "entry", "index"}
          BY <5>1, Zenon DEF IsRegistry
        <5> QED
          BY <2>1, <3>1, <5>2, Zenon
      <4> QED
        BY <4>1, Zenon
    <3> QED
      BY <3>1, <3>2, Zenon DEF RegisterIn
  <2>5. \A u \in Tasks : RegisterIn(g, t).entry[u].attempts \in {<<>>, g.entry[u].attempts}
    BY <2>2, <2>3, <2>4, Zenon
  <2> QED
    <3> SUFFICES ASSUME NEW u \in Tasks, NEW i \in DOMAIN RegisterIn(g, t).entry[u].attempts
                 PROVE  RegisterIn(g, t).entry[u].attempts[i].run \in runs
      BY Zenon DEF AttemptsLaunched
    <3>1. CASE RegisterIn(g, t).entry[u].attempts = <<>>
      <4>1. DOMAIN <<>> = {}
        OBVIOUS
      <4> QED
        BY <3>1, <4>1, Zenon
    <3>2. CASE RegisterIn(g, t).entry[u].attempts = g.entry[u].attempts
      BY <3>2, Zenon DEF AttemptsLaunched
    <3> QED
      BY <2>5, <3>1, <3>2, Zenon
<1>2. AttemptsLaunched(StartIn(g, t, r), runs \cup {r})
  <2> DEFINE old == g.entry[t].attempts
             new == Append(old, [run |-> r, outcome |-> "open"])
  <2>1. old \in Seq(Attempts)
    BY Zenon DEF IsRegistry, Entries
  <2>2. \A i \in DOMAIN new : (i \in DOMAIN old /\ new[i] = old[i]) \/ new[i].run = r
    <3> HIDE DEF old
    <3>1. /\ Len(old) \in Nat /\ DOMAIN old = 1..Len(old) /\ DOMAIN new = 1..(Len(old) + 1)
          /\ new[Len(old) + 1] = [run |-> r, outcome |-> "open"]
          /\ \A i \in 1..Len(old) : new[i] = old[i]
      BY <2>1 DEF Attempts
    <3> QED
      BY <3>1
  <2>3. \A i \in DOMAIN new : new[i].run \in runs \cup {r}
    <3> HIDE DEF new
    <3> QED
      BY <2>2, Zenon DEF AttemptsLaunched
  <2>4. CASE Registered(g, t)
    <3>1. \A u \in Tasks : StartIn(g, t, r).entry[u].attempts = IF u = t THEN new ELSE g.entry[u].attempts
      <4> DEFINE entry == [state |-> "running", attempts |-> new, age |-> 0]
      <4>1. StartIn(g, t, r) = [WithEntry(g, t, entry) EXCEPT !.index[r] = t]
        BY <2>4, Zenon DEF StartIn
      <4> HIDE DEF new
      <4>2. entry.attempts = new
        BY Zenon
      <4> HIDE DEF entry
      <4>3. StartIn(g, t, r).entry = [u \in Tasks |-> IF u = t THEN entry ELSE g.entry[u]]
        <5>1. PICK n : n = [u \in Tasks |-> IF u = t THEN entry ELSE g.entry[u]]
          BY Zenon
        <5>2. WithEntry(g, t, entry) = [order |-> g.order, entry |-> n, index |-> g.index]
          BY <5>1, WithEntryIs, Zenon
        <5>3. StartIn(g, t, r) = [[order |-> g.order, entry |-> n, index |-> g.index]
                                    EXCEPT !.index[r] = t]
          BY <4>1, <5>2, Zenon
        <5> QED
          BY <5>1, <5>3, Zenon
      <4> QED
        BY <4>2, <4>3, Zenon
    <3> HIDE DEF new
    <3> QED
      BY <2>3, <3>1, Zenon DEF AttemptsLaunched
  <2>5. CASE ~Registered(g, t)
    BY <2>5, Zenon DEF StartIn, AttemptsLaunched
  <2> QED
    BY <2>4, <2>5, Zenon
<1> QED
  BY <1>1, <1>2, Zenon

(* Whether an event was lost is known once it is emitted.                  *)
LEMMA EmitTyped ==
  ASSUME NEW e, Emit(e)
  PROVE  ~lost /\ lost' \in BOOLEAN
<1>1. ~lost /\ (lost' = (Len(taskLog) >= MaxEvents) \/ lost' = TRUE)
  BY Zenon DEF Emit
<1>2. (Len(taskLog) >= MaxEvents) \in BOOLEAN
  OBVIOUS
<1> QED
  BY <1>1, <1>2, Zenon

(* An event that is kept is replayed last.                                 *)
LEMMA EmitKeeps ==
  ASSUME NEW e \in TaskEvents, taskLog \in Seq(TaskEvents), Emit(e), ~lost'
  PROVE  /\ taskLog' \in Seq(TaskEvents)
         /\ Replay(NewRegistry, taskLog') = ReplayEvent(Replay(NewRegistry, taskLog), e)
<1>1. taskLog' = Append(taskLog, e)
  BY Zenon DEF Emit, AppendTaskEvent
<1> QED
  BY <1>1, ReplayAppends

(* A step of the registry, its watchdog or the worker keeps the invariant. *)
LEMMA ReplayInvNext ==
  ASSUME ReplayInv, [TaskNext]_taskVars
  PROVE  ReplayInv'
<1> DEFINE g == Replay(NewRegistry, taskLog)
<1>0. restarts \in Nat /\ lost \in BOOLEAN
  BY Zenon DEF ReplayInv
<1>a. ASSUME UNCHANGED <<reg, taskLog, lost, launched, restarts>> PROVE ReplayInv'
  BY <1>a, Zenon DEF ReplayInv, Recoverable
<1>b. ASSUME NEW next, reg' = next, UNCHANGED <<taskLog, lost, launched, restarts>>,
             Recoverable => Alike(g, next) /\ AttemptsLaunched(next, launched)
      PROVE  ReplayInv'
  BY <1>b, Zenon DEF ReplayInv, Recoverable
<1>c. ASSUME NEW e \in TaskEvents, Emit(e), UNCHANGED restarts,
             Recoverable => Alike(ReplayEvent(g, e), reg') /\ AttemptsLaunched(reg', launched')
      PROVE  ReplayInv'
  <2>1. lost' \in BOOLEAN /\ ~lost
    BY <1>c, EmitTyped, Zenon
  <2>2. ASSUME ~lost', restarts = 0 PROVE Recoverable'
    <3>1. Recoverable
      BY <2>1, <2>2, Zenon DEF ReplayInv
    <3>2. taskLog' \in Seq(TaskEvents) /\ Replay(NewRegistry, taskLog') = ReplayEvent(g, e)
      BY <1>c, <2>2, <3>1, EmitKeeps, Zenon DEF Recoverable
    <3> HIDE DEF g
    <3> QED
      BY <1>c, <3>1, <3>2, Zenon DEF Recoverable
  <2> QED
    BY <1>0, <1>c, <2>1, <2>2, Zenon DEF ReplayInv
<1>d. Recoverable => /\ IsRegistry(g) /\ IsRegistry(reg) /\ Alike(g, reg) /\ Alike(reg, g)
                     /\ AttemptsLaunched(reg, launched)
  BY Zenon DEF Recoverable, Alike, Similar
<1>e. \A x, y, z : Alike(x, y) /\ Alike(y, z) => Alike(x, z)
  BY ZenonT(30) DEF Alike, Similar
<1> HIDE DEF g
<1>1. CASE UNCHANGED taskVars
  BY <1>1, <1>a, Zenon DEF taskVars
<1>2. ASSUME NEW t \in Tasks, Register(t) PROVE ReplayInv'
  <2> DEFINE e == TaskEvent("registered", t, NoRun, "pending")
  <2>1. e \in TaskEvents /\ e.kind = "registered" /\ e.task = t
    BY Zenon DEF TaskEvent, TaskEvents, TaskStates
  <2>2. reg' = RegisterIn(reg, t) /\ Emit(e) /\ UNCHANGED <<launched, restarts>>
    BY <1>2, Zenon DEF Register
  <2> HIDE DEF e
  <2>3. ReplayEvent(g, e) = RegisterIn(g, t)
    BY <2>1, Zenon DEF ReplayEvent
  <2>4. Recoverable => /\ Alike(RegisterIn(g, t), RegisterIn(reg, t))
                       /\ AttemptsLaunched(RegisterIn(reg, t), launched)
    <3>1. ASSUME Recoverable, NEW r \in TaskRuns
          PROVE  AttemptsLaunched(RegisterIn(reg, t), launched)
      BY <1>d, <3>1, LaunchesKept, Zenon
    <3>2. ASSUME Recoverable, TaskRuns = {} PROVE AttemptsLaunched(RegisterIn(reg, t), launched)
      <4>1. IsRegistry(RegisterIn(reg, t))
        BY <1>d, <3>2, RegistersTyped, Zenon
      <4>2. \A u \in Tasks : RegisterIn(reg, t).entry[u].attempts \in Seq(Attempts)
        BY <4>1, Zenon DEF IsRegistry, Entries
      <4>3. Attempts = {}
        BY <3>2, Zenon DEF Attempts
      <4> QED
        BY <4>2, <4>3 DEF AttemptsLaunched
    <3> QED
      BY <1>d, <3>1, <3>2, RegistersAlike, Zenon
  <2> QED
    BY <1>c, <2>1, <2>2, <2>3, <2>4, Zenon
<1>3. ASSUME NEW t \in Tasks, NEW r \in TaskRuns, StartAttempt(t, r) PROVE ReplayInv'
  <2> DEFINE e == TaskEvent("attempt_started", t, r, "running")
  <2>1. e \in TaskEvents /\ e.kind = "attempt_started" /\ e.task = t /\ e.run = r
    BY Zenon DEF TaskEvent, TaskEvents, TaskStates
  <2>2. /\ reg' = StartIn(reg, t, r) /\ Emit(e) /\ r \notin launched
        /\ launched' = launched \cup {r} /\ UNCHANGED restarts
    BY <1>3, Zenon DEF StartAttempt
  <2> HIDE DEF e
  <2>3. ASSUME Recoverable PROVE ReplayEvent(g, e) = StartIn(g, t, r)
    <3>1. g.entry[t].attempts = reg.entry[t].attempts
      BY <1>d, <2>3, Zenon DEF Alike, Similar
    <3>2. \A i \in DOMAIN g.entry[t].attempts : g.entry[t].attempts[i].run # r
      BY <1>d, <2>2, <2>3, <3>1, Zenon DEF AttemptsLaunched
    <3> QED
      BY <2>1, <3>2, Zenon DEF ReplayEvent
  <2>4. Recoverable => /\ Alike(StartIn(g, t, r), StartIn(reg, t, r))
                       /\ AttemptsLaunched(StartIn(reg, t, r), launched \cup {r})
    BY <1>d, StartsAlike, LaunchesKept, Zenon
  <2> QED
    BY <1>c, <2>1, <2>2, <2>3, <2>4, Zenon
<1>f. ASSUME NEW t \in Tasks, NEW r \in TaskRuns, NEW o \in {"completed", "failed"},
             NEW x, Recoverable => Alike(reg, x) /\ AttemptsLaunched(x, launched),
             reg' = CompleteIn(x, t, r, o), UNCHANGED <<launched, restarts>>,
             Emit(TaskEvent("attempt_closed", t, r, o))
      PROVE  ReplayInv'
  <2> DEFINE e == TaskEvent("attempt_closed", t, r, o)
  <2>1. e \in TaskEvents /\ e.kind = "attempt_closed" /\ e.task = t /\ e.run = r /\ e.state = o
    BY Zenon DEF TaskEvent, TaskEvents, TaskStates, LoggedStates
  <2>2. Emit(e)
    BY <1>f, Zenon
  <2> HIDE DEF e
  <2>3. ReplayEvent(g, e) = CompleteIn(g, t, r, o)
    BY <2>1, Zenon DEF ReplayEvent
  <2>4. ASSUME Recoverable
        PROVE  Alike(CompleteIn(g, t, r, o), reg') /\ AttemptsLaunched(reg', launched)
    <3>1. Alike(g, x) /\ Alike(x, x) /\ AttemptsLaunched(x, launched)
      <4>1. Alike(g, reg) /\ Alike(reg, x)
        BY <1>d, <1>f, <2>4, Zenon
      <4> QED
        BY <1>e, <1>f, <2>4, <4>1, Zenon DEF Alike, Similar
    <3>2. Alike(CompleteIn(g, t, r, o), CompleteIn(x, t, r, o))
      BY <3>1, ClosesAlike, Zenon
    <3>3. AttemptsLaunched(CompleteIn(x, t, r, o), launched)
      BY <3>1, ClosesAlike, Zenon
    <3> QED
      BY <1>f, <3>2, <3>3, Zenon
  <2> QED
    BY <1>c, <1>f, <2>1, <2>2, <2>3, <2>4, Zenon
<1>4. ASSUME NEW t \in Tasks, NEW r \in TaskRuns, NEW o \in {"completed", "failed"},
             CompleteAttempt(t, r, o)
      PROVE  ReplayInv'
  <2>1. Recoverable => Alike(reg, reg) /\ AttemptsLaunched(reg, launched)
    BY <1>d, Zenon DEF Alike, Similar
  <2> QED
    BY <1>4, <1>f, <2>1, Zenon DEF CompleteAttempt
<1>5. ASSUME NEW t \in Tasks, NEW v \in UpdateStates, UpdateState(t, v) PROVE ReplayInv'
  <2> DEFINE e == TaskEvent("state", t, NoRun, v)
  <2>0. v \in TaskStates /\ reg' = UpdateStateIn(reg, t, v) /\ UNCHANGED <<launched, restarts>>
    BY <1>5, TaskAssumption, Zenon DEF UpdateState
  <2>1. CASE v \in LoggedStates
    <3>1. e \in TaskEvents /\ e.kind = "state" /\ e.task = t /\ e.state = v
      BY <2>0, Zenon DEF TaskEvent, TaskEvents
    <3>2. Emit(e)
      BY <1>5, <2>1, Zenon DEF UpdateState
    <3> HIDE DEF e
    <3>3. ReplayEvent(g, e) = UpdateStateIn(g, t, v)
      BY <3>1, Zenon DEF ReplayEvent
    <3>4. ASSUME Recoverable
          PROVE  Alike(UpdateStateIn(g, t, v), reg') /\ AttemptsLaunched(reg', launched)
      <4>1. Alike(g, reg) /\ Alike(reg, g) /\ AttemptsLaunched(reg, launched)
        BY <1>d, <3>4, Zenon
      <4> QED
        BY <2>0, <4>1, UpdatesAlike, Zenon
    <3> QED
      BY <1>c, <2>0, <3>1, <3>2, <3>3, <3>4, Zenon
  <2>2. CASE v \notin LoggedStates
    <3>1. lost' = (lost \/ reg.entry[t].state # v) /\ UNCHANGED taskLog
      BY <1>5, <2>2, Zenon DEF UpdateState
    <3>2. ASSUME ~lost', restarts = 0 PROVE Recoverable'
      <4>1. ~lost /\ reg.entry[t].state = v /\ Recoverable
        BY <3>1, <3>2, Zenon DEF ReplayInv
      <4>2. IsRegistry(reg)
        BY <1>d, <4>1, Zenon
      <4>3. reg.entry[t] \in Entries
        BY <4>2, Zenon DEF IsRegistry
      <4>4. [reg.entry[t] EXCEPT !.state = v] = reg.entry[t]
        BY <4>1, <4>3, Zenon DEF Entries
      <4>5. WithEntry(reg, t, reg.entry[t]) = reg
        <5>1. PICK f : f = reg.entry[t]
          BY Zenon
        <5>2. [u \in Tasks |-> IF u = t THEN f ELSE reg.entry[u]] = reg.entry
          BY <4>2, <5>1, Zenon DEF IsRegistry
        <5>3. WithEntry(reg, t, f) =
                [order |-> reg.order,
                 entry |-> [u \in Tasks |-> IF u = t THEN f ELSE reg.entry[u]],
                 index |-> reg.index]
          BY <4>2, WithEntryIs, Zenon
        <5>4. WithEntry(reg, t, f) =
                [order |-> reg.order, entry |-> reg.entry, index |-> reg.index]
          BY <5>2, <5>3, Zenon
        <5> QED
          BY <4>2, <5>1, <5>4, Zenon DEF IsRegistry
      <4>6. reg' = reg
        BY <2>0, <4>4, <4>5, Zenon DEF UpdateStateIn
      <4> QED
        BY <2>0, <3>1, <4>1, <4>6, Zenon DEF Recoverable
    <3>3. lost' \in BOOLEAN
      BY <3>1, Zenon
    <3> QED
      BY <1>0, <2>0, <3>2, <3>3, Zenon DEF ReplayInv
  <2> QED
    BY <2>1, <2>2, Zenon
<1>g. ASSUME NEW t \in Tasks \cup {NoTask}, reg' = BeatIn(reg, t),
             UNCHANGED <<taskLog, lost, launched, restarts>>
      PROVE  ReplayInv'
  <2>1. ASSUME Recoverable
        PROVE  Alike(g, BeatIn(reg, t)) /\ AttemptsLaunched(BeatIn(reg, t), launched)
    <3>1. Alike(reg, BeatIn(reg, t)) /\ AttemptsLaunched(BeatIn(reg, t), launched)
      BY <1>d, <2>1, BeatsAlike, Zenon
    <3> QED
      BY <1>d, <1>e, <2>1, <3>1, Zenon
  <2> QED
    BY <1>b, <1>g, <2>1, Zenon
<1>6. ASSUME NEW t \in Tasks, TaskHeartbeat(t) PROVE ReplayInv'
  BY <1>6, <1>g, Zenon DEF TaskHeartbeat
<1>h. ASSUME ~(~lost /\ restarts = 0), lost' = lost \/ lost' = TRUE, UNCHANGED restarts
      PROVE  ReplayInv'
  BY <1>0, <1>h, Zenon DEF ReplayInv
<1>i. ASSUME NEW r \in TaskRuns, ~lost, restarts = 0 PROVE reg.index[r] \in Tasks \cup {NoTask}
  BY <1>d, <1>i, Zenon DEF ReplayInv, IsRegistry
<1>7. ASSUME NEW r \in TaskRuns, HeartbeatForRun(r) PROVE ReplayInv'
  <2>1. CASE ~lost /\ restarts = 0
    BY <1>7, <1>g, <1>i, <2>1, Zenon DEF HeartbeatForRun
  <2>2. CASE ~(~lost /\ restarts = 0)
    BY <1>7, <1>h, <2>2, Zenon DEF HeartbeatForRun
  <2> QED
    BY <2>1, <2>2, Zenon
<1>8. ASSUME NEW r \in TaskRuns, NEW o \in {"completed", "failed"}, RunEnds(r, o)
      PROVE  ReplayInv'
  <2> DEFINE t == reg.index[r]
             alive == BeatIn(reg, t)
  <2>0. /\ t # NoTask /\ reg' = CompleteIn(alive, t, r, o) /\ UNCHANGED <<launched, restarts>>
        /\ IF CompleteIn(alive, t, r, o) = alive THEN UNCHANGED <<taskLog, lost>>
           ELSE Emit(TaskEvent("attempt_closed", t, r, o))
    BY <1>8, Zenon DEF RunEnds
  <2>1. CASE ~lost /\ restarts = 0
    <3>1. t \in Tasks
      BY <1>i, <2>0, <2>1, Zenon
    <3>2. Recoverable => Alike(reg, alive) /\ AttemptsLaunched(alive, launched)
      BY <1>d, <3>1, BeatsAlike, Zenon
    <3>3. CASE CompleteIn(alive, t, r, o) = alive
      <4> HIDE DEF t
      <4> QED
        BY <1>g, <2>0, <3>1, <3>3, Zenon
    <3>4. CASE CompleteIn(alive, t, r, o) # alive
      <4> HIDE DEF t, alive
      <4> QED
        BY <1>f, <2>0, <3>1, <3>2, <3>4, Zenon
    <3> QED
      BY <3>3, <3>4, Zenon
  <2>2. CASE ~(~lost /\ restarts = 0)
    <3>1. restarts # 0 \/ lost
      BY <2>2, Zenon
    <3>2. lost' \in BOOLEAN /\ (lost => lost' = lost)
      <4> HIDE DEF t, alive
      <4>1. CASE UNCHANGED <<taskLog, lost>>
        BY <1>0, <4>1, Zenon
      <4>2. CASE Emit(TaskEvent("attempt_closed", t, r, o))
        BY <4>2, EmitTyped, Zenon
      <4> QED
        BY <2>0, <4>1, <4>2, Zenon
    <3> QED
      BY <1>0, <2>0, <3>1, <3>2 DEF ReplayInv
  <2> QED
    BY <2>1, <2>2, Zenon
<1>9. CASE TaskTick
  <2> DEFINE Older(x) == [x EXCEPT !.age = IF @ <= StallAfter THEN @ + 1 ELSE @]
             entry == [t \in Tasks |-> Older(reg.entry[t])]
             older == [reg EXCEPT !.entry = entry]
  <2>1. reg' = older /\ UNCHANGED <<taskLog, lost, launched, restarts>>
    BY <1>9, Zenon DEF TaskTick
  <2>2. ASSUME Recoverable PROVE Alike(reg, older) /\ AttemptsLaunched(older, launched)
    <3>1. IsRegistry(reg) /\ AttemptsLaunched(reg, launched)
      BY <1>d, <2>2, Zenon
    <3>2. ASSUME NEW x \in Entries
          PROVE  Older(x) \in Entries /\ Older(x).state = x.state /\ Older(x).attempts = x.attempts
      <4>1. StallAfter \in Nat /\ x.age \in 0..NoBeat /\ NoBeat = StallAfter + 2
        BY TaskAssumption, Zenon DEF Entries, NoBeat
      <4>2. (IF x.age <= StallAfter THEN x.age + 1 ELSE x.age) \in 0..NoBeat
        BY <4>1
      <4> QED
        BY <4>2, Zenon DEF Entries
    <3> HIDE DEF Older
    <3>3. /\ entry \in [Tasks -> Entries]
          /\ \A t \in Tasks : /\ entry[t].state = reg.entry[t].state
                              /\ entry[t].attempts = reg.entry[t].attempts
      BY <3>1, <3>2, Zenon DEF IsRegistry
    <3> HIDE DEF entry
    <3>4. older = [order |-> reg.order, entry |-> entry, index |-> reg.index]
      BY <3>1 DEF IsRegistry
    <3> HIDE DEF older
    <3>5. IsRegistry(older) /\ Similar(reg, older)
      BY <3>1, <3>3, <3>4, Zenon DEF IsRegistry, Similar
    <3> QED
      BY <3>1, <3>5, Zenon DEF Alike, Similar, AttemptsLaunched
  <2> HIDE DEF older
  <2>3. Recoverable => Alike(g, older) /\ AttemptsLaunched(older, launched)
    BY <1>d, <1>e, <2>2, Zenon
  <2> QED
    BY <1>b, <2>1, <2>3, Zenon
<1>10. CASE WatchdogSweep \/ StallHandled
  BY <1>10, <1>a, Zenon DEF WatchdogSweep, StallHandled
<1>11. CASE Restart
  <2>1. restarts' = restarts + 1 /\ lost' = (lost \/ Replayed(taskLog).dropped)
    BY <1>11, Zenon DEF Restart
  <2>2. restarts' \in Nat /\ restarts' # 0
    BY <1>0, <2>1
  <2>3. lost' \in BOOLEAN
    BY <2>1, Zenon
  <2> QED
    BY <2>2, <2>3, Zenon DEF ReplayInv
<1> QED
  BY <1>1, <1>2, <1>3, <1>4, <1>5, <1>6, <1>7, <1>8, <1>9, <1>10, <1>11, Zenon DEF TaskNext

(* For any tasks, runs, limits, states that are set and appender faults:   *)
(* as long as every change has its event in the log, the first replay into *)
(* a fresh registry gives the tasks, states, attempts and run index that   *)
(* were there, evictions included (replay_into_registry, TaskRegistry).    *)
THEOREM RegistryIsRecoverable == TaskSpec => []ReplayRestoresState
<1>1. TaskInit => ReplayInv
  <2> SUFFICES ASSUME TaskInit PROVE ReplayInv
    BY Zenon
  <2>1. /\ reg = NewRegistry /\ taskLog = <<>> /\ lost = FALSE /\ restarts = 0
    BY Zenon DEF TaskInit
  <2>2. NewEntry \in Entries
    BY TaskAssumption DEF NewEntry, Entries, TaskStates, NoBeat
  <2>3. IsRegistry(NewRegistry)
    BY <2>2, Zenon DEF IsRegistry, NewRegistry
  <2>4. AttemptsLaunched(NewRegistry, launched)
    <3>1. \A t \in Tasks : NewRegistry.entry[t].attempts = <<>>
      BY Zenon DEF NewRegistry, NewEntry
    <3>2. DOMAIN <<>> = {}
      OBVIOUS
    <3> QED
      BY <3>1, <3>2, Zenon DEF AttemptsLaunched
  <2>5. Replay(NewRegistry, <<>>) = NewRegistry
    BY ReplayOfNothing, Zenon
  <2>6. Recoverable
    <3>1. <<>> \in Seq(TaskEvents)
      OBVIOUS
    <3> QED
      BY <2>1, <2>3, <2>4, <2>5, <3>1, Zenon DEF Recoverable, Alike, Similar
  <2> QED
    BY <2>1, <2>6, Zenon DEF ReplayInv
<1>2. ReplayInv /\ [TaskNext]_taskVars => ReplayInv'
  BY ReplayInvNext, Zenon
<1>3. ReplayInv => ReplayRestoresState
  BY Zenon DEF ReplayInv, Recoverable, Alike, Similar, ReplayRestoresState, Durable
<1> QED
  BY <1>1, <1>2, <1>3, PTL DEF TaskSpec
=============================================================================
