------------------------------ MODULE RunActor ------------------------------
(***************************************************************************)
(* The workflow of one run (substrate/temporal/run_actor_workflow.py): it  *)
(* turns signals and action commits into events of the log, decides on     *)
(* each commit once, runs a turn for a commit that carries an action, and  *)
(* records the outcome and, on a failure, the recovery decision.           *)
(*                                                                         *)
(* Handlers run as coroutines of one event loop and are split where they   *)
(* await the log, the projection, the turn engine or the recovery gate.    *)
(* A commit numbers its events itself; the log renumbers them on append,   *)
(* and the handler keeps using the number it guessed.                      *)
(***************************************************************************)
EXTENDS RunProjection, FiniteSets

CONSTANTS Deliveries,   \* calls of signal() and process_action_commit()
          Input,          \* Deliveries -> DeliveryInput
          Threshold,      \* history_event_threshold
          PinPolicy,      \* whether the run is started with policy versions
          MaxTrace,       \* bound: trace events the facade appends
          MaxDrives,      \* bound: process_action_commit calls per commit
          Faults          \* "append", "recovery": the log, the gate may fail

SignalTypes == {"resume_from_snapshot", "cancel_requested", "hard_failure",
                "timeout", "recovery_succeeded", "recovery_aborted",
                "approval_submitted", "child_run_completed", "child_spawned",
                "external_callback", "human_gate_opened"}

(* A signal names its type; a commit ("action", or "fact" for a commit     *)
(* without an action) names the type of its event.                         *)
DeliveryInput == [kind : {"signal", "action", "fact"},
                  type : SignalTypes \cup EventTypes,
                  caused_by : STRING, reason : Reasons,
                  child : SUBSET Children,   \* child_run_id of the payload
                  peer : SUBSET Children]    \* from_peer_run_id

ASSUME DeliveryAssumption ==
  /\ Input \in [Deliveries -> DeliveryInput]
  /\ \A d \in Deliveries :
       Input[d].type \in IF Input[d].kind = "signal" THEN SignalTypes ELSE EventTypes

SignalEventType(s) ==
  CASE s = "resume_from_snapshot"                  -> "run.resume_requested"
    [] s = "cancel_requested"                      -> "run.cancel_requested"
    [] s \in {"hard_failure", "recovery_aborted"}  -> "run.recovery_aborted"
    [] s = "timeout"                               -> "run.waiting_external"
    [] s = "recovery_succeeded"                    -> "run.recovery_succeeded"
    [] s = "approval_submitted"                    -> "run.approval_submitted"
    [] s = "child_run_completed"                   -> "run.child_run_completed"
    [] s = "child_spawned"                         -> "signal.child_spawned"
    [] s = "external_callback"                     -> "signal.external_callback"
    [] s = "human_gate_opened"                     -> "signal.human_gate_opened"

(* _normalize_signal_payload: the default reason of a signal.              *)
SignalReason(s, reason) ==
  CASE reason # "none"                   -> reason
    [] s = "cancel_requested"            -> "cancel"
    [] s \in {"hard_failure", "timeout"} -> "other"
    [] OTHER                             -> "none"

TurnEventType(outcome) ==
  CASE outcome = "dispatched"           -> "run.dispatching"
    [] outcome = "recovery_pending"     -> "run.recovering"
    [] outcome = "blocked"              -> "run.ready"

RecoveryEventType(mode) ==
  CASE mode = "abort"            -> "run.recovery_aborted"
    [] mode = "human_escalation" -> "run.waiting_external"
    [] OTHER                     -> "run.recovering"

VARIABLES log,       \* the events of the run
          proj,      \* the projection service's cached projection
          wf,        \* where run() is
          last,      \* _last_projection, what query() returns
          buffer,    \* signals that arrived before run()
          seen,      \* _seen_signal_tokens
          policy,    \* whether _policy_versions is set
          rounds,    \* _history_event_count
          marks,     \* fingerprints the DecisionDeduper has seen
          pc,        \* per delivery: its handler's next step or its end
          offset,    \* per delivery: the offset its commit gave its event
          path,      \* per delivery: "main", or "except" in the handler
          outcome,   \* per delivery: outcome of the turn
          before,    \* per delivery: log length before recovery.decide
          mode,      \* per delivery: what the recovery gate decided
          record,    \* per delivery: its action's dedupe record
          turns,     \* per delivery: turns run for it
          drives,    \* per delivery: process_action_commit calls
          traces     \* trace events appended so far

runVars == <<wf, last, buffer, seen, policy, rounds>>
turnVars == <<path, outcome, before, mode, record, turns>>
vars == <<log, proj, runVars, marks, pc, offset, turnVars, drives, traces>>

Ended == {"done", "dropped", "failed", "lost"}
Steps == {"get", "append", "catch_up", "decide", "turn", "append_outcome",
          "before", "recovery", "after", "append_recovery"}

Token(d) == <<Input[d].type, Input[d].caused_by>>
HasCause(d) == Input[d].caused_by # ""
CommitId(d) == IF HasCause(d) THEN Token(d) ELSE <<"seq", d>>
Fingerprint(d) == <<CommitId(d), offset[d]>>

(* An event of the log, with the delivery that appended it, if one did.    *)
Event == [type : EventTypes, reason : Reasons, child : SUBSET Children,
          diagnostic : BOOLEAN, by : SUBSET Deliveries]

Entry(type, reason, child, diagnostic, d) ==
  [type |-> type, reason |-> reason, child |-> child,
   diagnostic |-> diagnostic, by |-> d]

(* The event a delivery appends.                                           *)
EventOf(d) ==
  LET i == Input[d]
  IN  IF i.kind = "signal"
      THEN Entry(SignalEventType(i.type), SignalReason(i.type, i.reason),
                 i.child, FALSE, {d})
      ELSE Entry(i.type, i.reason, i.child, FALSE, {d})

OutcomeEvent(d) == Entry(TurnEventType(outcome[d]), "none", {}, FALSE, {d})

(* The two events of one recovery commit.                                  *)
RecoveryEvents(d) ==
  <<Entry("recovery.plan_selected", "other", {}, TRUE, {d}),
    Entry(RecoveryEventType(mode[d]), "other", {}, FALSE, {d})>>

Init ==
  /\ log = <<>>
  /\ proj = DefaultProjection
  /\ wf = "new" /\ last = DefaultProjection
  /\ buffer = <<>> /\ seen = {} /\ policy = PinPolicy /\ rounds = 0
  /\ marks = {} /\ traces = 0
  /\ pc = [d \in Deliveries |-> "undelivered"]
  /\ offset = [d \in Deliveries |-> 0]
  /\ path = [d \in Deliveries |-> "main"]
  /\ outcome = [d \in Deliveries |-> "none"]
  /\ before = [d \in Deliveries |-> 0]
  /\ mode = [d \in Deliveries |-> "none"]
  /\ record = [d \in Deliveries |-> "absent"]
  /\ turns = [d \in Deliveries |-> 0]
  /\ drives = [d \in Deliveries |-> 0]
-----------------------------------------------------------------------------
(* The workflow executes while run() is in one of these places; a closed   *)
(* or raised workflow runs no handler.                                     *)
Live == {"starting", "pinning", "draining", "running"}

Goto(d, step) == pc' = [pc EXCEPT ![d] = step]
At(d, step) == pc[d] = step /\ wf \in Live
IsSignal(d) == Input[d].kind = "signal"
InFlight(d) == pc[d] \in Steps

(* A log write that fails may or may not be durable.                       *)
LogWrite(events, ok) ==
  log' \in IF ok THEN {log \o events} ELSE {log, log \o events}
WriteResults == IF "append" \in Faults THEN {TRUE, FALSE} ELSE {TRUE}

(* The entry of _handle_signal: a peer that is no active child, and a      *)
(* token already seen, are dropped.                                        *)
Enter(d) ==
  Goto(d, IF \/ ~(Input[d].peer \subseteq last.children)
             \/ HasCause(d) /\ Token(d) \in seen
          THEN "dropped" ELSE "get")

(* signal(): before run() has set the run id the signal is buffered.       *)
Signal(d) ==
  /\ IsSignal(d) /\ pc[d] = "undelivered"
  /\ \/ /\ wf = "new"
        /\ buffer' = Append(buffer, d)
        /\ Goto(d, "buffered")
     \/ wf \in Live /\ Enter(d) /\ UNCHANGED buffer
  /\ UNCHANGED <<log, proj, wf, last, seen, policy, rounds, marks, offset,
                 turnVars, drives, traces>>

(* A driver begins to record a commit for the run.                         *)
Submit(d) ==
  /\ ~IsSignal(d) /\ At(d, "undelivered")
  /\ Goto(d, "get")
  /\ UNCHANGED <<log, proj, runVars, marks, offset, turnVars, drives, traces>>

(* The next offset is guessed from the latest projection.                  *)
GetOffset(d) ==
  /\ At(d, "get")
  /\ proj' = Latest(proj, log)
  /\ offset' = [offset EXCEPT ![d] = proj'.offset + 1]
  /\ Goto(d, "append")
  /\ UNCHANGED <<log, runVars, marks, turnVars, drives, traces>>

(* Mutant: the token is remembered before the append is known to succeed.  *)
AppendCommitMarksFirst(d) ==
  /\ At(d, "append")
  /\ \E ok \in WriteResults :
       /\ LogWrite(<<EventOf(d)>>, ok)
       /\ seen' = IF IsSignal(d) /\ HasCause(d)
                  THEN seen \cup {Token(d)} ELSE seen
       /\ Goto(d, IF ok THEN "catch_up" ELSE "failed")
       /\ drives' = [drives EXCEPT ![d] = IF ok THEN @ + 1 ELSE @]
  /\ UNCHANGED <<proj, wf, last, buffer, policy, rounds, marks, offset,
                 turnVars, traces>>

(* The commit is appended; only then is the signal's token remembered.     *)
AppendCommit(d) ==
  /\ At(d, "append")
  /\ \E ok \in WriteResults :
       /\ LogWrite(<<EventOf(d)>>, ok)
       /\ seen' = IF ok /\ IsSignal(d) /\ HasCause(d)
                  THEN seen \cup {Token(d)} ELSE seen
       /\ Goto(d, IF ok THEN "catch_up" ELSE "failed")
       /\ drives' = [drives EXCEPT ![d] = IF ok THEN @ + 1 ELSE @]
  /\ UNCHANGED <<proj, wf, last, buffer, policy, rounds, marks, offset,
                 turnVars, traces>>

(* A driver may process a commit it has appended again.                    *)
Redrive(d) ==
  /\ ~IsSignal(d) /\ pc[d] \in Ended /\ wf \in Live
  /\ drives[d] \in 1..(MaxDrives - 1)
  /\ drives' = [drives EXCEPT ![d] = @ + 1]
  /\ path' = [path EXCEPT ![d] = "main"]
  /\ Goto(d, "catch_up")
  /\ UNCHANGED <<log, proj, runVars, marks, offset, outcome, before, mode,
                 record, turns, traces>>

(* Mutants: the projection claims the guessed offset; and it is rebuilt up *)
(* to the guessed offset instead of being caught up.                       *)
CatchUpCommitClaims(d) ==
  /\ At(d, "catch_up")
  /\ proj' = [CatchUp(proj, log, offset[d]) EXCEPT !.offset = offset[d]]
  /\ last' = proj'
  /\ Goto(d, "decide")
  /\ UNCHANGED <<log, wf, buffer, seen, policy, rounds, marks, offset,
                 turnVars, drives, traces>>

(* process_action_commit catches the projection up to the guessed offset.  *)
CatchUpCommit(d) ==
  /\ At(d, "catch_up")
  /\ proj' = CatchUp(proj, log, offset[d])
  /\ last' = proj'
  /\ Goto(d, "decide")
  /\ UNCHANGED <<log, wf, buffer, seen, policy, rounds, marks, offset,
                 turnVars, drives, traces>>

(* _should_continue_as_new, with the round of this signal counted. Signals *)
(* still in _pending_signals forbid it; the drain loop has emptied that    *)
(* list into its own copy before it handles the first of them.             *)
ContinuesAsNew ==
  /\ rounds + 1 >= Threshold
  /\ buffer = <<>> \/ wf = "draining"
  /\ last.lifecycle \notin Terminal

(* The end of _handle_signal. continue_as_new starts a new workflow        *)
(* instance, which keeps nothing of this one but the run id: handlers in   *)
(* flight, and buffered signals the drain loop has not reached, are lost.  *)
SignalHandled(d) ==
  IF ContinuesAsNew
  THEN /\ wf' = "new" /\ last' = DefaultProjection
       /\ buffer' = <<>> /\ seen' = {} /\ policy' = FALSE /\ rounds' = 0
       /\ pc' = [e \in Deliveries |->
                   CASE e = d -> "done"
                     [] e # d /\ (InFlight(e) \/ pc[e] = "buffered") -> "lost"
                     [] OTHER -> pc[e]]
  ELSE /\ rounds' = rounds + 1
       /\ Goto(d, "done")
       /\ UNCHANGED <<wf, last, buffer, seen, policy>>

CommitHandled(d) ==
  IF IsSignal(d) THEN SignalHandled(d) ELSE Goto(d, "done") /\ UNCHANGED runVars

(* Mutant: the fingerprint of a commit is looked up but not marked.        *)
DecideUnmarked(d) ==
  /\ At(d, "decide")
  /\ proj' = Latest(proj, log)
  /\ LET skip == proj'.offset < offset[d] \/ Fingerprint(d) \in marks
         acts == Input[d].kind = "action" /\ ~skip
     IN  /\ turns' = [turns EXCEPT ![d] = IF acts THEN @ + 1 ELSE @]
         /\ IF acts THEN Goto(d, "turn") /\ UNCHANGED runVars
                   ELSE CommitHandled(d)
  /\ UNCHANGED <<log, marks, offset, path, outcome, before, mode, record, drives,
                 traces>>

(* Readiness and the decision dedupe; a commit with an action goes on to   *)
(* its turn.                                                               *)
Decide(d) ==
  /\ At(d, "decide")
  /\ proj' = Latest(proj, log)
  /\ LET skip == proj'.offset < offset[d] \/ Fingerprint(d) \in marks
         acts == Input[d].kind = "action" /\ ~skip
     IN  /\ marks' = IF skip THEN marks ELSE marks \cup {Fingerprint(d)}
         /\ turns' = [turns EXCEPT ![d] = IF acts THEN @ + 1 ELSE @]
         /\ IF acts THEN Goto(d, "turn") /\ UNCHANGED runVars
                   ELSE CommitHandled(d)
  /\ UNCHANGED <<log, offset, path, outcome, before, mode, record, drives,
                 traces>>

(* run_turn as TurnEngine leaves it: the outcome and the dedupe record.    *)
(* "blocked" stands for "noop" too, which is recorded in the same way.     *)
TurnResults ==
  {<<"dispatched", "acknowledged">>, <<"recovery_pending", "unknown_effect">>,
   <<"blocked", "absent">>, <<"raised", "absent">>,
   <<"raised", "dispatched">>, <<"raised", "unknown_effect">>,
   <<"raised", "acknowledged">>}

RunTurn(d) ==
  /\ At(d, "turn")
  /\ \E r \in TurnResults :
       /\ outcome' = [outcome EXCEPT ![d] = r[1]]
       /\ record' = [record EXCEPT ![d] = r[2]]
       /\ path' = [path EXCEPT ![d] = IF r[1] = "raised" THEN "except" ELSE @]
       /\ Goto(d, IF r[1] = "raised" THEN "before" ELSE "append_outcome")
  /\ UNCHANGED <<log, proj, runVars, marks, offset, before, mode, turns,
                 drives, traces>>

(* _append_turn_outcome_commit. When it raises, the dedupe record is       *)
(* rolled back, which the store refuses unless it is still dispatched.     *)
AppendOutcome(d) ==
  /\ At(d, "append_outcome")
  /\ \E ok \in WriteResults :
       /\ LogWrite(<<OutcomeEvent(d)>>, ok)
       /\ record' = [record EXCEPT ![d] =
                       IF ~ok /\ @ = "dispatched" THEN "unknown_effect" ELSE @]
       /\ path' = [path EXCEPT ![d] = IF ok THEN @ ELSE "except"]
       /\ Goto(d, IF ~ok \/ outcome[d] = "recovery_pending" THEN "before"
                  ELSE "done")
  /\ UNCHANGED <<proj, runVars, marks, offset, outcome, before, mode, turns,
                 drives, traces>>

OffsetBefore(d) ==
  /\ At(d, "before")
  /\ before' = [before EXCEPT ![d] = Len(log)]
  /\ Goto(d, "recovery")
  /\ UNCHANGED <<log, proj, runVars, marks, offset, path, outcome, mode, record,
                 turns, drives, traces>>

(* Mutant: the except block handles its own exceptions too.                *)
RecoveryRaisesAgain(d) ==
  /\ path' = [path EXCEPT ![d] = "except"]
  /\ Goto(d, "before")

(* An exception of the try block leads to the except block, one of the     *)
(* except block to the caller.                                             *)
RecoveryRaises(d) ==
  /\ path' = [path EXCEPT ![d] = "except"]
  /\ Goto(d, IF path[d] = "main" THEN "before" ELSE "failed")

(* "static_compensation" stands for "reflect_and_retry" too, which is      *)
(* recorded by the same event.                                             *)
RecoveryModes == {"static_compensation", "human_escalation", "abort"}

(* The recovery gate decides, or raises (its planner or a compensation).   *)
RecoveryDecide(d) ==
  /\ At(d, "recovery")
  /\ \/ /\ \E m \in RecoveryModes : mode' = [mode EXCEPT ![d] = m]
        /\ Goto(d, "after") /\ UNCHANGED path
     \/ /\ "recovery" \in Faults
        /\ RecoveryRaises(d) /\ UNCHANGED mode
  /\ UNCHANGED <<log, proj, runVars, marks, offset, outcome, before, record,
                 turns, drives, traces>>

(* Mutant: a log that grew ends the recovery without an exception.         *)
OffsetAfterReturns(d) ==
  /\ At(d, "after")
  /\ Goto(d, IF Len(log) = before[d] THEN "append_recovery" ELSE "done")
  /\ UNCHANGED <<log, proj, runVars, marks, offset, path, outcome, before, mode,
                 record, turns, drives, traces>>

(* _assert_recovery_gate_is_read_only: no event of the run may have been   *)
(* appended, by anyone, since the offset was read.                         *)
OffsetAfter(d) ==
  /\ At(d, "after")
  /\ \/ Len(log) = before[d] /\ Goto(d, "append_recovery") /\ UNCHANGED path
     \/ Len(log) # before[d] /\ RecoveryRaises(d)
  /\ UNCHANGED <<log, proj, runVars, marks, offset, outcome, before, mode,
                 record, turns, drives, traces>>

(* _append_recovery_event; the except block then raises the exception on.  *)
AppendRecovery(d) ==
  /\ At(d, "append_recovery")
  /\ \E ok \in WriteResults :
       /\ LogWrite(RecoveryEvents(d), ok)
       /\ IF ok
          THEN /\ Goto(d, IF path[d] = "main" THEN "done" ELSE "failed")
               /\ UNCHANGED path
          ELSE RecoveryRaises(d)
  /\ UNCHANGED <<proj, runVars, marks, offset, outcome, before, mode, record,
                 turns, drives, traces>>
-----------------------------------------------------------------------------
(* run(): set the run id, read the projection, record the policy versions, *)
(* replay the buffered signals one after the other, wait for the end.      *)
RunStarts ==
  /\ wf = "new"
  /\ wf' = "starting"
  /\ UNCHANGED <<log, proj, last, buffer, seen, policy, rounds, marks, pc, offset,
                 turnVars, drives, traces>>

RunGets ==
  /\ wf = "starting"
  /\ proj' = Latest(proj, log)
  /\ last' = proj'
  /\ wf' = IF policy THEN "pinning" ELSE "draining"
  /\ UNCHANGED <<log, buffer, seen, policy, rounds, marks, pc, offset, turnVars,
                 drives, traces>>

RunPinsPolicy ==
  /\ wf = "pinning"
  /\ \E ok \in WriteResults :
       /\ LogWrite(<<Entry("run.policy_versions_pinned", "none", {}, FALSE, {})>>, ok)
       /\ wf' = IF ok THEN "draining" ELSE "raised"
  /\ UNCHANGED <<proj, last, buffer, seen, policy, rounds, marks, pc, offset,
                 turnVars, drives, traces>>

(* The drain loop handles Head(buffer), then goes on to the next one. An   *)
(* exception of the handler is one of run().                               *)
DrainBuffer ==
  /\ wf = "draining"
  /\ \/ /\ buffer = <<>>
        /\ wf' = "running" /\ UNCHANGED <<buffer, pc>>
     \/ /\ buffer # <<>> /\ pc[Head(buffer)] = "buffered"
        /\ Enter(Head(buffer)) /\ UNCHANGED <<wf, buffer>>
     \/ /\ buffer # <<>> /\ pc[Head(buffer)] \in {"done", "dropped"}
        /\ buffer' = Tail(buffer) /\ UNCHANGED <<wf, pc>>
     \/ /\ buffer # <<>> /\ pc[Head(buffer)] = "failed"
        /\ wf' = "raised" /\ UNCHANGED <<buffer, pc>>
  /\ UNCHANGED <<log, proj, last, seen, policy, rounds, marks, offset, turnVars,
                 drives, traces>>

RunReturns ==
  /\ wf = "running" /\ last.lifecycle \in Terminal
  /\ wf' = "closed"
  /\ proj' = Latest(proj, log)
  /\ last' = proj'
  /\ UNCHANGED <<log, buffer, seen, policy, rounds, marks, pc, offset, turnVars,
                 drives, traces>>

(* The facade's _append_trace_event, on a log the workflow shares.         *)
TraceAppend ==
  /\ traces < MaxTrace
  /\ traces' = traces + 1
  /\ log' = Append(log, Entry("trace", "none", {}, FALSE, {}))
  /\ UNCHANGED <<proj, runVars, marks, pc, offset, turnVars, drives>>

HandlerStep(d) ==
  \/ GetOffset(d) \/ AppendCommit(d) \/ CatchUpCommit(d) \/ Decide(d)
  \/ RunTurn(d) \/ AppendOutcome(d) \/ OffsetBefore(d) \/ RecoveryDecide(d)
  \/ OffsetAfter(d) \/ AppendRecovery(d)

RunStep == RunStarts \/ RunGets \/ RunPinsPolicy \/ DrainBuffer \/ RunReturns

Next ==
  \/ \E d \in Deliveries : Signal(d) \/ Submit(d) \/ Redrive(d) \/ HandlerStep(d)
  \/ RunStep
  \/ TraceAppend

Spec == Init /\ [][Next]_vars

FairSpec ==
  /\ Spec
  /\ WF_vars(RunStep)
  /\ \A d \in Deliveries : WF_vars(HandlerStep(d))
-----------------------------------------------------------------------------
Final == Replay(log, Len(log))
Logged(d, types) == \E i \in 1..Len(log) : log[i].by = {d} /\ log[i].type \in types

(* What the projection service caches, and what query() returns, is the    *)
(* replay of a prefix of the log, whatever handlers caught up to whichever *)
(* guessed offsets in between.                                             *)
CachesReplayTheLog ==
  /\ proj = Replay(log, proj.offset)
  /\ last = Replay(log, last.offset)

(* No event, appended by anyone, takes a completed or aborted run out of   *)
(* that state (_resolve_projection_transition, ARCHITECTURE.md 253), and a *)
(* cancel request that is logged before any run.completed aborts the run   *)
(* for good, whatever outcomes, callbacks or recoveries surround it.       *)
TerminalIsFinal ==
  \A i \in 1..Len(log) :
    /\ Replay(log, i).lifecycle \in Terminal =>
         Final.lifecycle = Replay(log, i).lifecycle
    /\ /\ log[i].type = "run.cancel_requested"
       /\ \A j \in 1..(i - 1) : log[j].type # "run.completed"
       => Final.lifecycle = "aborted"

(* A signal dropped as a duplicate has an event of its token in the log:   *)
(* a failed append does not make the retry of the signal disappear.        *)
DroppedSignalIsLogged ==
  \A d \in Deliveries :
    pc[d] = "dropped" /\ Input[d].peer = {} =>
      \E e \in Deliveries : Token(e) = Token(d) /\ Logged(e, EventTypes)

(* However often a driver processes a commit again, whether the first      *)
(* attempt returned, raised or was lost, its action gets one turn: the     *)
(* fingerprint is marked before the turn and is never taken back.  This is *)
(* the "at-most-once semantics" of the comment on the failed append in     *)
(* process_action_commit; the same comment says that the dedupe key is     *)
(* rolled back "so the next replay does not skip re-execution", which the  *)
(* mark rules out (section 3 of the README).                               *)
OneTurnPerCommit == \A d \in Deliveries : turns[d] <= 1

(* When processing a commit returns normally and its turn ended in         *)
(* recovery_pending, the recovery decision is in the log.                  *)
RecoveryIsRecorded ==
  \A d \in Deliveries :
    /\ pc[d] = "done" /\ drives[d] = 1 /\ outcome[d] = "recovery_pending"
    => Logged(d, {RecoveryEventType(mode[d])})
       /\ Logged(d, {"recovery.plan_selected"})

(* A handler that begins, for a signal or a commit, ends, and a buffered   *)
(* signal is replayed, dropped or lost to a continue_as_new, unless the    *)
(* workflow itself stops: the except block never sends a handler round.    *)
EveryHandlerSettles ==
  \A d \in Deliveries :
    pc[d] \in {"get", "catch_up", "buffered"} ~>
      pc[d] \in Ended \/ wf \in {"raised", "closed"}

(* query(): "Return the current authoritative projection for the run."     *)
(* With no handler at work, the cached lifecycle is that of the log.       *)
QueryIsCurrent ==
  wf = "running" /\ (\A d \in Deliveries : ~InFlight(d)) =>
    last.lifecycle = Final.lifecycle

(* open_human_gate: the workflow "blocks auto-resume while review_state != *)
(* "approved"": opening a gate does not make a waiting run ready.          *)
GateBlocksResume ==
  \A i \in 1..Len(log) :
    /\ log[i].type = "signal.human_gate_opened"
    /\ Replay(log, i - 1).lifecycle = "waiting_external"
    => Replay(log, i).lifecycle # "ready"
=============================================================================
