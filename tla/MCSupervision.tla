---------------------------- MODULE MCSupervision ----------------------------
(***************************************************************************)
(* Instances of the recovery authority and of the three components that    *)
(* watch.  They share no state, so one behaviour follows one of them: part *)
(* says which, from the start.                                             *)
(*                                                                         *)
(* The task manager is followed twice.  "registry" is about its log: no    *)
(* time passes, and a behaviour ends where a change has no event, since    *)
(* what a replay gives is not promised after that.  "watchdog" is about    *)
(* time, where every change has its event, with logs of WatchedEvents at   *)
(* most: two tasks that run.                                               *)
(*                                                                         *)
(* In the instance of the recovery gate, effect class w has a compensation *)
(* handler and x has none; both runs can fail on the action ids a1 (of     *)
(* class w) and a2 (of class x).                                           *)
(***************************************************************************)
EXTENDS RecoveryGate, TaskManager, RunHeartbeat, KernelHealth, TLC

CONSTANTS w, x, a1, a2

MCClassOf == a1 :> w @@ a2 :> x

Failure(class, reason) ==
  [class |-> class, reason |-> reason, hint |-> NoClass,
   recovery_mode |-> "none", waiting |-> FALSE, action |-> a1,
   attached |-> FALSE, round |-> 0]

(* A compensation that runs, one whose action has no handler, one that is  *)
(* downgraded, a reflectable failure on its first and its last round, and  *)
(* a failure without a class in a run that was escalated before.           *)
MCInputs ==
  {[Failure(w, "effect_unknown") EXCEPT !.hint = w, !.attached = TRUE],
   [Failure(w, "effect_unknown") EXCEPT !.hint = w, !.attached = TRUE,
                                        !.action = a2],
   [Failure(w, "transient_io") EXCEPT !.hint = x],
   Failure(w, "runtime_error"),
   [Failure(w, "runtime_error") EXCEPT !.round = 1],
   [Failure(NoClass, "human_review") EXCEPT !.recovery_mode = "human_escalation"]}

VARIABLE part

watchVars == <<taskVars, heartVars, healthVars>>

vars == <<recoveryVars, watchVars, part>>

MCInit ==
  /\ part \in {"recovery", "registry", "watchdog", "runs", "kernel"}
  /\ Init /\ TaskInit /\ HeartInit /\ HealthInit

OnRecovery(A) == part = "recovery" /\ A /\ UNCHANGED <<watchVars, part>>

OnWatch(name, A, others) ==
  part = name /\ A /\ UNCHANGED <<others, recoveryVars, part>>

WatchedEvents == 4

OnTasks(A) ==
  OnWatch("watchdog", A /\ ~lost' /\ Len(taskLog') <= WatchedEvents,
          <<heartVars, healthVars>>)

OnRuns(A) == OnWatch("runs", A, <<taskVars, healthVars>>)

MCNext ==
  \/ OnRecovery(Next)
  \/ OnWatch("registry", ~lost /\ TaskNext /\ ~TaskTick, <<heartVars, healthVars>>)
  \/ OnTasks(TaskNext)
  \/ OnRuns(HeartNext)
  \/ OnWatch("kernel", HealthNext, <<taskVars, heartVars>>)

(* Fairness: time passes; the event loop resumes a decide whose call has   *)
(* returned; the loops of the two watchdogs run (that of the heartbeat     *)
(* monitor while it is on), and a signal that is sent again and again is   *)
(* delivered at some point.  Nothing forces a request, a success or a      *)
(* probe.                                                                  *)
MCSpec ==
  /\ MCInit /\ [][MCNext]_vars
  /\ WF_recoveryVars(OnRecovery(Tick))
  /\ \A r \in Runs : WF_recoveryVars(OnRecovery(DecideStep(r)))
  /\ WF_taskVars(OnTasks(TaskTick))
  /\ WF_taskVars(OnTasks(WatchdogSweep \/ StallHandled))
  /\ WF_heartVars(OnRuns(HeartTick))
  /\ WF_heartVars(OnRuns(GetTimedOutRuns))
  /\ \A r \in HRuns : /\ WF_heartVars(OnRuns(SignalDelivered(r) \/ SignalFails(r)))
                      /\ SF_heartVars(OnRuns(SignalDelivered(r)))
=============================================================================
