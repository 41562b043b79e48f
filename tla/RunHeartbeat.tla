---------------------------- MODULE RunHeartbeat ----------------------------
(***************************************************************************)
(* RunHeartbeatMonitor and its HeartbeatWatchdog (runtime/heartbeat.py):   *)
(* the monitor listens to the transitions of every run; the watchdog asks  *)
(* it for silent runs and sends each a heartbeat_timeout signal.           *)
(***************************************************************************)
EXTENDS Naturals

CONSTANTS HRuns,        \* the monitored runs
          Monitored,    \* _MONITORED_STATES
          Unmonitored,  \* live states without a timeout, "ready" among them
          SilentAfter,  \* timeout_for a monitored state, in ticks
          HFaults       \* "unsent", "raised": the gateway raises before or
                        \* after it has delivered; "stop": the watchdog is stopped

Ended == {"completed", "aborted"}

ASSUME HeartbeatAssumption ==
  /\ "ready" \in Unmonitored
  /\ Monitored \cap (Unmonitored \cup Ended) = {}
  /\ SilentAfter \in Nat \ {0}

VARIABLES
  runState,  \* the lifecycle state of each run
  seen,      \* _entries: the last state and age heard of a run, or "absent"
  timedOut,  \* _timed_out
  due,       \* the runs the current sweep has still to signal
  watching,  \* the watchdog task is running
  told,      \* runs signalled in their current silence (history)
  cut        \* runs whose signal a stop of the watchdog cut off (history)

heartVars == <<runState, seen, timedOut, due, watching, told, cut>>

HeartInit ==
  /\ runState = [r \in HRuns |-> "ready"]
  /\ seen = [r \in HRuns |-> [state |-> "absent", age |-> 0]]
  /\ timedOut = {} /\ due = {}
  /\ told = {} /\ cut = {}
  /\ watching = FALSE

(* is_alive, and the test of get_timed_out_runs.                           *)
Overdue(r) == seen[r].state \in Monitored /\ seen[r].age = SilentAfter

(* The silence of a run is over.                                           *)
Heard(r) ==
  /\ timedOut' = timedOut \ {r}
  /\ told' = told \ {r} /\ cut' = cut \ {r}

(* _touch by a hook that knows no lifecycle state: a turn transition, a    *)
(* model call, a dispatch, an explicit heartbeat.  It can come late, after *)
(* the run has ended.                                                      *)
Touch(r) ==
  /\ seen' = [seen EXCEPT ![r] =
                [state |-> IF @.state = "absent" THEN "ready" ELSE @.state,
                 age |-> 0]]
  /\ Heard(r)
  /\ UNCHANGED <<runState, due, watching>>

(* on_run_lifecycle_transition: _touch with the new state, and clear at    *)
(* the end of the run.                                                     *)
OnRunLifecycleTransition(r, s) ==
  /\ runState[r] \notin Ended /\ s # runState[r]
  /\ runState' = [runState EXCEPT ![r] = s]
  /\ seen' = [seen EXCEPT ![r] =
                [state |-> IF s \in Ended THEN "absent" ELSE s, age |-> 0]]
  /\ Heard(r)
  /\ UNCHANGED <<due, watching>>

HeartTick ==
  /\ seen' = [r \in HRuns |->
                IF seen[r].state \in Monitored /\ seen[r].age < SilentAfter
                THEN [seen[r] EXCEPT !.age = @ + 1] ELSE seen[r]]
  /\ UNCHANGED <<runState, timedOut, due, watching, told, cut>>
-----------------------------------------------------------------------------
StartWatchdog ==
  /\ ~watching
  /\ watching' = TRUE
  /\ UNCHANGED <<runState, seen, timedOut, due, told, cut>>

(* stop cancels the task: the rest of a sweep is not signalled, and stays  *)
(* marked as timed out.                                                    *)
StopWatchdog ==
  /\ watching /\ "stop" \in HFaults
  /\ watching' = FALSE
  /\ due' = {}
  /\ cut' = cut \cup due
  /\ UNCHANGED <<runState, seen, timedOut, told>>

(* get_timed_out_runs marks the runs it returns.                           *)
GetTimedOutRuns ==
  LET runs == {r \in HRuns : Overdue(r)} \ timedOut
  IN /\ watching /\ due = {}
     /\ due' = runs
     /\ timedOut' = timedOut \cup runs
     /\ UNCHANGED <<runState, seen, watching, told, cut>>

Delivered(r) == told' = told \cup {r}

SignalDelivered(r) ==
  /\ r \in due
  /\ Delivered(r)
  /\ due' = due \ {r}
  /\ UNCHANGED <<runState, seen, timedOut, watching, cut>>

(* Mutant: the run stays marked although its signal was not delivered.     *)
SignalFailsForGood(r) ==
  /\ r \in due
  /\ due' = due \ {r}
  /\ UNCHANGED <<runState, seen, timedOut, watching, told, cut>>

(* The gateway raises, perhaps after the signal was delivered; the run is  *)
(* unmarked for the next sweep.                                            *)
SignalFails(r) ==
  /\ r \in due
  /\ due' = due \ {r}
  /\ timedOut' = timedOut \ {r}
  /\ \/ "unsent" \in HFaults /\ UNCHANGED told
     \/ "raised" \in HFaults /\ Delivered(r)
  /\ UNCHANGED <<runState, seen, watching, cut>>

HeartNext ==
  \/ \E r \in HRuns :
       \/ Touch(r) \/ SignalDelivered(r) \/ SignalFails(r)
       \/ \E s \in Monitored \cup Unmonitored \cup Ended :
            OnRunLifecycleTransition(r, s)
  \/ HeartTick \/ StartWatchdog \/ StopWatchdog \/ GetTimedOutRuns

HeartSpec == HeartInit /\ [][HeartNext]_heartVars
-----------------------------------------------------------------------------
(* A run that stays silent in a monitored state is sent the timeout        *)
(* signal, through failed deliveries, unless the watchdog is off or was    *)
(* stopped after it had marked the run and before it signalled it.         *)
SilentRunIsSignalled ==
  \A r \in HRuns :
    Overdue(r) ~> ~Overdue(r) \/ r \in told \/ r \in cut \/ ~watching

=============================================================================
