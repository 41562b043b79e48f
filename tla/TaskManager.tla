----------------------------- MODULE TaskManager -----------------------------
(***************************************************************************)
(* The task manager: TaskRegistry (kernel/task_manager/registry.py), the   *)
(* bounded event log it writes to, the replay of that log after a restart, *)
(* and TaskWatchdog, which listens to the runs and reports silent tasks.   *)
(*                                                                         *)
(* Every registry method runs under one lock, so each is one step; they    *)
(* are functions on the registry because the replay calls the same ones.   *)
(* consecutive_missed_beats is only ever shown, and left out.              *)
(***************************************************************************)
EXTENDS Naturals, Sequences, Functions

CONSTANTS Tasks,        \* task ids
          TaskRuns,     \* run ids of attempts (a bound: each attempt needs a new one)
          NoTask,
          NoRun,
          MaxTasks,     \* max_tasks of the registry
          MaxEvents,    \* max_events of the log
          StallAfter,   \* heartbeat_timeout_ms, in ticks
          UpdateStates, \* the states update_state is called with
          MaxRestarts,  \* bound: restarts of the worker
          TaskFaults    \* "append": the event appender may raise

TerminalTask == {"completed", "aborted", "escalated"}

(* The states that update_state has an event for, and those it has not.    *)
LoggedStates == {"restarting", "reflecting", "completed", "escalated", "aborted"}
TaskStates   == LoggedStates \cup {"pending", "running", "failed"}

ASSUME TaskAssumption ==
  /\ NoTask \notin Tasks /\ NoRun \notin TaskRuns
  /\ {MaxTasks, MaxEvents, StallAfter} \subseteq Nat \ {0}
  /\ UpdateStates \subseteq TaskStates
  /\ MaxRestarts \in Nat

VARIABLES
  reg,       \* the registry: tasks in insertion order, entries, run index
  taskLog,   \* InMemoryTaskEventLog._events
  lost,      \* a change has no event in the log (history)
  launched,  \* the runs launched so far, a new one for each attempt
  restarts,  \* restarts so far (bound)
  stalls     \* what the watchdog's sweep has still to report

taskVars == <<reg, taskLog, lost, launched, restarts, stalls>>

(* last_heartbeat_ms is kept as an age; NoBeat stands for None.            *)
NoBeat == StallAfter + 2

NewEntry == [state |-> "pending", attempts |-> <<>>, age |-> NoBeat]

NewRegistry ==
  [order |-> <<>>, entry |-> [t \in Tasks |-> NewEntry],
   index |-> [r \in TaskRuns |-> NoTask]]

Registered(g, t) == t \in Range(g.order)
-----------------------------------------------------------------------------
(* The terminal tasks in insertion order, and an order without some tasks. *)
TerminalIn(order, states) == SelectSeq(order, LAMBDA t : states[t] \in TerminalTask)
Without(order, gone)      == SelectSeq(order, LAMBDA t : t \notin Range(gone))

(* At the limit, the older half of the terminal tasks goes, at least one;  *)
(* without a terminal task the registry outgrows its limit.  The run index *)
(* keeps the runs of the evicted tasks.                                    *)
EvictIfNeeded(g) ==
  LET terminal == TerminalIn(g.order, [t \in Tasks |-> g.entry[t].state])
      half == Len(terminal) \div 2
      gone == SubSeq(terminal, 1, IF half = 0 THEN 1 ELSE half)
  IN IF Len(g.order) < MaxTasks \/ terminal = <<>> THEN g
     ELSE [g EXCEPT !.order = Without(@, gone),
                    !.entry = [t \in Tasks |-> IF t \in Range(gone) THEN NewEntry
                                               ELSE @[t]]]

(* The registry with another entry for a task.                             *)
WithEntry(g, t, e) ==
  [g EXCEPT !.entry = [u \in Tasks |-> IF u = t THEN e ELSE @[u]]]

(* register: a known id raises.                                            *)
RegisterIn(g, t) ==
  IF Registered(g, t) THEN g
  ELSE LET e == EvictIfNeeded(g) IN [e EXCEPT !.order = Append(@, t)]

(* start_attempt: an unknown task raises KeyError.                         *)
StartIn(g, t, r) ==
  IF ~Registered(g, t) THEN g
  ELSE LET attempts == Append(g.entry[t].attempts, [run |-> r, outcome |-> "open"])
           entry == [state |-> "running", attempts |-> attempts, age |-> 0]
       IN [WithEntry(g, t, entry) EXCEPT !.index[r] = t]

OpenAttempts(g, t, r) ==
  {i \in DOMAIN g.entry[t].attempts :
     g.entry[t].attempts[i] = [run |-> r, outcome |-> "open"]}

(* complete_attempt closes every open attempt of the run, wherever it is   *)
(* in the history, and moves the task to the outcome.                      *)
CompleteIn(g, t, r, outcome) ==
  IF ~Registered(g, t) \/ OpenAttempts(g, t, r) = {} THEN g
  ELSE LET closed == [run |-> r, outcome |-> outcome]
           attempts == [i \in DOMAIN g.entry[t].attempts |->
                          IF i \in OpenAttempts(g, t, r) THEN closed
                          ELSE g.entry[t].attempts[i]]
           entry == [state |-> outcome, attempts |-> attempts, age |-> g.entry[t].age]
       IN [WithEntry(g, t, entry) EXCEPT !.index[r] = NoTask]

UpdateStateIn(g, t, s) ==
  IF Registered(g, t) THEN WithEntry(g, t, [g.entry[t] EXCEPT !.state = s]) ELSE g

BeatIn(g, t) ==
  IF t # NoTask /\ Registered(g, t)
  THEN WithEntry(g, t, [g.entry[t] EXCEPT !.age = 0]) ELSE g
-----------------------------------------------------------------------------
(* append_task_event drops the oldest quarter of a full log first.         *)
AppendTaskEvent(log, e) ==
  LET quarter == MaxEvents \div 4
      drop == IF quarter = 0 THEN 1 ELSE quarter
  IN Append(IF Len(log) >= MaxEvents THEN SubSeq(log, drop + 1, Len(log)) ELSE log, e)

(* _emit swallows what the appender raises.  Bound: once a change has no   *)
(* event in the log, nothing that would be logged changes any more.        *)
Emit(e) ==
  /\ ~lost
  /\ \/ /\ taskLog' = AppendTaskEvent(taskLog, e)
        /\ lost' = (Len(taskLog) >= MaxEvents)
     \/ /\ "append" \in TaskFaults
        /\ lost' = TRUE
        /\ UNCHANGED taskLog

TaskEvent(kind, t, r, s) == [kind |-> kind, task |-> t, run |-> r, state |-> s]

(* Mutant: an attempt that is there already is started again.              *)
ReplayEventStartsAgain(g, e) ==
  CASE e.kind = "registered" -> RegisterIn(g, e.task)
    [] e.kind = "attempt_started" -> StartIn(g, e.task, e.run)
    [] e.kind = "attempt_closed" -> CompleteIn(g, e.task, e.run, e.state)
    [] e.kind = "state" -> UpdateStateIn(g, e.task, e.state)

(* One event of replay_into_registry.  An attempt that is there already is *)
(* not started again; a state is set whatever the entry says.              *)
ReplayEvent(g, e) ==
  CASE e.kind = "registered" -> RegisterIn(g, e.task)
    [] e.kind = "attempt_started" ->
         IF \E i \in DOMAIN g.entry[e.task].attempts :
              Registered(g, e.task) /\ g.entry[e.task].attempts[i].run = e.run
         THEN g ELSE StartIn(g, e.task, e.run)
    [] e.kind = "attempt_closed" -> CompleteIn(g, e.task, e.run, e.state)
    [] e.kind = "state" -> UpdateStateIn(g, e.task, e.state)

Replay(g, log) ==
  LET replayed[n \in 0..Len(log)] ==
        IF n = 0 THEN g ELSE ReplayEvent(replayed[n - 1], log[n])
  IN  replayed[Len(log)]

(* The events the registry emits while a log is replayed into it.          *)
Emits(g, e) ==
  CASE e.kind = "registered" -> ~Registered(g, e.task)
    [] e.kind = "attempt_started" -> ReplayEvent(g, e) # g
    [] e.kind = "attempt_closed" -> ReplayEvent(g, e) # g
    [] e.kind = "state" -> Registered(g, e.task)

Replayed(log) ==
  LET After(acc, e) ==
        [g       |-> ReplayEvent(acc.g, e),
         log     |-> IF Emits(acc.g, e) THEN AppendTaskEvent(acc.log, e) ELSE acc.log,
         dropped |-> acc.dropped \/ (Emits(acc.g, e) /\ Len(acc.log) >= MaxEvents)]
      replayed[n \in 0..Len(log)] ==
        IF n = 0 THEN [g |-> NewRegistry, log |-> log, dropped |-> FALSE]
        ELSE After(replayed[n - 1], log[n])
  IN  replayed[Len(log)]
-----------------------------------------------------------------------------
TaskInit ==
  /\ reg = NewRegistry
  /\ taskLog = <<>>
  /\ lost = FALSE
  /\ launched = {}
  /\ restarts = 0
  /\ stalls = <<>>

Register(t) ==
  /\ ~Registered(reg, t)
  /\ reg' = RegisterIn(reg, t)
  /\ Emit(TaskEvent("registered", t, NoRun, "pending"))
  /\ UNCHANGED <<launched, restarts, stalls>>

(* A run belongs to one attempt of one task.                               *)
StartAttempt(t, r) ==
  /\ Registered(reg, t)
  /\ r \notin launched
  /\ launched' = launched \cup {r}
  /\ reg' = StartIn(reg, t, r)
  /\ Emit(TaskEvent("attempt_started", t, r, "running"))
  /\ UNCHANGED <<restarts, stalls>>

CompleteAttempt(t, r, outcome) ==
  /\ Registered(reg, t) /\ OpenAttempts(reg, t, r) # {}
  /\ reg' = CompleteIn(reg, t, r, outcome)
  /\ Emit(TaskEvent("attempt_closed", t, r, outcome))
  /\ UNCHANGED <<launched, restarts, stalls>>

(* The watchdog's hook on the last transition of a run: a heartbeat, then  *)
(* the attempt of the run is closed.                                       *)
RunEnds(r, outcome) ==
  LET t == reg.index[r]
      alive == BeatIn(reg, t)
  IN /\ t # NoTask
     /\ reg' = CompleteIn(alive, t, r, outcome)
     /\ IF CompleteIn(alive, t, r, outcome) = alive THEN UNCHANGED <<taskLog, lost>>
        ELSE Emit(TaskEvent("attempt_closed", t, r, outcome))
     /\ UNCHANGED <<launched, restarts, stalls>>

(* Mutant: no state that is set has an event.                              *)
UpdateStateUnlogged(t, s) ==
  /\ Registered(reg, t)
  /\ reg' = UpdateStateIn(reg, t, s)
  /\ UNCHANGED <<taskLog, lost, launched, restarts, stalls>>

(* update_state takes any state; pending, running and failed have no event *)
(* in its map and are set without one.                                     *)
UpdateState(t, s) ==
  /\ Registered(reg, t)
  /\ reg' = UpdateStateIn(reg, t, s)
  /\ IF s \in LoggedStates THEN Emit(TaskEvent("state", t, NoRun, s))
     ELSE lost' = (lost \/ reg.entry[t].state # s) /\ UNCHANGED taskLog
  /\ UNCHANGED <<launched, restarts, stalls>>

TaskHeartbeat(t) ==
  /\ Registered(reg, t)
  /\ reg' = BeatIn(reg, t)
  /\ UNCHANGED <<taskLog, lost, launched, restarts, stalls>>

(* The other hooks of the watchdog: a turn or run transition, a dispatch,  *)
(* a model call, a branch result.                                          *)
HeartbeatForRun(r) ==
  /\ reg.index[r] # NoTask
  /\ reg' = BeatIn(reg, reg.index[r])
  /\ UNCHANGED <<taskLog, lost, launched, restarts, stalls>>

TaskTick ==
  /\ reg' = [reg EXCEPT !.entry = [t \in Tasks |->
               [reg.entry[t] EXCEPT !.age = IF @ <= StallAfter THEN @ + 1 ELSE @]]]
  /\ UNCHANGED <<taskLog, lost, launched, restarts, stalls>>
-----------------------------------------------------------------------------
IsStalled(t) ==
  /\ Registered(reg, t)
  /\ reg.entry[t].state \in {"running", "restarting"}
  /\ reg.entry[t].age = StallAfter + 1

CurrentRun(t) ==
  LET attempts == reg.entry[t].attempts
      last == attempts[Len(attempts)]
  IN  IF attempts = <<>> \/ last.outcome # "open" THEN NoRun ELSE last.run

(* watchdog_once takes its snapshot; a stalled task without a current run  *)
(* is passed over.                                                         *)
WatchdogSweep ==
  /\ stalls = <<>>
  /\ stalls' = SelectSeq(reg.order, LAMBDA t : IsStalled(t) /\ CurrentRun(t) # NoRun)
  /\ UNCHANGED <<reg, taskLog, lost, launched, restarts>>

(* Mutant: an error of the handler ends the sweep.                         *)
StallHandlerEndsSweep ==
  /\ stalls # <<>>
  /\ stalls' = <<>>
  /\ UNCHANGED <<reg, taskLog, lost, launched, restarts>>

(* on_stall is awaited for one task after another; its errors are caught.  *)
StallHandled ==
  /\ stalls # <<>>
  /\ stalls' = Tail(stalls)
  /\ UNCHANGED <<reg, taskLog, lost, launched, restarts>>

(* A worker restarts: a fresh registry, wired to the same log, is filled   *)
(* by replay_into_registry, and logs again what is replayed into it.       *)
Restart ==
  /\ restarts < MaxRestarts
  /\ restarts' = restarts + 1
  /\ reg' = [Replayed(taskLog).g EXCEPT !.entry = [t \in Tasks |->
               [@[t] EXCEPT !.age = IF @ = NoBeat THEN NoBeat ELSE 0]]]
  /\ taskLog' = Replayed(taskLog).log
  /\ lost' = (lost \/ Replayed(taskLog).dropped)
  /\ stalls' = <<>>
  /\ UNCHANGED launched

TaskNext ==
  \/ \E t \in Tasks :
       \/ Register(t) \/ TaskHeartbeat(t)
       \/ \E r \in TaskRuns :
            \/ StartAttempt(t, r)
            \/ \E o \in {"completed", "failed"} : CompleteAttempt(t, r, o)
       \/ \E s \in UpdateStates : UpdateState(t, s)
  \/ \E r \in TaskRuns :
       HeartbeatForRun(r) \/ \E o \in {"completed", "failed"} : RunEnds(r, o)
  \/ TaskTick \/ WatchdogSweep \/ StallHandled \/ Restart

TaskSpec == TaskInit /\ [][TaskNext]_taskVars
-----------------------------------------------------------------------------
(* What a restart must bring back of a registry: not the heartbeats.       *)
Durable(g) ==
  [order |-> g.order, index |-> g.index,
   entry |-> [t \in Tasks |-> [state |-> g.entry[t].state,
                               attempts |-> g.entry[t].attempts]]]

(* The first replay gives a fresh registry the tasks, their states, their  *)
(* attempts and the run index of the old one, evictions included, if every *)
(* change has its event in the log: none was dropped, the appender did not *)
(* raise, and no state was set that update_state has no event for ("so     *)
(* that state can be recovered after a Worker restart", TaskRegistry).     *)
ReplayRestoresState ==
  ~lost /\ restarts = 0 => Durable(Replay(NewRegistry, taskLog)) = Durable(reg)

(* What is not a state: the tasks, their attempts and the run index.       *)
History(g) ==
  [order |-> g.order, index |-> g.index,
   attempts |-> [t \in Tasks |-> g.entry[t].attempts]]

NothingEvicted ==
  \A i \in DOMAIN taskLog :
    taskLog[i].kind = "registered" => Registered(reg, taskLog[i].task)

(* Every replay, the later ones too, gives the tasks, their attempts with  *)
(* the outcomes and the run index, as long as no task was evicted: a log   *)
(* that holds an event twice, because the registry logged it again while   *)
(* it was replayed, starts no attempt twice and reopens none.  The states  *)
(* are not part of this: a later replay sets a state of the past again     *)
(* (replay_into_registry skips known attempts, but no state).              *)
ReplaysKeepAttempts ==
  ~lost /\ NothingEvicted => History(Replay(NewRegistry, taskLog)) = History(reg)

(* A running task that stays silent is reported to the stall handler,      *)
(* whatever happens to the reports of other tasks.                         *)
StallIsReported ==
  \A t \in Tasks :
    IsStalled(t) /\ reg.entry[t].state = "running"
      ~> ~IsStalled(t) \/ (stalls # <<>> /\ Head(stalls) = t)
=============================================================================
