---------------------------- MODULE RunProjection ----------------------------
(***************************************************************************)
(* The decision projection of one run (kernel/minimal_runtime.py): the     *)
(* state of the run as a function of its event log.  An event is replayed  *)
(* by Apply; an event of authority derived_diagnostic is not replayed and  *)
(* does not move the projected offset.                                     *)
(***************************************************************************)
EXTENDS Naturals, Sequences

CONSTANT Children             \* run ids of child runs

Lifecycles == {"created", "ready", "dispatching", "recovering",
               "waiting_external", "completed", "aborted"}
Terminal == {"completed", "aborted"}
Modes == {"none", "static_compensation", "human_escalation", "abort"}

(* A reason is "none", one that contains the word cancel, or another text. *)
Reasons == {"none", "cancel", "other"}

(* The event types the projection tells apart, one for each way it treats  *)
(* them: signal.human_gate_opened stands for every signal.* type that is   *)
(* neither a callback nor about a child, and the types that leave the      *)
(* lifecycle alone are told apart only as far as a property names them.    *)
StaticTypes == {"run.created", "run.ready", "run.resume_requested",
                "run.recovery_succeeded", "run.recovery_aborted",
                "run.waiting_external", "run.dispatching", "run.recovering",
                "run.completed", "run.aborted"}
ChildTypes == {"signal.child_spawned", "run.child_run_completed"}
CallbackTypes == {"signal.external_callback"}
SignalTypesOfNoChild == CallbackTypes \cup {"signal.human_gate_opened"}
OtherTypes == {"run.cancel_requested", "reconcile.failed",
               "run.approval_submitted", "run.policy_versions_pinned",
               "action_committed", "trace", "recovery.plan_selected"}
EventTypes == StaticTypes \cup ChildTypes \cup SignalTypesOfNoChild \cup OtherTypes

Projection == [lifecycle : Lifecycles, offset : Nat, waiting : BOOLEAN,
               ready : BOOLEAN, mode : Modes, reason : Reasons,
               children : SUBSET Children]

DefaultProjection ==
  [lifecycle |-> "created", offset |-> 0, waiting |-> FALSE, ready |-> FALSE,
   mode |-> "none", reason |-> "none", children |-> {}]
-----------------------------------------------------------------------------
(* Operational precedence: Cancel > HardFailure > Timeout >                *)
(* ExternalCallback; 0 where there is no operational class.                *)
EventRank(type) ==
  CASE type = "run.cancel_requested"                      -> 4
    [] type \in {"run.recovery_aborted", "run.aborted"}   -> 3
    [] type \in {"run.waiting_external", "reconcile.failed"} -> 2
    [] type \in CallbackTypes                             -> 1
    [] OTHER                                              -> 0

ProjectionRank(p) ==
  CASE p.lifecycle = "aborted" /\ p.reason = "cancel" -> 4
    [] p.lifecycle = "aborted" /\ p.reason # "cancel" -> 3
    [] p.lifecycle = "waiting_external"               -> 2
    [] OTHER                                          -> 0

LowerPriority(p, type) ==
  /\ EventRank(type) # 0 /\ ProjectionRank(p) # 0
  /\ EventRank(type) < ProjectionRank(p)

(* Mutant: an aborted run is reopened by a recovery.                       *)
BlockedUnlessRecovering(p, type) ==
  \/ p.lifecycle = "completed"
  \/ LowerPriority(p, type)
  \/ p.lifecycle = "aborted" /\ type \notin {"run.cancel_requested", "run.recovering"}

Blocked(p, type) ==
  \/ p.lifecycle = "completed"
  \/ LowerPriority(p, type)
  \/ p.lifecycle = "aborted" /\ type # "run.cancel_requested"

(* Where an event type takes the lifecycle; a type that is in no row       *)
(* leaves it where it is.                                                  *)
TargetOf(type) ==
  CASE type = "run.created"                                  -> "created"
    [] type \in {"run.ready", "run.recovery_succeeded"}      -> "ready"
    [] type \in {"run.resume_requested", "run.recovering"}   -> "recovering"
    [] type \in {"run.waiting_external", "reconcile.failed"} -> "waiting_external"
    [] type = "run.dispatching"                              -> "dispatching"
    [] type = "run.completed"                                -> "completed"
    [] type \in {"run.recovery_aborted", "run.aborted",
                 "run.cancel_requested"}                     -> "aborted"
    [] type \in SignalTypesOfNoChild                         -> "ready"
    [] OTHER                                                 -> "unchanged"

ModeOf(lifecycle) ==
  CASE lifecycle = "recovering"       -> "static_compensation"
    [] lifecycle = "waiting_external" -> "human_escalation"
    [] lifecycle = "aborted"          -> "abort"
    [] OTHER                          -> "none"

(* _derive_recovery_reason and _derive_cancel_reason; a dynamic signal     *)
(* transition keeps the reason.                                            *)
ReasonAfter(p, e) ==
  CASE e.type \in SignalTypesOfNoChild                          -> p.reason
    [] e.reason # "none"                                        -> e.reason
    [] e.type \in {"run.ready", "run.completed", "run.created"} -> "none"
    [] e.type = "run.cancel_requested" /\ p.reason = "none"     -> "cancel"
    [] OTHER                                                    -> p.reason

ChildrenAfter(p, e) ==
  IF p.lifecycle \in Terminal THEN p.children
  ELSE CASE e.type = "signal.child_spawned"     -> p.children \cup e.child
         [] e.type = "run.child_run_completed"  -> p.children \ e.child
         [] OTHER                               -> p.children

(* _apply_projection_event for the event at offset n.                      *)
Apply(p, e, n) ==
  LET target == TargetOf(e.type)
  IN  IF Blocked(p, e.type) \/ target = "unchanged"
      THEN [p EXCEPT !.offset = n, !.children = ChildrenAfter(p, e)]
      ELSE [lifecycle |-> target, offset |-> n,
            waiting |-> (target = "waiting_external"),
            ready |-> (target \in {"ready", "dispatching"}),
            mode |-> ModeOf(target), reason |-> ReasonAfter(p, e),
            children |-> ChildrenAfter(p, e)]

(* The projection that the unseen events of the log lead to, after each   *)
(* of them.                                                                *)
Reached(p, log) ==
  LET reached[n \in 0..Len(log)] ==
        IF n <= p.offset THEN p
        ELSE IF log[n].diagnostic THEN reached[n - 1]
        ELSE Apply(reached[n - 1], log[n], n)
  IN  reached

(* catch_up(through): replay the unseen events up to an offset.            *)
CatchUp(p, log, through) ==
  Reached(p, log)[IF through < Len(log) THEN through ELSE Len(log)]

(* get: replay every event; the reference the caches are compared with.    *)
Latest(p, log) == CatchUp(p, log, Len(log))

Replay(log, through) == CatchUp(DefaultProjection, log, through)
=============================================================================
