---------------------------- MODULE TraceFacade ----------------------------
(***************************************************************************)
(* The TRACE state that KernelFacade keeps beside the event log            *)
(* (adapters/facade/kernel_facade.py), written by the handlers of the HTTP *)
(* service (service/http_server.py) in several facade instances of one     *)
(* deployment.                                                             *)
(*                                                                         *)
(* A write updates the registries of its own instance, awaits the signal   *)
(* to the workflow, and only then appends the trace event.  A query awaits *)
(* the trace events that its instance has not merged yet, and merges them; *)
(* queries of one instance overlap, and the loads end in any order.        *)
(* The registries of a run are dropped when the instance tracks too many   *)
(* runs, or when the run is cleaned up.  Between two awaits the event loop *)
(* of an instance runs other requests, so each action below is the code    *)
(* between two awaits.                                                     *)
(*                                                                         *)
(* Branches and stages have the same life: Nodes are both.                 *)
(* Failure codes, timestamps and the other fields of the views are not     *)
(* told apart.                                                             *)
(***************************************************************************)
EXTENDS Naturals, Sequences, Functions

CONSTANTS
    Facades,      \* facade instances, one per process
    Runs,         \* run identifiers
    Branches,     \* branch identifiers
    Stages,       \* stage identifiers
    Gates,        \* human gate references (and approval references)
    Batches,      \* what clients send in one behaviour: writes, and queries
                  \* that each may be repeated once it was answered
    MaxTracked,   \* max_tracked_runs
    TraceFaults   \* faults that happen: "signal", "append", "restart"

VARIABLES
    events,     \* trace events of each run in the event log
    views,      \* _branch_registry and _stage_registry of each instance
    gates,      \* _open_human_gates, _resolved_human_gates, _gate_resolutions
    submitted,  \* _submitted_approvals
    merged,     \* _rebuild_offsets
    tracked,    \* _tracked_run_order
    at,         \* what each write awaits
    load,       \* what each query awaits of the event log
    torn,       \* history: runs for which a write failed half-way
    raced       \* history: <<f, r>> that missed events between two queries

traceVars == <<events, views, gates, submitted, merged, tracked, at, load,
               torn, raced>>

Writes  == UNION {b.writes : b \in Batches}
Queries == UNION {b.queries : b \in Batches}

Nodes == Branches \cup Stages

NoView == "absent"

NoLoad == [busy |-> FALSE, after |-> 0, least |-> 0]

NoGates == [open |-> {}, resolved |-> {}, rejected |-> {}]

(* Of the clients: a write belongs to an instance and a run, what it opens *)
(* or changes is a node, and the states of nodes are states.               *)
ASSUME TraceAssumption ==
    /\ \A w \in Writes : w.f \in Facades /\ w.r \in Runs
    /\ \A w \in Writes : w.op \in {"open", "mark"} => w.id \in Nodes /\ w.val # NoView
    /\ \A q \in Queries : q.f \in Facades /\ q.r \in Runs

TraceInit ==
    /\ events = [r \in Runs |-> <<>>]
    /\ views = [f \in Facades |-> [r \in Runs |-> [n \in Nodes |-> NoView]]]
    /\ gates = [f \in Facades |-> [r \in Runs |-> NoGates]]
    /\ submitted = [f \in Facades |-> {}]
    /\ merged = [f \in Facades |-> [r \in Runs |-> 0]]
    /\ tracked = [f \in Facades |-> <<>>]
    /\ \E b \in Batches :
         /\ at = [w \in Writes |-> IF w \in b.writes THEN "unsent" ELSE "answered"]
         /\ load = [q \in b.queries |-> NoLoad]
    /\ torn = {}
    /\ raced = {}

(***************************************************************************)
(* Bounded tracking.  Purge(S, f, V) is a registry V of one value per run  *)
(* with the runs S of instance f reset to `empty'.                         *)
(***************************************************************************)
TouchedOrder(f, r) ==
    LET order == IF r \in Range(tracked[f]) THEN tracked[f] ELSE Append(tracked[f], r)
    IN  IF Len(order) > MaxTracked THEN Tail(order) ELSE order

Evicted(f, r) == (Range(tracked[f]) \cup {r}) \ Range(TouchedOrder(f, r))

Purge(S, registry, empty) == [r \in Runs |-> IF r \in S THEN empty ELSE registry[r]]

\* The registries of instance f after the runs S were purged from it.
PurgedViews(f, S)     == Purge(S, views[f], [n \in Nodes |-> NoView])
PurgedGates(f, S)     == Purge(S, gates[f], NoGates)
PurgedSubmitted(f, S) == {k \in submitted[f] : k[1] \notin S}

\* The part of _purge_run_state that no write of the same step touches again.
PurgeRunState(f, S) ==
    /\ merged' = [merged EXCEPT ![f] = Purge(S, @, 0)]
    /\ raced' = {x \in raced : x[1] # f \/ x[2] \notin S}

TouchRun(f, r) ==
    /\ tracked' = [tracked EXCEPT ![f] = TouchedOrder(f, r)]
    /\ PurgeRunState(f, Evicted(f, r))

(***************************************************************************)
(* Writes.                                                                 *)
(***************************************************************************)
\* A client's write: the instance it is sent to, what it does, the run, the
\* node or gate, the value.
Write(f, op, r, id, val) == [f |-> f, op |-> op, r |-> r, id |-> id, val |-> val]

\* A client's query: the instance it is sent to, the run, the client.
Query(f, r, client) == [f |-> f, r |-> r, client |-> client]

Begin(w, op) ==
    /\ w.op = op
    /\ at[w] = "unsent"

Await(w) == at' = [at EXCEPT ![w] = "signal"]

Answer(w) == at' = [at EXCEPT ![w] = "answered"]

OpenView(w) ==
    LET f    == w.f
        gone == Evicted(f, w.r)
    IN
    /\ Begin(w, "open")
    /\ TouchRun(f, w.r)
    /\ views' = [views EXCEPT ![f] = [PurgedViews(f, gone) EXCEPT ![w.r][w.id] = w.val]]
    /\ gates' = [gates EXCEPT ![f] = PurgedGates(f, gone)]
    /\ submitted' = [submitted EXCEPT ![f] = PurgedSubmitted(f, gone)]
    /\ Await(w)
    /\ UNCHANGED <<events, load, torn>>

\* A node this instance does not know raises KeyError, after the touch.
MarkView(w) ==
    LET f     == w.f
        gone  == Evicted(f, w.r)
        known == views[f][w.r][w.id] # NoView
    IN
    /\ Begin(w, "mark")
    /\ TouchRun(f, w.r)
    /\ gates' = [gates EXCEPT ![f] = PurgedGates(f, gone)]
    /\ submitted' = [submitted EXCEPT ![f] = PurgedSubmitted(f, gone)]
    /\ \/ /\ known
          /\ views' = [views EXCEPT ![f] = [PurgedViews(f, gone) EXCEPT ![w.r][w.id] = w.val]]
          /\ Await(w)
       \/ /\ ~known
          /\ views' = [views EXCEPT ![f] = PurgedViews(f, gone)]
          /\ Answer(w)
    /\ UNCHANGED <<events, load, torn>>

OpenBranch(w) == w.id \in Branches /\ OpenView(w)

OpenStage(w) == w.id \in Stages /\ OpenView(w)

MarkBranchState(w) == w.id \in Branches /\ MarkView(w)

MarkStageState(w) == w.id \in Stages /\ MarkView(w)

OpenHumanGate(w) ==
    LET f    == w.f
        gone == Evicted(f, w.r)
    IN
    /\ Begin(w, "gate")
    /\ TouchRun(f, w.r)
    /\ views' = [views EXCEPT ![f] = PurgedViews(f, gone)]
    /\ gates' = [gates EXCEPT ![f] = [PurgedGates(f, gone) EXCEPT ![w.r].open = @ \cup {w.id}]]
    /\ submitted' = [submitted EXCEPT ![f] = PurgedSubmitted(f, gone)]
    /\ Await(w)
    /\ UNCHANGED <<events, load, torn>>

\* The approval is registered, and its gate resolved, before the signal; a
\* second submission of the same approval is answered without a signal.
SubmitApproval(w) ==
    LET f     == w.f
        gone  == Evicted(f, w.r)
        again == <<w.r, w.id>> \in submitted[f]
    IN
    /\ Begin(w, "approval")
    /\ TouchRun(f, w.r)
    /\ views' = [views EXCEPT ![f] = PurgedViews(f, gone)]
    /\ submitted' = [submitted EXCEPT ![f] = PurgedSubmitted(f, gone) \cup {<<w.r, w.id>>}]
    /\ \/ /\ again
          /\ gates' = [gates EXCEPT ![f] = PurgedGates(f, gone)]
          /\ Answer(w)
       \/ /\ ~again
          /\ gates' = [gates EXCEPT ![f] = [PurgedGates(f, gone) EXCEPT
                ![w.r].resolved = @ \cup {w.id},
                ![w.r].rejected = IF w.val = "rejected" THEN @ \cup {w.id} ELSE @ \ {w.id}]]
          /\ Await(w)
    /\ UNCHANGED <<events, load, torn>>

\* No query merges the event; it only moves the offset on.
ResolveEscalation(w) ==
    LET f    == w.f
        gone == Evicted(f, w.r)
    IN
    /\ Begin(w, "escalation")
    /\ TouchRun(f, w.r)
    /\ views' = [views EXCEPT ![f] = PurgedViews(f, gone)]
    /\ gates' = [gates EXCEPT ![f] = PurgedGates(f, gone)]
    /\ submitted' = [submitted EXCEPT ![f] = PurgedSubmitted(f, gone)]
    /\ Await(w)
    /\ UNCHANGED <<events, load, torn>>

SignalDelivered(w) ==
    /\ at[w] = "signal"
    /\ at' = [at EXCEPT ![w] = "append"]
    /\ UNCHANGED <<events, views, gates, submitted, merged, tracked, load, torn, raced>>

\* The exception leaves the handler, which answers 400; the registries keep
\* what the write put there.
WriteFails(w) ==
    /\ at[w] \in TraceFaults
    /\ torn' = torn \cup {w.r}
    /\ Answer(w)
    /\ UNCHANGED <<events, views, gates, submitted, merged, tracked, load, raced>>

AppendTraceEvent(w) ==
    /\ at[w] = "append"
    /\ events' = [events EXCEPT ![w.r] = Append(@, w)]
    /\ Answer(w)
    /\ UNCHANGED <<views, gates, submitted, merged, tracked, load, torn, raced>>

(***************************************************************************)
(* Queries.                                                                *)
(***************************************************************************)
\* Mutant: an entry that is present is never changed, as the docstrings of
\* the rebuild say.
MergeViewAdditive(view, ev) ==
    IF ev.op \in {"open", "mark"} /\ view[ev.id] = NoView
    THEN [view EXCEPT ![ev.id] = ev.val]
    ELSE view

\* An entry that is present keeps its opening; its changes overwrite it.
MergeView(view, ev) ==
    CASE ev.op = "open" /\ view[ev.id] = NoView -> [view EXCEPT ![ev.id] = ev.val]
      [] ev.op = "mark" /\ view[ev.id] # NoView -> [view EXCEPT ![ev.id] = ev.val]
      [] OTHER -> view

\* The resolution of a gate is not restored.
MergeGate(gate, ev) ==
    CASE ev.op = "gate" -> [gate EXCEPT !.open = @ \cup {ev.id}]
      [] ev.op = "approval" -> [gate EXCEPT !.open = @ \cup {ev.id},
                                            !.resolved = @ \cup {ev.id}]
      [] OTHER -> gate

MergeViews(view, evs) ==
    LET after[n \in 0..Len(evs)] == IF n = 0 THEN view ELSE MergeView(after[n - 1], evs[n])
    IN  after[Len(evs)]

MergeGates(gate, evs) ==
    LET after[n \in 0..Len(evs)] == IF n = 0 THEN gate ELSE MergeGate(after[n - 1], evs[n])
    IN  after[Len(evs)]

LoadTraceEvents(q) ==
    /\ ~load[q].busy
    /\ load' = [load EXCEPT ![q] = [busy |-> TRUE, after |-> merged[q.f][q.r],
                                    least |-> Len(events[q.r])]]
    /\ UNCHANGED <<events, views, gates, submitted, merged, tracked, at, torn, raced>>

\* The log reads the events at some time after the request for them: those
\* appended meanwhile may be missing.  Where the offset was moved back
\* meanwhile, by a purge or by a query that read less, the events up to
\* `after' are not merged again.
RebuildTraceState(q) ==
    LET after == load[q].after IN
    /\ load[q].busy
    /\ \E upto \in load[q].least..Len(events[q.r]) :
         LET fresh == SubSeq(events[q.r], after + 1, upto) IN
         /\ views' = [views EXCEPT ![q.f][q.r] = MergeViews(@, fresh)]
         /\ gates' = [gates EXCEPT ![q.f][q.r] = MergeGates(@, fresh)]
         /\ merged' = [merged EXCEPT ![q.f][q.r] = upto]
    /\ raced' = IF after > merged[q.f][q.r] THEN raced \cup {<<q.f, q.r>>} ELSE raced
    /\ load' = [load EXCEPT ![q] = NoLoad]
    /\ UNCHANGED <<events, submitted, tracked, at, torn>>

CleanupCompletedRun(f, r) ==
    /\ r \in Range(tracked[f])
    /\ tracked' = [tracked EXCEPT ![f] = SelectSeq(@, LAMBDA x : x # r)]
    /\ views' = [views EXCEPT ![f] = PurgedViews(f, {r})]
    /\ gates' = [gates EXCEPT ![f] = PurgedGates(f, {r})]
    /\ submitted' = [submitted EXCEPT ![f] = PurgedSubmitted(f, {r})]
    /\ PurgeRunState(f, {r})
    /\ UNCHANGED <<events, at, load, torn>>

\* The process of an instance dies: its registries and requests are gone.
RestartInstance(f) ==
    LET mine == {w \in Writes : at[w] \in {"signal", "append"} /\ w.f = f} IN
    /\ "restart" \in TraceFaults
    /\ views' = [views EXCEPT ![f] = PurgedViews(f, Runs)]
    /\ gates' = [gates EXCEPT ![f] = PurgedGates(f, Runs)]
    /\ submitted' = [submitted EXCEPT ![f] = {}]
    /\ merged' = [merged EXCEPT ![f] = [r \in Runs |-> 0]]
    /\ tracked' = [tracked EXCEPT ![f] = <<>>]
    /\ load' = [q \in DOMAIN load |-> IF q.f = f THEN NoLoad ELSE load[q]]
    /\ at' = [w \in Writes |-> IF w \in mine THEN "answered" ELSE at[w]]
    /\ torn' = torn \cup {w.r : w \in mine}
    /\ raced' = {x \in raced : x[1] # f}
    /\ UNCHANGED <<events>>

\* review_state of the view that query_trace_runtime returns.
ReviewState(f, r) ==
    LET g == gates[f][r] IN
    CASE g.open = {} -> "not_required"
      [] ~(g.open \subseteq g.resolved) -> "requested"
      [] g.open # {} /\ g.open \subseteq g.resolved ->
            IF g.resolved \cap g.rejected # {} THEN "rejected" ELSE "approved"

TraceNext ==
    \/ \E w \in Writes :
        \/ OpenBranch(w)
        \/ OpenStage(w)
        \/ MarkBranchState(w)
        \/ MarkStageState(w)
        \/ OpenHumanGate(w)
        \/ SubmitApproval(w)
        \/ ResolveEscalation(w)
    \/ \E w \in Writes : SignalDelivered(w) \/ WriteFails(w) \/ AppendTraceEvent(w)
    \/ \E q \in DOMAIN load : LoadTraceEvents(q) \/ RebuildTraceState(q)
    \/ \E f \in Facades : RestartInstance(f)
    \/ \E f \in Facades, r \in Runs : CleanupCompletedRun(f, r)

TraceSpec == TraceInit /\ [][TraceNext]_traceVars

(***************************************************************************)
(* Properties.                                                             *)
(***************************************************************************)
Quiet(r) == \A w \in Writes : w.r = r => at[w] \notin {"signal", "append"}

\* No change of a node was appended before the opening of the node.
InOrder(r) ==
    \A i \in DOMAIN events[r] : events[r][i].op = "mark" =>
        \E j \in 1..i : events[r][j].op = "open" /\ events[r][j].id = events[r][i].id

\* No node was opened twice: an instance that opens a node again resets it,
\* and no other instance hears of that.
OpenedOnce(r) ==
    \A i, j \in DOMAIN events[r] :
        /\ events[r][i].op = "open" /\ events[r][j].op = "open"
        /\ events[r][i].id = events[r][j].id
        => i = j

\* Instances agree: once no request is at work on a run and two instances
\* have merged all its trace events, they show the same branches, stages and
\* gates, in whatever order their own updates, the appended events and their
\* queries fell, unless a write failed half-way, a node was opened twice, the
\* change of a node was appended before its opening, which every other
\* instance then ignores, or an instance missed events because its offset was
\* moved back under a query.  What they say of the review differs in nothing
\* but the verdict of a decided one: the events do not carry a rejection.
\* This needs the merge that the code makes, in which a *_state_changed event
\* overwrites an entry that is present (kernel_facade.py:330-339, 351-361),
\* and not the one of its docstrings, "entries already present in the local
\* registries are never overwritten" (298-301, 1171-1174), under which two
\* instances keep different states of one branch for good.
InstancesAgree ==
    \A r \in Runs : Quiet(r) /\ InOrder(r) /\ OpenedOnce(r) /\ r \notin torn =>
        \A f, g \in {h \in Facades : /\ merged[h][r] = Len(events[r])
                                      /\ <<h, r>> \notin raced} :
            /\ views[f][r] = views[g][r]
            /\ gates[f][r].open = gates[g][r].open
            /\ gates[f][r].resolved = gates[g][r].resolved
            /\ \/ ReviewState(f, r) = ReviewState(g, r)
               \/ {ReviewState(f, r), ReviewState(g, r)} = {"approved", "rejected"}

=============================================================================
