---------------------------- MODULE KernelHealth ----------------------------
(***************************************************************************)
(* KernelSelfHeartbeat (runtime/heartbeat.py) and the KernelHealthProbe    *)
(* that aggregates its checks (runtime/health.py).  refresh probes the     *)
(* event log and then the projection, with an await each, and caches the   *)
(* two results; the checks read the cache and its age.                     *)
(***************************************************************************)
EXTENDS Naturals

CONSTANTS Probes,     \* tasks that call refresh, possibly overlapping
          StaleAge,   \* stale_age_s, in ticks
          Required    \* checks that are required for startup

Parts == {"event_log", "projection"}

ASSUME HealthAssumption == StaleAge \in Nat \ {0} /\ Required \subseteq Parts

(* Ages above the bound are not told apart.                                *)
Old == StaleAge + 1

VARIABLES
  up,       \* the components that answer now
  since,    \* ticks since each component last answered (history)
  refresh,  \* per task: where its refresh is, its start and its first result
  cache,    \* the cached status of each component
  stamp     \* age of the cache: ticks since last_refresh_at_ms; Old + 1: never

healthVars == <<up, since, refresh, cache, stamp>>

NoRefresh == [at |-> "idle", began |-> 0, log |-> "unhealthy"]

HealthInit ==
  /\ up = Parts
  /\ since = [p \in Parts |-> 0]
  /\ refresh = [f \in Probes |-> NoRefresh]
  /\ cache = [p \in Parts |-> "unhealthy"]
  /\ stamp = Old + 1

Aged(n) == IF n < Old THEN n + 1 ELSE n

HealthTick ==
  /\ since' = [p \in Parts |-> IF p \in up THEN 0 ELSE Aged(since[p])]
  /\ refresh' = [f \in Probes |->
                   IF refresh[f].at = "idle" THEN refresh[f]
                   ELSE [refresh[f] EXCEPT !.began = Aged(@)]]
  /\ stamp' = Aged(stamp)
  /\ UNCHANGED <<up, cache>>

(* A component stops or resumes answering.                                 *)
PartSwitches(p) ==
  /\ up' = IF p \in up THEN up \ {p} ELSE up \cup {p}
  /\ since' = [since EXCEPT ![p] = 0]
  /\ UNCHANGED <<refresh, cache, stamp>>

Answer(p) == IF p \in up THEN "ok" ELSE "unhealthy"

RefreshStarts(f) ==
  /\ refresh[f].at = "idle"
  /\ refresh' = [refresh EXCEPT ![f] = [NoRefresh EXCEPT !.at = "event_log"]]
  /\ UNCHANGED <<up, since, cache, stamp>>

ProbeEventLog(f) ==
  /\ refresh[f].at = "event_log"
  /\ refresh' = [refresh EXCEPT ![f] =
                   [@ EXCEPT !.at = "projection", !.log = Answer("event_log")]]
  /\ UNCHANGED <<up, since, cache, stamp>>

(* Mutant: the cache is stamped with the time it is written.               *)
ProbeProjectionStampsLate(f) ==
  /\ refresh[f].at = "projection"
  /\ cache' = [event_log |-> refresh[f].log, projection |-> Answer("projection")]
  /\ stamp' = 0
  /\ refresh' = [refresh EXCEPT ![f] = NoRefresh]
  /\ UNCHANGED <<up, since>>

(* The second answer, and both results with the time refresh started.      *)
ProbeProjection(f) ==
  /\ refresh[f].at = "projection"
  /\ cache' = [event_log |-> refresh[f].log, projection |-> Answer("projection")]
  /\ stamp' = refresh[f].began
  /\ refresh' = [refresh EXCEPT ![f] = NoRefresh]
  /\ UNCHANGED <<up, since>>

HealthNext ==
  \/ HealthTick
  \/ \E p \in Parts : PartSwitches(p)
  \/ \E f \in Probes : RefreshStarts(f) \/ ProbeEventLog(f) \/ ProbeProjection(f)

HealthSpec == HealthInit /\ [][HealthNext]_healthVars
-----------------------------------------------------------------------------
(* event_log_check and projection_check.                                   *)
Check(p) ==
  CASE stamp = Old + 1 -> "unhealthy"
    [] stamp = Old     -> "degraded"
    [] OTHER           -> cache[p]

Readiness ==
  LET statuses == {Check(p) : p \in Parts}
  IN CASE statuses = {"ok"}            -> "ok"
       [] "unhealthy" \in statuses     -> "unhealthy"
       [] OTHER                        -> "degraded"

Startup ==
  IF {Check(p) : p \in Required} \subseteq {"ok"} THEN "ok" ELSE "unhealthy"

(* A probe that says ok is true of the recent past: every component it     *)
(* covers answered within the staleness bound, however long the two awaits *)
(* of refresh took and in whatever order overlapping refreshes finish      *)
(* ("a stale check is reported as DEGRADED", KernelSelfHeartbeat).         *)
ReadinessIsRecent ==
  /\ Readiness = "ok" => \A p \in Parts : since[p] <= StaleAge
  /\ Startup = "ok" => \A p \in Required : since[p] <= StaleAge
=============================================================================
