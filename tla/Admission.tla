------------------------------ MODULE Admission ------------------------------
(***************************************************************************)
(* The admission service of a worker (kernel/admission): five rules asked  *)
(* in order, of which the last keeps a sliding window per run.  The policy *)
(* a snapshot refers to may live in a file, read again for every action.   *)
(***************************************************************************)
EXTENDS Integers, Sequences, FiniteSetsExt

CONSTANTS
  Actions,              \* the actions asked about, with what their snapshot says
  DefaultPolicy,        \* the policy behind "policy:default"
  FilePolicies,         \* what the policy file may hold
  WindowLength,         \* the sixty seconds of the window
  MaxClock              \* bound: the last instant of a behaviour

ASSUME AdmissionAssumption ==
  /\ WindowLength \in Nat
  /\ \A p \in FilePolicies \cup {DefaultPolicy} : p.perMinute \in Int

VARIABLES
  clock,                \* time.monotonic() of the worker
  policyFile,           \* the policy in the file, or NoPolicy
  rateWindows,          \* _rate_windows: the instants of admission per run
  granted,              \* history: every admission, as <<run, instant>>
  answer                \* the last answer, the limit it was given under, its instant

admissionVars == <<clock, policyFile, rateWindows, granted, answer>>

NoPolicy == [tier |-> 0, remoteWrites |-> FALSE, perMinute |-> -1]

AdmissionRuns == {a.run : a \in Actions}

AdmissionInit ==
  /\ clock = 0
  /\ policyFile \in FilePolicies
  /\ rateWindows = [r \in AdmissionRuns |-> <<>>]
  /\ granted = <<>>
  /\ answer = [run |-> "none", reason |-> "none", limit |-> 0, at |-> 0]
-----------------------------------------------------------------------------
(* PolicyResolutionError leaves the caller without an answer: NoPolicy.    *)
ResolvePolicy(ref) ==
  CASE ref = "policy:default" -> DefaultPolicy
    [] ref = "file"           -> policyFile
    [] OTHER                  -> NoPolicy

PermissionModeAllows(a) == a.readonly => a.type \in {"noop", "read"}

(* An empty list of peers means that every peer may be signalled.          *)
BindingExists(a) ==
  \/ a.target \in a.bindings \cup {"unnamed"}
  \/ a.type \notin {"tool_call", "mcp_call", "peer_signal"}
  \/ (a.type = "peer_signal" /\ a.bindings = {})

IdempotencyAllows(a, policy) ==
  \/ policy.remoteWrites
  \/ a.idempotent
  \/ a.effect \notin {"remote_write", "irreversible_write"}

RiskTierAllows(a, policy) == a.tier <= policy.tier

(* Mutant: an admission that is exactly one window old no longer counts.   *)
RecentDropsBoundary(window) ==
  LET kept == {i \in DOMAIN window : window[i] > clock - WindowLength}
  IN  IF kept = {} THEN <<>> ELSE SubSeq(window, Min(kept), Len(window))

(* What is left of a window once its old head has been popped.             *)
Recent(window) ==
  LET kept == {i \in DOMAIN window : window[i] >= clock - WindowLength}
  IN  IF kept = {} THEN <<>> ELSE SubSeq(window, Min(kept), Len(window))

RateLimitAllows(a, policy) == Len(Recent(rateWindows[a.run])) < policy.perMinute

(* The reason of the first rule that denies.                               *)
Reason(a, policy) ==
  CASE ~PermissionModeAllows(a)      -> "permission_denied"
    [] PermissionModeAllows(a)
         /\ ~(BindingExists(a) /\ IdempotencyAllows(a, policy) /\ RiskTierAllows(a, policy))
                                     -> "policy_denied"
    [] OTHER -> IF RateLimitAllows(a, policy) THEN "ok" ELSE "quota_exceeded"

(* The window of a run is trimmed by the fifth rule alone, and records the *)
(* action when that rule lets it pass.                                     *)
Admit(a) ==
  LET policy == ResolvePolicy(a.ref)
      reason == Reason(a, policy)
  IN  /\ policy # NoPolicy
      /\ answer' = [run |-> a.run, reason |-> reason, limit |-> policy.perMinute, at |-> clock]
      /\ rateWindows' = [rateWindows EXCEPT ![a.run] =
           CASE reason = "ok"             -> Append(Recent(@), clock)
             [] reason = "quota_exceeded" -> Recent(@)
             [] OTHER                     -> @]
      /\ granted' = IF reason = "ok" THEN Append(granted, <<a.run, clock>>) ELSE granted
      /\ UNCHANGED <<clock, policyFile>>

(* Unreadable or unknown policies raise before any rule is asked.          *)
AdmitRaises(a) ==
  /\ ResolvePolicy(a.ref) = NoPolicy
  /\ answer' = [run |-> a.run, reason |-> "raised", limit |-> 0, at |-> clock]
  /\ UNCHANGED <<clock, policyFile, rateWindows, granted>>

(* The operator rewrites the policy file between two actions.              *)
EditPolicyFile ==
  /\ \E p \in FilePolicies \cup {NoPolicy} : policyFile' = p
  /\ UNCHANGED <<clock, rateWindows, granted, answer>>

AdmissionTick ==
  /\ clock < MaxClock
  /\ clock' = clock + 1
  /\ UNCHANGED <<policyFile, rateWindows, granted, answer>>

AdmissionNext ==
  \/ \E a \in Actions : Admit(a) \/ AdmitRaises(a)
  \/ EditPolicyFile
  \/ AdmissionTick

AdmissionSpec == AdmissionInit /\ [][AdmissionNext]_admissionVars
-----------------------------------------------------------------------------
GrantedWithin(run, from, to) ==
  Cardinality({i \in DOMAIN granted : granted[i][1] = run /\ granted[i][2] \in from..to})

(* The quota is exact, whatever the policy file said in between: an action *)
(* is admitted only when it and the admissions of its run in the closed    *)
(* window before it stay within the limit then in force, and refused for   *)
(* its quota only when that window was full.  So an action that a rule     *)
(* denied, or for which no policy could be read, has used up nothing       *)
(* (_check_rate_limit, and its place after the other four rules).          *)
QuotaIsExact ==
  LET used == GrantedWithin(answer.run, answer.at - WindowLength, answer.at)
  IN  /\ answer.reason = "ok" => used <= answer.limit
      /\ answer.reason = "quota_exceeded" => used >= answer.limit
=============================================================================
