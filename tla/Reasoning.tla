------------------------------ MODULE Reasoning ------------------------------
(***************************************************************************)
(* The reasoning of turns: assemble a context, ask the model, turn its     *)
(* answer into actions (reasoning_loop.py, kernel/cognitive).  A provider  *)
(* that limits the rate is asked again, after the time it named or after a *)
(* delay that doubles, and only so many times.  Cycles share no state.  A  *)
(* request is one call of the provider's SDK client, whose own retries     *)
(* within that call are not counted; what an answer says is abstracted to  *)
(* whether the parser finds actions in it.                                 *)
(***************************************************************************)
EXTENDS Integers

CONSTANTS
  Cycles,               \* reasoning cycles, one turn each
  MaxRetries,           \* _MAX_RETRIES
  BaseDelay,            \* _RETRY_BASE_DELAY_S
  RetryAfter,           \* Retry-After headers in seconds
  ReasoningFaults,      \* subset of {"context", "provider", "cancel"}
  MaxMoment             \* bound: the last instant

ASSUME RetryAssumption ==
  /\ MaxRetries \in Nat \ {0} /\ BaseDelay \in Nat /\ MaxMoment \in Nat
  /\ RetryAfter \subseteq Nat

VARIABLES
  moment,               \* the clock
  step,                 \* where each cycle is
  attempt, backoff,     \* the local variables of _with_rate_limit_retry
  wake,                 \* when its sleep ends
  requests,             \* history: requests sent to the provider
  limits,               \* history: instants and headers of the 429 answers
  sentAt                \* history: the instant of the last request

reasonVars ==
  <<moment, step, attempt, backoff, wake, requests, limits, sentAt>>

NoHeader   == -1
DateHeader == -2        \* a Retry-After header that holds an HTTP date

Headers == RetryAfter \cup {NoHeader, DateHeader}

ReasonInit ==
  /\ moment = 0
  /\ step = [i \in Cycles |-> "new"]
  /\ attempt = [i \in Cycles |-> 0]
  /\ backoff = [i \in Cycles |-> BaseDelay]
  /\ wake = [i \in Cycles |-> 0]
  /\ requests = [i \in Cycles |-> 0]
  /\ limits = [i \in Cycles |-> {}]
  /\ sentAt = [i \in Cycles |-> 0]

Goes(i, s) == step' = [step EXCEPT ![i] = s]
-----------------------------------------------------------------------------
SendRequest(i) ==
  /\ Goes(i, "waiting")
  /\ requests' = [requests EXCEPT ![i] = @ + 1]
  /\ sentAt' = [sentAt EXCEPT ![i] = moment]

(* The context is assembled, unless the caller brought one, and the first  *)
(* request is sent.                                                        *)
AssembleContext(i) ==
  /\ step[i] = "new"
  /\ SendRequest(i)
  /\ UNCHANGED <<moment, attempt, backoff, wake, limits>>

AssembleFails(i) ==
  /\ "context" \in ReasoningFaults
  /\ step[i] = "new"
  /\ Goes(i, "noop")
  /\ UNCHANGED <<moment, attempt, backoff, wake, requests, limits, sentAt>>

(* Only a number of seconds is understood: a header that holds a date is   *)
(* read as no header, although the docstring says that the function        *)
(* "supports both integer-seconds and HTTP-date formats".                  *)
ParseRetryAfter(header) == IF header \in RetryAfter THEN header ELSE NoHeader

(* Mutant: the header is read and not used.                                *)
SleepForBackoff(i, header) == backoff[i]

SleepFor(i, header) ==
  IF ParseRetryAfter(header) # NoHeader THEN ParseRetryAfter(header) ELSE backoff[i]

(* The last attempt raises; the turn that asked degrades to a noop.        *)
RateLimited(i, header) ==
  /\ step[i] = "waiting"
  /\ limits' = [limits EXCEPT ![i] = @ \cup {<<attempt[i], moment, header>>}]
  /\ IF attempt[i] < MaxRetries - 1
       THEN Goes(i, "sleeping")
              /\ wake' = [wake EXCEPT ![i] = moment + SleepFor(i, header)]
       ELSE Goes(i, "noop") /\ UNCHANGED wake
  /\ UNCHANGED <<moment, attempt, backoff, requests, sentAt>>

(* asyncio.sleep returns: the delay doubles, the request is sent again.    *)
RetryRequest(i) ==
  /\ step[i] = "sleeping" /\ moment >= wake[i]
  /\ attempt' = [attempt EXCEPT ![i] = @ + 1]
  /\ backoff' = [backoff EXCEPT ![i] = 2 * @]
  /\ SendRequest(i)
  /\ UNCHANGED <<moment, wake, limits>>

ProviderFails(i) ==
  /\ "provider" \in ReasoningFaults
  /\ step[i] = "waiting"
  /\ Goes(i, "noop")
  /\ UNCHANGED <<moment, attempt, backoff, wake, requests, limits, sentAt>>

(* The parser finds actions in the answer or none; the hook is told, its   *)
(* errors are dropped, and the turn goes on with the actions or as a noop. *)
ModelAnswers(i, outcome) ==
  /\ step[i] = "waiting"
  /\ Goes(i, outcome)
  /\ UNCHANGED <<moment, attempt, backoff, wake, requests, limits, sentAt>>

(* The timeout of the phase, or of the activity, cancels a cycle wherever  *)
(* it waits.                                                               *)
CycleCancelled(i) ==
  /\ "cancel" \in ReasoningFaults
  /\ step[i] \in {"waiting", "sleeping"}
  /\ Goes(i, "cancelled")
  /\ UNCHANGED <<moment, attempt, backoff, wake, requests, limits, sentAt>>

ReasonTick ==
  /\ moment < MaxMoment
  /\ moment' = moment + 1
  /\ UNCHANGED <<step, attempt, backoff, wake, requests, limits, sentAt>>

CycleStep(i) ==
  \/ AssembleContext(i)
  \/ AssembleFails(i)
  \/ \E h \in Headers : RateLimited(i, h)
  \/ RetryRequest(i)
  \/ ProviderFails(i)
  \/ \E s \in {"acting", "noop"} : ModelAnswers(i, s)
  \/ CycleCancelled(i)

ReasonNext == ReasonTick \/ \E i \in Cycles : CycleStep(i)

ReasonSpec == ReasonInit /\ [][ReasonNext]_reasonVars
-----------------------------------------------------------------------------
(* BaseDelay doubled n times.                                              *)
Doubled[n \in 0..MaxRetries] == IF n = 0 THEN BaseDelay ELSE 2 * Doubled[n - 1]

(* A provider that limits the rate gets at most MaxRetries requests from a *)
(* cycle, and after its n-th refusal none before the seconds it asked for, *)
(* or, when it named none, before BaseDelay doubled n - 1 times, whatever  *)
(* the refusals before it asked for (_with_rate_limit_retry).  A date it   *)
(* named is not waited for, against llm_gateway.py:81-82: no more is       *)
(* promised after it than after no header.                                 *)
RetriesAreSpaced ==
  \A i \in Cycles :
    /\ requests[i] <= MaxRetries
    /\ \A l \in limits[i] :
         step[i] \in {"waiting", "acting"} /\ l[1] < attempt[i] =>
           sentAt[i] >= l[2] + (IF l[3] \in RetryAfter THEN l[3] ELSE Doubled[l[1]])
=============================================================================
