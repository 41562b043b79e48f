--------------------------- MODULE CircuitBreaker ---------------------------
(***************************************************************************)
(* What a circuit breaker promises for each effect class, whatever counts, *)
(* clocks and stores lie behind it.  A circuit starts closed, is opened by *)
(* a failure, and becomes half open only by being left alone; the next     *)
(* failure opens it again, and a success closes it from any state.         *)
(* RecoveryGate is checked to implement it.                                *)
(***************************************************************************)
CONSTANT Classes

VARIABLE circuit

BreakerInit == circuit = [c \in Classes |-> "closed"]

Become(c, from, to) ==
  /\ circuit[c] \in from
  /\ circuit' = [circuit EXCEPT ![c] = to]

Trip(c)  == Become(c, {"closed", "half_open"}, "open")
Reset(c) == Become(c, {"open", "half_open"}, "closed")

(* Time passes for every circuit at once.                                  *)
Cool ==
  \E rested \in SUBSET {c \in Classes : circuit[c] = "open"} :
    circuit' = [c \in Classes |-> IF c \in rested THEN "half_open" ELSE circuit[c]]

BreakerNext == Cool \/ \E c \in Classes : Trip(c) \/ Reset(c)

BreakerSpec == BreakerInit /\ [][BreakerNext]_circuit
=============================================================================
