--------------------------- MODULE CircuitBreaker ----------------------------
(***************************************************************************)
(* The circuit breaker of webhooks/circuitbreaker.go, one per webhook URL. *)
(* Each method runs under the breaker's mutex and is an operator from a    *)
(* breaker to the breaker it leaves.  Of the clock only one fact matters:  *)
(* cooled, whether openDuration has passed since the last failure.         *)
(***************************************************************************)
EXTENDS Integers

CONSTANT Threshold  \* failureThreshold

ASSUME ThresholdAssumption == Threshold \in Nat \ {0}

Breaker == [state : {"closed", "open", "half_open"}, failures : Nat, cooled : BOOLEAN]

NewCircuitBreaker == [state |-> "closed", failures |-> 0, cooled |-> FALSE]

(* What Allow answers, and the breaker it leaves.                          *)
Allows(b) == b.state # "open" \/ b.cooled

Allow(b) == [b EXCEPT !.state = IF @ = "open" THEN "half_open" ELSE @]

RecordSuccess(b) == [state |-> "closed", failures |-> 0, cooled |-> b.cooled]

(* Faulty variant: the circuit opens one failure too early.                *)
RecordFailureEarly(b) ==
    [state    |-> IF b.state = "half_open" \/ b.failures + 2 >= Threshold
                  THEN "open" ELSE b.state,
     failures |-> b.failures + 1,
     cooled   |-> FALSE]

RecordFailure(b) ==
    [state    |-> IF b.state = "half_open" \/ b.failures + 1 >= Threshold
                  THEN "open" ELSE b.state,
     failures |-> b.failures + 1,
     cooled   |-> FALSE]

(* Time passes until openDuration is over.                                 *)
Cool(b) == [b EXCEPT !.cooled = TRUE]

(* The failure count and the state agree: the circuit is closed exactly    *)
(* while fewer than Threshold failures have come in since the last         *)
(* success, also when the successes and failures of several deliveries     *)
(* are recorded in any order.                                              *)
Consistent(b) == b.state = "closed" <=> b.failures < Threshold
==============================================================================
