------------------------------ MODULE Breaker ------------------------------
(***************************************************************************)
(* The pybreaker.CircuitBreaker that reports/src/middleware/auth.py puts   *)
(* in front of GET /api/auth/me, as operators on one breaker's state.      *)
(* The library itself is not in the repository: what is written here is    *)
(* what auth.py relies on (fail_max, reset_timeout, CircuitBreakerError,   *)
(* the decorated call) and what tests/test_auth_middleware.py observes.    *)
(*                                                                         *)
(* Time is counted in ticks; opened_at + reset_timeout is kept as the      *)
(* number of ticks still to wait (cooldown).                               *)
(***************************************************************************)
EXTENDS Naturals

CONSTANTS FailMax,        \* fail_max: consecutive failures that open it
          ResetTimeout    \* reset_timeout, in ticks

ASSUME BreakerAssumption == /\ FailMax \in Nat \ {0}
                            /\ ResetTimeout \in Nat \ {0}

Breakers == [mode : {"closed", "open", "half_open"},
             fails : 0 .. FailMax,
             cooldown : 0 .. ResetTimeout]

ClosedBreaker == [mode |-> "closed", fails |-> 0, cooldown |-> 0]

OpenBreaker == [mode |-> "open", fails |-> FailMax, cooldown |-> ResetTimeout]

(* Mutant: the cooldown is not waited for.                                 *)
MayCallAtOnce(b) == TRUE

(* An open breaker refuses until reset_timeout has elapsed.                *)
MayCall(b) == b.mode = "open" => b.cooldown = 0

(* The first call after the cooldown is the half-open trial.               *)
BeforeCall(b) == IF b.mode = "open" THEN [b EXCEPT !.mode = "half_open"] ELSE b

(* Mutant: a success forgives failures and forgets to close.               *)
AfterSuccessStaysHalfOpen(b) == [b EXCEPT !.fails = 0]

(* Any value returned, whatever its HTTP status, is a success.             *)
AfterSuccess(b) == ClosedBreaker

(* The call that opens the breaker raises CircuitBreakerError, not its own *)
(* exception.                                                              *)
Trips(b) == b.mode = "half_open" \/ b.fails + 1 >= FailMax

(* Mutant: failures are counted and never acted upon.                      *)
AfterFailureOnlyCounts(b) == [b EXCEPT !.fails = @ + 1]

AfterFailure(b) ==
    IF Trips(b) THEN OpenBreaker ELSE [b EXCEPT !.fails = @ + 1]

Aged(b) == [b EXCEPT !.cooldown = IF @ = 0 THEN 0 ELSE @ - 1]

(* How mode, failure count and cooldown agree.                             *)
Consistent(b) ==
    /\ b.mode = "closed" => b.fails < FailMax
    /\ b.mode # "closed" => b.fails = FailMax
    /\ b.mode # "open" => b.cooldown = 0
=============================================================================
