------------------------------- MODULE Circuit -------------------------------
(***************************************************************************)
(* The circuit breaker of backend/app/core/resilience.py as a value: the   *)
(* count of consecutive failed calls and the time since it opened.         *)
(*                                                                         *)
(* Time is counted from opened_at and stops at the cooldown, after which   *)
(* is_open answers the same for ever.  The count stops at the threshold,   *)
(* the only number it is compared with.                                    *)
(***************************************************************************)
EXTENDS Naturals

CONSTANTS
    FailureThreshold,  \* failure_threshold
    Cooldown,          \* cooldown_seconds, in steps of the clock
    MaxAttempts,       \* max_retries of call_with_retry
    Never              \* opened_at is None

ASSUME CircuitAssumption ==
    /\ FailureThreshold \in Nat \ {0} /\ Cooldown \in Nat \ {0} /\ MaxAttempts \in Nat \ {0}
    /\ Never \notin Nat

\* failures, and the time since opened_at.
CircuitState == [failures : 0..FailureThreshold, age : (0..Cooldown) \cup {Never}]
NewCircuit   == [failures |-> 0, age |-> Never]

\* Variant: the cooldown is not looked at.
IsOpenForGood(cb) == cb.age # Never

IsOpen(cb) == cb.age # Never /\ cb.age < Cooldown

\* The clock moves on.
Older(cb) == IF cb.age # Never /\ cb.age < Cooldown THEN [cb EXCEPT !.age = @ + 1] ELSE cb

\* Variant: the count is kept.
RecordSuccessKeepsCount(cb) == [cb EXCEPT !.age = Never]

RecordSuccess(cb) == NewCircuit

\* record_failure up to its test, and what it does when the test holds.
Counted(cb) == [cb EXCEPT !.failures = IF @ < FailureThreshold THEN @ + 1 ELSE @]
Trips(cb)   == cb.failures >= FailureThreshold /\ cb.age = Never
Opened(cb)  == [cb EXCEPT !.age = 0]

RecordFailure(cb) ==
    IF Trips(Counted(cb)) THEN Opened(Counted(cb)) ELSE Counted(cb)
=============================================================================
