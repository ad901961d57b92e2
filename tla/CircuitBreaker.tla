--------------------------- MODULE CircuitBreaker ---------------------------
(***************************************************************************)
(* The calls that share one circuit breaker: call_with_retry and its       *)
(* asynchronous twin (backend/app/core/resilience.py).                     *)
(*                                                                         *)
(* Handlers declared with def run in threads (the login and the CDI        *)
(* refresh, for instance), those declared with async def take turns; a     *)
(* breaker serves calls of one kind.                                       *)
(* Between the test of record_failure and its assignment to opened_at      *)
(* there is a call to the clock, where the interpreter may run another     *)
(* thread; among coroutines the operation is one step.                     *)
(***************************************************************************)
EXTENDS Circuit, FiniteSets

CONSTANT Calls  \* requests that may be in progress together

ASSUME CallsAssumption == IsFiniteSet(Calls)

VARIABLES
    threads,  \* whether the calls are threads; coroutines if not
    breaker,  \* the shared CircuitBreaker
    call,     \* the calls in progress
    up,       \* whether the external service answers
    burst     \* history: requests that reached the service while the circuit is open

circuitVars == <<threads, breaker, call, up, burst>>

RestingCall   == [pc |-> "idle", attempt |-> 0]
CallState     == [pc : {"idle", "try", "record", "open"}, attempt : 0..MaxAttempts]

CircuitInit ==
    /\ threads \in BOOLEAN
    /\ breaker = NewCircuit
    /\ call = [c \in Calls |-> RestingCall]
    /\ up \in BOOLEAN
    /\ burst = 0

CallAt(c, pc) == call[c].pc = pc
\* The history of requests starts again when the circuit lets calls through.
Watch == burst' = IF IsOpen(breaker') THEN burst ELSE 0

-----------------------------------------------------------------------------
\* Variant: the circuit is not asked.
GuardCallMissing(c) ==
    /\ CallAt(c, "idle")
    /\ call' = [call EXCEPT ![c] = [pc |-> "try", attempt |-> 1]]
    /\ UNCHANGED <<threads, breaker, up, burst>>

\* guard: a call that finds the circuit open raises and changes nothing.
GuardCall(c) ==
    /\ CallAt(c, "idle") /\ ~IsOpen(breaker)
    /\ call' = [call EXCEPT ![c] = [pc |-> "try", attempt |-> 1]]
    /\ UNCHANGED <<threads, breaker, up, burst>>

\* A request to the service.
Reach == burst' = IF IsOpen(breaker) THEN burst + 1 ELSE 0

\* fn returns: the success is recorded and the result returned.
Succeed(c) ==
    /\ CallAt(c, "try") /\ up
    /\ breaker' = RecordSuccess(breaker)
    /\ call' = [call EXCEPT ![c] = RestingCall]
    /\ burst' = 0
    /\ UNCHANGED <<threads, up>>

\* fn raises an error of retry_on: another attempt, after a pause, or none left.
Fail(c) ==
    /\ CallAt(c, "try") /\ ~up
    /\ call' = [call EXCEPT ![c] = IF @.attempt < MaxAttempts
                                   THEN [pc |-> "try", attempt |-> @.attempt + 1]
                                   ELSE [pc |-> "record", attempt |-> @.attempt]]
    /\ Reach
    /\ UNCHANGED <<threads, breaker, up>>

\* fn raises another error (an HTTP answer that is final): nothing is recorded.
Reject(c) ==
    /\ CallAt(c, "try") /\ up
    /\ call' = [call EXCEPT ![c] = RestingCall]
    /\ Reach
    /\ UNCHANGED <<threads, breaker, up>>

\* record_failure among coroutines, and among threads when the test fails.
Record(c) ==
    /\ CallAt(c, "record")
    /\ threads => ~Trips(Counted(breaker))
    /\ breaker' = RecordFailure(breaker)
    /\ call' = [call EXCEPT ![c] = RestingCall]
    /\ Watch
    /\ UNCHANGED <<threads, up>>

\* Among threads, when the test holds: the count first, opened_at later.
RecordCount(c) ==
    /\ CallAt(c, "record") /\ threads /\ Trips(Counted(breaker))
    /\ breaker' = Counted(breaker)
    /\ call' = [call EXCEPT ![c].pc = "open"]
    /\ UNCHANGED <<threads, up, burst>>

RecordOpen(c) ==
    /\ CallAt(c, "open")
    /\ breaker' = Opened(breaker)
    /\ call' = [call EXCEPT ![c] = RestingCall]
    /\ Watch
    /\ UNCHANGED <<threads, up>>

-----------------------------------------------------------------------------
Tick ==
    /\ breaker' = Older(breaker)
    /\ Watch
    /\ UNCHANGED <<threads, call, up>>

\* The service goes down and comes back.
Outage ==
    /\ up' = ~up
    /\ UNCHANGED <<threads, breaker, call, burst>>

Attempt(c) == Succeed(c) \/ Fail(c) \/ Reject(c)
Finish(c)  == Attempt(c) \/ Record(c) \/ RecordCount(c) \/ RecordOpen(c)

CircuitNext ==
    \/ \E c \in Calls : GuardCall(c) \/ Finish(c)
    \/ Tick
    \/ Outage

CircuitSpec == CircuitInit /\ [][CircuitNext]_circuitVars

\* Fairness: a call that started comes to its end, and the clock moves.
CircuitFairness ==
    /\ \A c \in Calls : WF_circuitVars(Finish(c))
    /\ WF_circuitVars(Tick)

CircuitFairSpec == CircuitSpec /\ CircuitFairness

-----------------------------------------------------------------------------
\* Every state component has a value of its kind.
CircuitTypeOK ==
    /\ breaker \in CircuitState /\ call \in [Calls -> CallState]
    /\ threads \in BOOLEAN /\ up \in BOOLEAN
    /\ burst \in Nat

\* Among coroutines the circuit is open, or waits for its probe, exactly when
\* the threshold of consecutive failures was met and no call succeeded since
\* (resilience.py record_failure, record_success).  A thread may be overtaken
\* by a success between the test of record_failure and its assignment.
OpenedByFailures ==
    ~threads => (breaker.age # Never <=> breaker.failures >= FailureThreshold)

\* While the circuit is open only the calls that were past guard when it opened
\* reach the service, with the attempts they have left (resilience.py guard).
ShieldedService ==
    IsOpen(breaker) => burst <= (Cardinality(Calls) - 1) * MaxAttempts

\* Once the service answers for good the circuit lets calls through for good,
\* however the calls in progress end (resilience.py is_open, record_success).
Recovers == <>[]up => <>[](~IsOpen(breaker))
=============================================================================
