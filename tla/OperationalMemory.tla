------------------------- MODULE OperationalMemory -------------------------
(***************************************************************************)
(* The in-memory provider of the operational queue (OperationalQueue in    *)
(* backend/app/core/operational_queue.py), and with it the contract that   *)
(* the provider protocol promises to the API and to a worker.  One lock    *)
(* makes every operation atomic.  The queue is a set: which of the waiting *)
(* tasks is due, and therefore next, depends on the clock.                 *)
(***************************************************************************)
EXTENDS Naturals

CONSTANTS Tasks, Keys, Intents, MaxAttempts, None

VARIABLES tasks,    \* the tasks created, by id
          queue,    \* the ids waiting in the deque
          index     \* the task of each idempotency key

vars == <<tasks, queue, index>>

Init ==
    /\ tasks = [t \in Tasks |-> None]
    /\ queue = {}
    /\ index = [k \in Keys |-> None]

\* An enqueue whose key is known returns the existing task, or is refused
\* because the intent differs; either way nothing changes.
Enqueue(t, k, i) ==
    /\ tasks[t] = None
    /\ k # None => index[k] = None
    /\ tasks' = [tasks EXCEPT ![t] = [status |-> "pending", attempts |-> 0, intent |-> i]]
    /\ index' = IF k = None THEN index ELSE [index EXCEPT ![k] = t]
    /\ queue' = queue \cup {t}

Dequeue(t) ==
    /\ t \in queue /\ tasks[t].status = "pending"
    /\ queue' = queue \ {t}
    /\ tasks' = [tasks EXCEPT ![t].status = "running", ![t].attempts = @ + 1]
    /\ UNCHANGED index

\* The worker completes and fails only what it has dequeued.
Complete(t) ==
    /\ tasks[t] # None /\ tasks[t].status = "running"
    /\ tasks' = [tasks EXCEPT ![t].status = "completed"]
    /\ UNCHANGED <<queue, index>>

Fail(t) ==
    /\ tasks[t] # None /\ tasks[t].status = "running"
    /\ IF tasks[t].attempts >= MaxAttempts
       THEN tasks' = [tasks EXCEPT ![t].status = "dead_letter"] /\ UNCHANGED queue
       ELSE tasks' = [tasks EXCEPT ![t].status = "pending"] /\ queue' = queue \cup {t}
    /\ UNCHANGED index

Next ==
    \E t \in Tasks :
        \/ Dequeue(t) \/ Complete(t) \/ Fail(t)
        \/ \E k \in Keys \cup {None}, i \in Intents : Enqueue(t, k, i)

Spec == Init /\ [][Next]_vars
=============================================================================
