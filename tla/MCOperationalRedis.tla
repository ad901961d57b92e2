------------------------- MODULE MCOperationalRedis -------------------------
(***************************************************************************)
(* What the operational queue is checked for, and the instances TLC runs.  *)
(***************************************************************************)
EXTENDS OperationalRedis, TLC

\* Requests with a key have any intent, those without a key one.
MCRequests == (Keys \X Intents) \cup {<<None, CHOOSE i \in Intents : TRUE>>}

InStream(t) == \E i \in DOMAIN stream : stream[i][1] = t
InPel(t)    == \E m \in pel : m[1] = t
Moving(t)   == \E a \in Loops : At(a, "promoting") /\ loop[a].task = t
Alive(t)    == InStream(t) \/ InPel(t) \/ t \in retry \/ Moving(t)
Open(t)     == task[t] # None /\ task[t].status \notin Terminal

Unmet(kinds) == \A f \in kinds : faults[f] = 0

\* A key stands for one task and one intent, whatever requests with the key
\* race each other or end half-way (operational_queue.py enqueue).
OneTaskPerKey ==
    \A x, y \in answers : x.key = y.key => (x.task = y.task /\ x.intent = y.intent)

\* However long an execution takes, whatever process ends and whatever command
\* fails, a task that is not finished can still be delivered, its execution
\* under way or not, unless the fault met it between ZREM and XADD
\* (operational_queue.py dequeue, fail, recovery worker).
TaskAttended == \A t \in Tasks \ severed : Open(t) => Alive(t)

\* A request that was answered is honoured: its key goes on standing for the
\* task and the intent it was answered with, and the task goes on being
\* attended to until it is finished (operational_queue.py enqueue, dequeue).
RequestHonoured == OneTaskPerKey /\ TaskAttended

\* A finished task leaves nothing behind that would deliver it again, although
\* processes end anywhere (operational_queue.py complete, fail).  A repeated
\* execution of a slow task, or a lost answer, is another matter: fail does
\* not look at the status it overwrites.
LeavesNothing ==
    Unmet({"error", "slow"}) =>
        \A t \in Tasks : (task[t] # None /\ task[t].status \in Terminal) => ~Alive(t)

\* A task is in the dead-letter stream once if it is dead, else not at all
\* (operational_queue.py fail).
DeadLetterOnce ==
    Unmet({"error", "slow"}) =>
        \A t \in Tasks :
            dlq[t] = IF task[t] # None /\ task[t].status = "dead_letter" THEN 1 ELSE 0

\* A finished task is quiet: nothing delivers it again, and the dead-letter
\* stream tells it once if it is dead (operational_queue.py complete, fail).
TerminalIsQuiet == LeavesNothing /\ DeadLetterOnce

\* A task is executed by one loop at a time, as only abandoned messages are
\* claimed (recovery worker), unless its execution outlives the idle time.
OneLoopATime ==
    Unmet({"slow"}) =>
        \A a, b \in Loops :
            (a # b /\ At(a, "execute") /\ At(b, "execute")) => loop[a].task # loop[b].task

\* max_attempts limits the executions of a task, but for one more with each
\* fault (operational_queue.py fail, which alone compares the attempts): a
\* recovered task runs again without a new attempt.  When an execution outlives
\* the idle time there is no such limit: the second outcome overwrites the first.
ExecutionsPerFault ==
    Unmet({"slow"}) => \A t \in Tasks : runs[t] <= MaxAttempts + FaultCount

\* Executions are exclusive and limited (operational_queue.py dequeue, fail,
\* recovery worker), as long as none outlives the idle time.
ExecutionsGuarded == OneLoopATime /\ ExecutionsPerFault

\* Every task is completed or dead-lettered in the end, although processes
\* end at any point and are started again (operational_worker_runtime.py run).
\* An error ends a loop for good, and each execution that outlives the idle
\* time may set the attempts back.
TaskSettles ==
    []Unmet({"error", "slow"}) => \A t \in Tasks : Open(t) ~> (~Open(t) \/ t \in severed)

\* The durable provider implements the contract of the in-memory one up to the
\* first fault: interleaving alone cannot be told from the lock.
MemorySpec == Memory!Init /\ [][FaultCount' = 0 => Memory!Next]_(Memory!vars)
=============================================================================
