-------------------------- MODULE OperationalRedis --------------------------
(***************************************************************************)
(* The durable operational queue of the backend: the Redis Streams         *)
(* provider, the worker, the recovery worker that claims what a consumer   *)
(* left unacknowledged, and the process that runs both loops.  One action  *)
(* is one command or one MULTI/EXEC transaction sent to Redis.             *)
(*                                                                         *)
(* A message of the stream is <<task, n>>, the n-th message of its task.   *)
(* Time is left open: a retry may be due at any moment, and a message that *)
(* nobody works on may have been idle long enough to be claimed.           *)
(***************************************************************************)
EXTENDS Naturals, Sequences, FiniteSets

CONSTANTS
    Tasks,        \* task ids, one drawn by each enqueue request
    Keys,         \* idempotency keys
    Intents,      \* task_type, payload and max_attempts of a request
    Requests,     \* what is asked for: pairs of a key, or None, and an intent
    Handlers,     \* API requests in progress at the same time
    Runtimes,     \* processes that run the worker and the recovery worker
    MaxAttempts,  \* max_attempts of every task
    BatchSize,    \* OPERATIONAL_QUEUE_CLAIM_BATCH_SIZE
    Faults,       \* the faults of an instance: see FaultKinds
    MaxFaults,    \* bound: faults in one behaviour
    MaxMessages,  \* bound: messages of one task
    None

FaultKinds == {"crash", "api_crash", "error", "slow"}

ASSUME OperationalAssumption ==
    /\ None \notin Tasks \cup Keys /\ Requests \subseteq (Keys \cup {None}) \X Intents
    /\ MaxAttempts \in Nat \ {0} /\ BatchSize \in Nat \ {0} /\ MaxFaults \in Nat /\ MaxMessages \in Nat
    /\ Faults \subseteq FaultKinds

VARIABLES
    idem,       \* the task id under each idempotency key
    task,       \* the task documents
    stream,     \* messages not yet delivered to the consumer group
    pel,        \* messages delivered and not acknowledged
    retry,      \* the sorted set of tasks to retry
    processing, \* the hash from task to message
    dlq,        \* dead-letter entries of each task: none, one, more
    added,      \* number of messages added for each task
    loop,       \* the loops
    api,        \* the requests
    answers,    \* history: what requests with a key were answered
    runs,       \* history: executions of each task, up to one more than any property allows
    severed,    \* history: tasks a fault met between ZREM and XADD
    faults      \* history: number of faults of each kind

redis == <<idem, task, stream, pel, retry, processing, dlq, added>>
past  == <<answers, runs, severed, faults>>
vars  == <<redis, loop, api, past>>

-----------------------------------------------------------------------------
Loops    == Runtimes \X {"consumer", "recovery"}
Messages == Tasks \X Nat
Status   == {"pending", "running", "completed", "dead_letter"}
Terminal == {"completed", "dead_letter"}
TaskDoc  == [status : Status, attempts : Nat, intent : Intents]
ASSUME NoneIsNoDoc == None \notin Messages /\ None \notin TaskDoc
New(i)   == [status |-> "pending", attempts |-> 0, intent |-> i]

\* A loop: where it is, the message in hand, the task read, the outcome of
\* the execution, the message id looked up, the messages claimed.
LoopPc == {"off", "dead", "idle", "promoting", "read", "begin", "claimed",
           "execute", "get", "hget", "commit"}
Off    == [pc |-> "off", task |-> None, copy |-> None, ok |-> TRUE,
           msg |-> None, found |-> None, batch |-> {}]
NoRequest == [pc |-> "none", key |-> None, task |-> None, intent |-> None]

Init ==
    /\ idem = [k \in Keys |-> None]
    /\ task = [t \in Tasks |-> None]
    /\ stream = <<>> /\ pel = {} /\ retry = {}
    /\ processing = [t \in Tasks |-> None]
    /\ dlq = [t \in Tasks |-> 0] /\ added = [t \in Tasks |-> 0]
    /\ loop = [a \in Loops |-> Off]
    /\ api = [h \in Handlers |-> NoRequest]
    /\ answers = {} /\ runs = [t \in Tasks |-> 0] /\ severed = {}
    /\ faults = [f \in FaultKinds |-> 0]

FaultCount  == faults["crash"] + faults["api_crash"] + faults["error"] + faults["slow"]
At(a, pc)   == loop[a].pc = pc
Goto(a, pc) == loop' = [loop EXCEPT ![a].pc = pc]
Xadd(t) ==
    /\ stream' = Append(stream, <<t, added[t] + 1>>)
    /\ added' = [added EXCEPT ![t] = @ + 1]

\* Entries are counted up to two, which is already one too many.
DlqAdd(t) == [dlq EXCEPT ![t] = IF @ < 2 THEN @ + 1 ELSE @]

\* The loop has finished with its task: run_once goes on with its batch.
Rest(a) ==
    [Off EXCEPT !.pc = IF loop[a].batch # {} THEN "claimed" ELSE "idle",
                !.batch = loop[a].batch]

-----------------------------------------------------------------------------
(***************************************************************************)
(* enqueue.  A task id is fresh: no request in progress and no task has it.*)
(***************************************************************************)
Fresh(t) == task[t] = None /\ \A h \in Handlers : api[h].task # t
                           /\ \A k \in Keys : idem[k] # t

Enqueue(h, t, k, i) ==
    LET acquired == k = None \/ idem[k] = None IN
    /\ api[h].pc = "none" /\ Fresh(t)
    /\ api' = [api EXCEPT ![h] = [pc |-> IF acquired THEN "create" ELSE "existing",
                                  key |-> k, task |-> t, intent |-> i]]
    /\ idem' = IF acquired /\ k # None THEN [idem EXCEPT ![k] = t] ELSE idem
    /\ UNCHANGED <<task, stream, pel, retry, processing, dlq, added, loop, past>>

Answer(h, t) ==
    answers' = IF api[h].key = None THEN answers
               ELSE answers \cup {[key |-> api[h].key, task |-> t, intent |-> api[h].intent]}

\* The key is taken: the existing task is returned, or the request is
\* refused, with 409 for another intent and 503 when there is no task.
EnqueueExisting(h) ==
    LET t == idem[api[h].key] IN
    /\ api[h].pc = "existing"
    /\ IF task[t] # None /\ (task[t] # None => task[t].intent = api[h].intent)
       THEN Answer(h, t) ELSE UNCHANGED answers
    /\ api' = [api EXCEPT ![h] = NoRequest]
    /\ UNCHANGED <<redis, loop, runs, severed, faults>>

EnqueueCreate(h) ==
    LET t == api[h].task IN
    /\ api[h].pc = "create"
    /\ task' = [task EXCEPT ![t] = New(api[h].intent)]
    /\ Xadd(t)
    /\ Answer(h, t)
    /\ api' = [api EXCEPT ![h] = NoRequest]
    /\ UNCHANGED <<idem, pel, retry, processing, dlq, loop, runs, severed, faults>>

-----------------------------------------------------------------------------
(***************************************************************************)
(* The process: run starts both loops; its end, asked for or not, cancels  *)
(* both wherever they are.                                                 *)
(***************************************************************************)
Start(p) ==
    /\ \A a \in Loops : a[1] = p => At(a, "off")
    /\ loop' = [a \in Loops |-> IF a[1] = p THEN [Off EXCEPT !.pc = "idle"] ELSE loop[a]]
    /\ UNCHANGED <<redis, api, past>>

-----------------------------------------------------------------------------
(***************************************************************************)
(* dequeue: promote retries that are due, read one message, mark the task. *)
(***************************************************************************)
PromoteZrem(a, t) ==
    /\ a[2] = "consumer" /\ At(a, "idle") /\ t \in retry
    /\ added[t] < MaxMessages
    /\ retry' = retry \ {t}
    /\ loop' = [loop EXCEPT ![a].pc = "promoting", ![a].task = t]
    /\ UNCHANGED <<idem, task, stream, pel, processing, dlq, added, api, past>>

PromoteXadd(a) ==
    /\ At(a, "promoting")
    /\ Xadd(loop[a].task)
    /\ loop' = [loop EXCEPT ![a] = Rest(a)]
    /\ UNCHANGED <<idem, task, pel, retry, processing, dlq, api, past>>

\* Variant: NOACK, the message is not recorded as pending.
XreadgroupNoack(a) ==
    /\ a[2] = "consumer" /\ At(a, "idle") /\ stream # <<>>
    /\ stream' = Tail(stream)
    /\ loop' = [loop EXCEPT ![a].pc = "read", ![a].task = Head(stream)[1],
                            ![a].msg = Head(stream)]
    /\ UNCHANGED <<idem, task, pel, retry, processing, dlq, added, api, past>>

Xreadgroup(a) ==
    /\ a[2] = "consumer" /\ At(a, "idle") /\ stream # <<>>
    /\ stream' = Tail(stream)
    /\ pel' = pel \cup {Head(stream)}
    /\ loop' = [loop EXCEPT ![a].pc = "read", ![a].task = Head(stream)[1],
                            ![a].msg = Head(stream)]
    /\ UNCHANGED <<idem, task, retry, processing, dlq, added, api, past>>

\* A task is never deleted, so the branch for a missing one is not reached.
DequeueGet(a) ==
    LET d == task[loop[a].task] IN
    /\ At(a, "read")
    /\ loop' = [loop EXCEPT ![a].pc = "begin",
                  ![a].copy = [d EXCEPT !.status = "running", !.attempts = @ + 1]]
    /\ UNCHANGED <<redis, api, past>>

DequeueMark(a) ==
    LET t == loop[a].task IN
    /\ At(a, "begin")
    /\ task' = [task EXCEPT ![t] = loop[a].copy]
    /\ processing' = [processing EXCEPT ![t] = loop[a].msg]
    /\ loop' = [loop EXCEPT ![a].pc = "execute", ![a].copy = None]
    /\ UNCHANGED <<idem, stream, pel, retry, dlq, added, api, past>>

-----------------------------------------------------------------------------
(***************************************************************************)
(* The recovery worker: XAUTOCLAIM takes a batch of idle messages, then    *)
(* each is noted as the message of its task and the task is executed.      *)
(* Nobody looks at the task's status or counts an attempt.                 *)
(***************************************************************************)
Held(m) == \E a \in Loops : /\ loop[a].pc \notin {"off", "dead"}
                            /\ loop[a].msg = m \/ m \in loop[a].batch
Idle    == {m \in pel : ~Held(m)}

\* Variant: messages are claimed without a minimum idle time.
XautoclaimAtOnce(a) ==
    /\ a[2] = "recovery" /\ At(a, "idle")
    /\ \E batch \in SUBSET pel :
           /\ batch # {} /\ Cardinality(batch) <= BatchSize
           /\ loop' = [loop EXCEPT ![a].pc = "claimed", ![a].batch = batch]
    /\ UNCHANGED <<redis, api, past>>

Xautoclaim(a) ==
    /\ a[2] = "recovery" /\ At(a, "idle")
    /\ \E batch \in SUBSET Idle :
           /\ batch # {} /\ Cardinality(batch) <= BatchSize
           /\ loop' = [loop EXCEPT ![a].pc = "claimed", ![a].batch = batch]
    /\ UNCHANGED <<redis, api, past>>

ClaimedNext(a, m) ==
    /\ At(a, "claimed") /\ m \in loop[a].batch
    /\ processing' = [processing EXCEPT ![m[1]] = m]
    /\ loop' = [loop EXCEPT ![a] = [Off EXCEPT !.pc = "execute", !.task = m[1], !.msg = m,
                                               !.batch = loop[a].batch \ {m}]]
    /\ UNCHANGED <<idem, task, stream, pel, retry, dlq, added, api, past>>

-----------------------------------------------------------------------------
(***************************************************************************)
(* run_once and _process_claimed_task: execute, then complete or fail.     *)
(* Both read the task, look its message up, and commit in a transaction.   *)
(***************************************************************************)
Execute(a) ==
    /\ At(a, "execute")
    /\ \E ok \in BOOLEAN : loop' = [loop EXCEPT ![a].pc = "get", ![a].ok = ok]
    /\ runs' = [runs EXCEPT ![loop[a].task] = IF @ > MaxAttempts + MaxFaults THEN @ ELSE @ + 1]
    /\ UNCHANGED <<redis, api, answers, severed, faults>>

GetTask(a) ==
    /\ At(a, "get")
    /\ loop' = [loop EXCEPT ![a].pc = "hget", ![a].copy = task[loop[a].task]]
    /\ UNCHANGED <<redis, api, past>>

\* Since the message in hand is not passed on, it is whatever the hash says.
MessageId(a) ==
    /\ At(a, "hget")
    /\ loop' = [loop EXCEPT ![a].pc = "commit", ![a].found = processing[loop[a].task]]
    /\ UNCHANGED <<redis, api, past>>

Acknowledge(a) ==
    /\ pel' = pel \ {loop[a].found}
    /\ processing' = [processing EXCEPT ![loop[a].task] = None]

\* Variant: complete leaves the acknowledgement to the reader.
CompleteUnacked(a) ==
    LET t == loop[a].task IN
    /\ At(a, "commit") /\ loop[a].ok
    /\ task' = [task EXCEPT ![t] = [loop[a].copy EXCEPT !.status = "completed"]]
    /\ processing' = [processing EXCEPT ![t] = None]
    /\ loop' = [loop EXCEPT ![a] = Rest(a)]
    /\ UNCHANGED <<idem, stream, pel, retry, dlq, added, api, past>>

Complete(a) ==
    LET t == loop[a].task IN
    /\ At(a, "commit") /\ loop[a].ok
    /\ task' = [task EXCEPT ![t] = [loop[a].copy EXCEPT !.status = "completed"]]
    /\ Acknowledge(a)
    /\ loop' = [loop EXCEPT ![a] = Rest(a)]
    /\ UNCHANGED <<idem, stream, retry, dlq, added, api, past>>

\* Variants: one attempt too many; no entry in the sorted set.
FailLate(a) ==
    LET t == loop[a].task
        last == loop[a].copy.attempts > MaxAttempts IN
    /\ At(a, "commit") /\ ~loop[a].ok
    /\ task' = [task EXCEPT ![t] = [loop[a].copy EXCEPT
                                       !.status = IF last THEN "dead_letter" ELSE "pending"]]
    /\ dlq' = IF last THEN DlqAdd(t) ELSE dlq
    /\ retry' = IF last THEN retry ELSE retry \cup {t}
    /\ Acknowledge(a)
    /\ loop' = [loop EXCEPT ![a] = Rest(a)]
    /\ UNCHANGED <<idem, stream, added, api, past>>

FailForgotten(a) ==
    LET t == loop[a].task
        last == loop[a].copy.attempts >= MaxAttempts IN
    /\ At(a, "commit") /\ ~loop[a].ok
    /\ task' = [task EXCEPT ![t] = [loop[a].copy EXCEPT
                                       !.status = IF last THEN "dead_letter" ELSE "pending"]]
    /\ dlq' = IF last THEN DlqAdd(t) ELSE dlq
    /\ Acknowledge(a)
    /\ loop' = [loop EXCEPT ![a] = Rest(a)]
    /\ UNCHANGED <<idem, stream, retry, added, api, past>>

Fail(a) ==
    LET t == loop[a].task
        last == loop[a].copy.attempts >= MaxAttempts IN
    /\ At(a, "commit") /\ ~loop[a].ok
    /\ task' = [task EXCEPT ![t] = [loop[a].copy EXCEPT
                                       !.status = IF last THEN "dead_letter" ELSE "pending"]]
    /\ dlq' = IF last THEN DlqAdd(t) ELSE dlq
    /\ retry' = IF last THEN retry ELSE retry \cup {t}
    /\ Acknowledge(a)
    /\ loop' = [loop EXCEPT ![a] = Rest(a)]
    /\ UNCHANGED <<idem, stream, added, api, past>>

-----------------------------------------------------------------------------
(***************************************************************************)
(* Faults.                                                                 *)
(***************************************************************************)
Fault(kind) ==
    /\ kind \in Faults /\ FaultCount < MaxFaults
    /\ faults' = [faults EXCEPT ![kind] = @ + 1]

Between(S) == {loop[a].task : a \in {b \in S : At(b, "promoting")}}

\* The process ends; the container is restarted by Start.
Crash(p) ==
    LET gone == {a \in Loops : a[1] = p} IN
    /\ Fault("crash") /\ \E a \in gone : ~At(a, "off")
    /\ loop' = [a \in Loops |-> IF a \in gone THEN Off ELSE loop[a]]
    /\ severed' = severed \cup Between(gone)
    /\ UNCHANGED <<redis, api, answers, runs>>

\* The API process ends between the key and the task.
ApiCrash(h) ==
    /\ Fault("api_crash") /\ api[h].pc # "none"
    /\ api' = [api EXCEPT ![h] = NoRequest]
    /\ UNCHANGED <<redis, loop, answers, runs, severed>>

\* A command raises and is not executed.  In complete the error is caught
\* and the task is failed; anywhere else it ends the loop.
CommandError(a) ==
    /\ Fault("error") /\ loop[a].pc \notin {"off", "dead", "execute"}
    /\ IF loop[a].pc \in {"get", "hget", "commit"} /\ loop[a].ok
       THEN /\ loop' = [loop EXCEPT ![a].pc = "get", ![a].ok = FALSE, ![a].copy = None]
            /\ UNCHANGED severed
       ELSE /\ loop' = [loop EXCEPT ![a] = [Off EXCEPT !.pc = "dead"]]
            /\ severed' = severed \cup Between({a})
    /\ UNCHANGED <<redis, api, answers, runs>>

\* The transaction of complete is executed but its reply is lost.
ReplyLost(a) ==
    LET t == loop[a].task IN
    /\ Fault("error") /\ At(a, "commit") /\ loop[a].ok
    /\ task' = [task EXCEPT ![t] = [loop[a].copy EXCEPT !.status = "completed"]]
    /\ Acknowledge(a)
    /\ loop' = [loop EXCEPT ![a].pc = "get", ![a].ok = FALSE, ![a].copy = None]
    /\ UNCHANGED <<idem, stream, retry, dlq, added, api, answers, runs, severed>>

\* An execution takes longer than the minimum idle time: its message, or one
\* that waits behind it in the batch, is claimed.
ClaimSlow(a, m) ==
    /\ Fault("slow") /\ a[2] = "recovery" /\ At(a, "idle") /\ m \in pel
    /\ \E b \in Loops : At(b, "execute") /\ (loop[b].msg = m \/ m \in loop[b].batch)
    /\ loop' = [loop EXCEPT ![a].pc = "claimed", ![a].batch = {m}]
    /\ UNCHANGED <<redis, api, answers, runs, severed>>

-----------------------------------------------------------------------------
Work(a) ==
    \/ PromoteXadd(a) \/ Xreadgroup(a) \/ DequeueGet(a) \/ DequeueMark(a)
    \/ Xautoclaim(a) \/ Execute(a) \/ GetTask(a) \/ MessageId(a)
    \/ Complete(a) \/ Fail(a)
    \/ \E m \in loop[a].batch : ClaimedNext(a, m)

ApiStep(h) == EnqueueExisting(h) \/ EnqueueCreate(h)

Next ==
    \/ \E h \in Handlers : \/ ApiStep(h) \/ ApiCrash(h)
                           \/ \E t \in Tasks, r \in Requests : Enqueue(h, t, r[1], r[2])
    \/ \E p \in Runtimes : Start(p) \/ Crash(p)
    \/ \E a \in Loops : \/ Work(a) \/ CommandError(a) \/ ReplyLost(a)
                        \/ \E t \in Tasks : PromoteZrem(a, t)
                        \/ \E m \in pel : ClaimSlow(a, m)

Spec == Init /\ [][Next]_vars

(***************************************************************************)
(* Fairness.  The container restarts, both loops poll for ever, a retry is *)
(* due in the end and a message nobody works on is idle long enough in the *)
(* end.  A consumer may be kept from a promotion by a stream that is never *)
(* empty, so the promotion of a due retry needs strong fairness: dequeue   *)
(* promotes before every read.                                             *)
(***************************************************************************)
Fairness ==
    /\ \A p \in Runtimes : WF_vars(Start(p))
    /\ \A h \in Handlers : WF_vars(ApiStep(h))
    /\ \A a \in Loops : WF_vars(Work(a))
    /\ \A t \in Tasks : SF_vars(\E a \in Loops : PromoteZrem(a, t))

FairSpec == Spec /\ Fairness

-----------------------------------------------------------------------------
(***************************************************************************)
(* What the durable provider looks like from outside: a task waits from    *)
(* the transaction that creates it until the one that marks it as running, *)
(* wherever its message is.                                                *)
(***************************************************************************)
Waiting == {t \in Tasks :
               task[t] # None /\ task[t].status = "pending"}
Memory  == INSTANCE OperationalMemory WITH
               tasks <- task,
               queue <- Waiting,
               index <- [k \in Keys |-> IF idem[k] = None THEN None
                                        ELSE IF task[idem[k]] = None THEN None ELSE idem[k]]
=============================================================================
