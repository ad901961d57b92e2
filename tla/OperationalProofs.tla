------------------------- MODULE OperationalProofs --------------------------
(***************************************************************************)
(* Proofs about the durable operational queue.  The invariant has a part   *)
(* that holds whatever goes wrong, a part for behaviours in which no       *)
(* execution outlives the idle time, one for behaviours without errors     *)
(* either, and one for behaviours without any fault.                       *)
(***************************************************************************)
EXTENDS MCOperationalRedis, TLAPS

MessageOrNone == Messages \cup {None}

LoopState == [pc : LoopPc, task : Tasks \cup {None}, copy : TaskDoc \cup {None},
              ok : BOOLEAN, msg : MessageOrNone, found : MessageOrNone,
              batch : SUBSET Messages]
ApiState  == [pc : {"none", "create", "existing"}, key : Keys \cup {None},
              task : Tasks \cup {None}, intent : Intents \cup {None}]

\* The types of the variables.
TypeOK ==
    /\ idem \in [Keys -> Tasks \cup {None}]
    /\ task \in [Tasks -> TaskDoc \cup {None}]
    /\ stream \in Seq(Messages) /\ pel \subseteq Messages /\ retry \subseteq Tasks
    /\ processing \in [Tasks -> MessageOrNone]
    /\ dlq \in [Tasks -> Nat] /\ added \in [Tasks -> Nat]
    /\ loop \in [Loops -> LoopState]
    /\ api \in [Handlers -> ApiState]
    /\ answers \subseteq [key : Keys, task : Tasks, intent : Intents]
    /\ runs \in [Tasks -> Nat] /\ severed \subseteq Tasks
    /\ faults \in [FaultKinds -> Nat]

Reading   == {"read", "begin"}
Finishing == {"execute", "get", "hget", "commit"}
InService == Reading \cup Finishing

-----------------------------------------------------------------------------
(***************************************************************************)
(* Whatever goes wrong.                                                    *)
(***************************************************************************)

\* A key that was answered stands for the task it was answered with, and a
\* request about to create a task is the only one with that task.
KeysKept ==
    /\ \A x \in answers : /\ idem[x.key] = x.task
                          /\ task[x.task] # None
                          /\ task[x.task].intent = x.intent
    /\ \A h \in Handlers : api[h].pc = "create" =>
         /\ api[h].task \in Tasks /\ task[api[h].task] = None
         /\ api[h].intent \in Intents
         /\ api[h].key # None => idem[api[h].key] = api[h].task
         /\ \A k \in Keys : idem[k] = api[h].task => k = api[h].key
         /\ \A g \in Handlers : api[g].pc = "create" /\ api[g].task = api[h].task => g = h
    /\ \A h \in Handlers : api[h].pc = "existing" =>
         /\ api[h].key \in Keys /\ idem[api[h].key] # None
         /\ api[h].intent \in Intents
    /\ \A k, l \in Keys : idem[k] # None /\ idem[k] = idem[l] => k = l

\* What a loop has in hand at each place, and a copy of the task that has the
\* task's intent.
Hand(z, tab) ==
    /\ z.pc \in InService \cup {"promoting"} => z.task \in Tasks /\ tab[z.task] # None
    /\ z.pc \in InService => z.msg \in Messages /\ z.msg[1] = z.task
    /\ z.pc \notin InService => z.msg = None
    /\ z.pc \in {"begin", "hget", "commit"} =>
         z.copy \in TaskDoc /\ z.copy.intent = tab[z.task].intent
    /\ z.found # None => z.pc \in InService /\ z.found[1] = z.task

HandsFull == \A a \in Loops : Hand(loop[a], task)

\* A message that has been added, of a task that exists.
Known(m) == task[m[1]] # None /\ m[2] <= added[m[1]]

Queued(m) == \E i \in DOMAIN stream : stream[i] = m

\* Messages out of the stream, wherever they are mentioned.
Seen(m) ==
    \/ m \in pel
    \/ \E t \in Tasks : processing[t] = m
    \/ \E a \in Loops : loop[a].msg = m \/ loop[a].found = m \/ m \in loop[a].batch

\* A message is in the stream or has been read, never both, and each message
\* of the stream is there once.
MessagesKept ==
    /\ \A m \in Messages : Seen(m) => Known(m)
    /\ \A m \in Messages : Queued(m) => Known(m) /\ ~Seen(m)
    /\ \A i, j \in DOMAIN stream : stream[i] = stream[j] => i = j
    /\ \A t \in Tasks : processing[t] # None => processing[t][1] = t
    /\ \A t \in retry : task[t] # None

\* The message of a loop that has not yet marked its task is pending and
\* nobody else knows of it.
FreshReads ==
    \A a \in Loops : loop[a].pc \in Reading =>
        /\ loop[a].msg \in pel
        /\ \A t \in Tasks : processing[t] # loop[a].msg
        /\ \A b \in Loops : /\ loop[b].found # loop[a].msg
                            /\ loop[a].msg \notin loop[b].batch
                            /\ loop[b].msg = loop[a].msg => b = a

\* This much is inductive by itself.
CoreInv == TypeOK /\ KeysKept /\ HandsFull /\ MessagesKept /\ FreshReads
BaseInv == CoreInv /\ TaskAttended

-----------------------------------------------------------------------------
(***************************************************************************)
(* When no execution outlives the idle time.                               *)
(***************************************************************************)
NoSlow == Unmet({"slow"})

Serves(a, t) == loop[a].pc \in InService /\ loop[a].task = t
Moves(a, t)  == loop[a].pc = "promoting" /\ loop[a].task = t

\* A task has one token: a message in the stream or pending, a place in the
\* sorted set, a loop that promotes it.
OneToken(t) ==
    /\ \A m, n \in Messages : Queued(m) /\ Queued(n) /\ m[1] = t /\ n[1] = t => m = n
    /\ \A m, n \in pel : m[1] = t /\ n[1] = t => m = n
    /\ \A a, b \in Loops : Moves(a, t) /\ Moves(b, t) => a = b
    /\ InStream(t) => ~InPel(t) /\ t \notin retry /\ ~Moving(t)
    /\ InPel(t) => t \notin retry /\ ~Moving(t)
    /\ t \in retry => ~Moving(t)

\* A loop in service has its task for itself, and only its own message can be
\* the pending one.
OneServer(t) ==
    \A a \in Loops : Serves(a, t) =>
        /\ \A b \in Loops : Serves(b, t) => b = a
        /\ ~InStream(t) /\ t \notin retry /\ ~Moving(t)
        /\ \A m \in pel : m[1] = t => m = loop[a].msg
        /\ \A b \in Loops : \A m \in loop[b].batch : m[1] # t

\* Claimed messages are pending, each in one batch.
BatchesApart(t) ==
    \A a \in Loops : \A m \in loop[a].batch : m[1] = t =>
        /\ m \in pel
        /\ \A b \in Loops : m \in loop[b].batch => b = a

\* The document of a new attempt.
Began(d) == [d EXCEPT !.status = "running", !.attempts = @ + 1]

\* What the loop in service knows is current, given the pending messages, the
\* message noted for its task and the document: the message in hand is the one
\* that it will acknowledge, and the copy is what it was read as.
Current(z, P, noted, doc) ==
    /\ (z.pc \in Finishing /\ z.msg \in P) => noted = z.msg
    /\ (z.pc = "commit" /\ z.msg \in P) => z.found = z.msg
    /\ z.pc = "begin" => z.copy = Began(doc)
    /\ z.pc \in {"hget", "commit"} => z.copy = doc

ServersCurrent(t) ==
    \A a \in Loops : Serves(a, t) => Current(loop[a], pel, processing[t], task[t])

\* A loop takes the task up as a new attempt.
NewAttempt(t) ==
    \/ InStream(t) \/ t \in retry \/ Moving(t)
    \/ \E a \in Loops : Serves(a, t) /\ loop[a].pc \in Reading

\* The next execution of the task needs no new attempt: a loop is about to
\* execute it, or its message waits to be claimed.
Due(t) ==
    \/ \E a \in Loops : Serves(a, t) /\ loop[a].pc = "execute"
    \/ InPel(t) /\ \A a \in Loops : ~Serves(a, t)

\* Executions are paid for by attempts and faults.
Paid(t) ==
    /\ task[t] = None => runs[t] = 0
    /\ task[t] # None =>
         /\ task[t].attempts <= MaxAttempts
         /\ NewAttempt(t) => task[t].attempts < MaxAttempts
         /\ runs[t] <= task[t].attempts + FaultCount
         /\ Due(t) => runs[t] < task[t].attempts + FaultCount

\* A loop that has ended has no batch.
EndedEmpty == \A a \in Loops : loop[a].pc \in {"off", "dead"} => loop[a].batch = {}

Apart(t)  == OneToken(t) /\ OneServer(t) /\ BatchesApart(t)
Steady(t) == Apart(t) /\ ServersCurrent(t) /\ Paid(t)
SteadyInv == EndedEmpty /\ \A t \in Tasks : Steady(t)

-----------------------------------------------------------------------------
(***************************************************************************)
(* Without errors, and without any fault.                                  *)
(***************************************************************************)
NoError == Unmet({"error", "slow"})

Finished(t) == task[t] # None /\ task[t].status \in Terminal
Dead(t)     == task[t] # None /\ task[t].status = "dead_letter"

\* The message of a loop in service is pending, a finished task is quiet.
Quiet(t) ==
    /\ \A a \in Loops : Serves(a, t) => loop[a].msg \in pel
    /\ Finished(t) => ~Alive(t)
    /\ dlq[t] = IF Dead(t) THEN 1 ELSE 0

CleanInv == \A t \in Tasks : Quiet(t)

NoFault == FaultCount = 0

\* A pending message is in somebody's hands, and a task is pending until it is
\* marked, then running.
Untouched(t) ==
    /\ \A m \in pel : m[1] = t => \E a \in Loops : Serves(a, t) /\ loop[a].msg = m
    /\ \A a \in Loops : \A m \in loop[a].batch : m[1] # t
    /\ \A a \in Loops : Serves(a, t) =>
         task[t].status = IF loop[a].pc \in Reading THEN "pending" ELSE "running"
    /\ InStream(t) \/ t \in retry \/ Moving(t) => task[t].status = "pending"

-----------------------------------------------------------------------------
(***************************************************************************)
(* What each step does to the record of its loop.                          *)
(***************************************************************************)

\* The fields of a record, but for ok, which only Execute sets.
Fields(y, pc, t, c, m, f, b) ==
    /\ y \in LoopState
    /\ y.pc = pc /\ y.task = t /\ y.copy = c /\ y.msg = m /\ y.found = f /\ y.batch = b

\* A step of loop a.
Turns(a, x, y) == x \in LoopState /\ x = loop[a] /\ loop' = [loop EXCEPT ![a] = y]

LEMMA ZremEffect ==
    ASSUME TypeOK, NEW a \in Loops, NEW t \in Tasks, PromoteZrem(a, t)
    PROVE  \E x, y : /\ Turns(a, x, y) /\ x.pc = "idle"
                     /\ Fields(y, "promoting", t, x.copy, x.msg, x.found, x.batch)
<1>1. PICK x \in LoopState : x = loop[a]
  BY DEF TypeOK
<1>2. PICK y : y = [x EXCEPT !.pc = "promoting", !.task = t]
  OBVIOUS
<1>3. Fields(y, "promoting", t, x.copy, x.msg, x.found, x.batch)
  BY <1>1, <1>2 DEF Fields, LoopState, LoopPc
<1>4. loop' = [loop EXCEPT ![a] = y]
  BY <1>1, <1>2 DEF PromoteZrem, TypeOK
<1> QED
  BY <1>1, <1>3, <1>4 DEF Turns, PromoteZrem, At

LEMMA ReadEffect ==
    ASSUME TypeOK, NEW a \in Loops, Xreadgroup(a)
    PROVE  \E x, y, m : /\ Turns(a, x, y) /\ x.pc = "idle"
                        /\ m \in Messages /\ m = Head(stream)
                        /\ Fields(y, "read", m[1], x.copy, m, x.found, x.batch)
<1>1. PICK x \in LoopState : x = loop[a]
  BY DEF TypeOK
<1>2. PICK m \in Messages : m = Head(stream)
  BY DEF TypeOK, Xreadgroup
<1>3. PICK y : y = [x EXCEPT !.pc = "read", !.task = m[1], !.msg = m]
  OBVIOUS
<1>4. Fields(y, "read", m[1], x.copy, m, x.found, x.batch)
  BY <1>1, <1>2, <1>3 DEF Fields, LoopState, LoopPc, Messages, MessageOrNone
<1>5. loop' = [loop EXCEPT ![a] = y]
  BY <1>1, <1>2, <1>3 DEF Xreadgroup, TypeOK
<1> QED
  BY <1>1, <1>2, <1>4, <1>5 DEF Turns, Xreadgroup, At

LEMMA ExecuteEffect ==
    ASSUME TypeOK, NEW a \in Loops, Execute(a)
    PROVE  \E x, y : /\ Turns(a, x, y) /\ x.pc = "execute"
                     /\ Fields(y, "get", x.task, x.copy, x.msg, x.found, x.batch)
<1>1. PICK x \in LoopState : x = loop[a]
  BY DEF TypeOK
<1>2. PICK ok \in BOOLEAN : loop' = [loop EXCEPT ![a].pc = "get", ![a].ok = ok]
  BY DEF Execute
<1>3. PICK y : y = [x EXCEPT !.pc = "get", !.ok = ok]
  OBVIOUS
<1>4. Fields(y, "get", x.task, x.copy, x.msg, x.found, x.batch)
  BY <1>1, <1>3 DEF Fields, LoopState, LoopPc
<1>5. loop' = [loop EXCEPT ![a] = y]
  BY <1>1, <1>2, <1>3 DEF TypeOK
<1> QED
  BY <1>1, <1>4, <1>5 DEF Turns, Execute, At

LEMMA PromoteEffect ==
    ASSUME TypeOK, NEW a \in Loops, PromoteXadd(a)
    PROVE  \E x, y : /\ Turns(a, x, y) /\ x.pc = "promoting"
                     /\ Fields(y, IF x.batch # {} THEN "claimed" ELSE "idle", None, None, None, None, x.batch)
<1>1. PICK x \in LoopState : x = loop[a]
  BY DEF TypeOK
<1>2. x.pc = "promoting"
  BY <1>1 DEF PromoteXadd, At
<1>3. PICK y : y = [Off EXCEPT !.pc = IF x.batch # {} THEN "claimed" ELSE "idle", !.batch = x.batch]
  OBVIOUS
<1>4. Fields(y, IF x.batch # {} THEN "claimed" ELSE "idle", None, None, None, None, x.batch)
  BY <1>1, <1>2, <1>3 DEF Fields, LoopState, LoopPc, MessageOrNone, Off
<1>5. loop' = [loop EXCEPT ![a] = y]
  BY <1>1, <1>2, <1>3 DEF PromoteXadd, TypeOK, Rest
<1> QED
  BY <1>1, <1>2, <1>4, <1>5 DEF Turns

LEMMA BeganDoc ==
    ASSUME NEW d \in TaskDoc
    PROVE  /\ Began(d) \in TaskDoc
           /\ Began(d).intent = d.intent /\ Began(d).status = "running"
           /\ Began(d).attempts = d.attempts + 1 /\ d.attempts \in Nat
<1>1. d.attempts \in Nat
  BY DEF TaskDoc
<1>2. PICK n \in Nat : n = d.attempts + 1
  BY <1>1
<1>3. PICK c : c = [d EXCEPT !.status = "running", !.attempts = n]
  OBVIOUS
<1>4. c \in TaskDoc /\ c.intent = d.intent /\ c.status = "running" /\ c.attempts = n
  BY <1>3 DEF TaskDoc, Status
<1>5. Began(d) = c
  BY <1>2, <1>3 DEF Began
<1> QED
  BY <1>1, <1>2, <1>4, <1>5

LEMMA GetEffect ==
    ASSUME TypeOK, HandsFull, NEW a \in Loops, DequeueGet(a)
    PROVE  \E x, y : /\ Turns(a, x, y) /\ x.pc = "read"
                     /\ Fields(y, "begin", x.task, Began(task[x.task]), x.msg, x.found, x.batch)
<1>1. PICK x \in LoopState : x = loop[a]
  BY DEF TypeOK
<1>2. x.pc = "read"
  BY <1>1 DEF DequeueGet, At
<1>3. PICK d \in TaskDoc : d = task[x.task]
  <2>1. x.task \in Tasks /\ task[x.task] # None
    BY <1>1, <1>2 DEF HandsFull, Hand, InService, Reading
  <2> QED
    BY <2>1 DEF TypeOK
<1>4. PICK c \in TaskDoc : c = Began(d)
  BY <1>3, BeganDoc
<1>5. PICK y : y = [x EXCEPT !.pc = "begin", !.copy = c]
  OBVIOUS
<1>6. Fields(y, "begin", x.task, c, x.msg, x.found, x.batch)
  BY <1>1, <1>4, <1>5 DEF Fields, LoopState, LoopPc
<1>7. loop' = [loop EXCEPT ![a].pc = "begin", ![a].copy = c]
  BY <1>1, <1>3, <1>4 DEF DequeueGet, Began
<1>8. loop' = [loop EXCEPT ![a] = y]
  BY <1>1, <1>5, <1>7 DEF TypeOK
<1> QED
  BY <1>1, <1>2, <1>3, <1>4, <1>6, <1>8 DEF Turns

LEMMA MarkEffect ==
    ASSUME TypeOK, NEW a \in Loops, DequeueMark(a)
    PROVE  \E x, y : /\ Turns(a, x, y) /\ x.pc = "begin"
                     /\ Fields(y, "execute", x.task, None, x.msg, x.found, x.batch)
<1>1. PICK x \in LoopState : x = loop[a]
  BY DEF TypeOK
<1>2. x.pc = "begin"
  BY <1>1 DEF DequeueMark, At
<1>3. PICK y : y = [x EXCEPT !.pc = "execute", !.copy = None]
  OBVIOUS
<1>4. Fields(y, "execute", x.task, None, x.msg, x.found, x.batch)
  BY <1>1, <1>2, <1>3 DEF Fields, LoopState, LoopPc, MessageOrNone
<1>5. loop' = [loop EXCEPT ![a] = y]
  BY <1>1, <1>2, <1>3 DEF DequeueMark, TypeOK
<1> QED
  BY <1>1, <1>2, <1>4, <1>5 DEF Turns

LEMMA NextEffect ==
    ASSUME TypeOK, NEW a \in Loops, NEW m \in Messages, ClaimedNext(a, m)
    PROVE  \E x, y : /\ Turns(a, x, y) /\ x.pc = "claimed"
                     /\ Fields(y, "execute", m[1], None, m, None, x.batch \ {m})
<1>1. PICK x \in LoopState : x = loop[a]
  BY DEF TypeOK
<1>2. x.pc = "claimed"
  BY <1>1 DEF ClaimedNext, At
<1>3. PICK y : y = [Off EXCEPT !.pc = "execute", !.task = m[1], !.msg = m, !.batch = x.batch \ {m}]
  OBVIOUS
<1>4. Fields(y, "execute", m[1], None, m, None, x.batch \ {m})
  BY <1>1, <1>2, <1>3 DEF Fields, LoopState, LoopPc, MessageOrNone, Off, Messages
<1>5. loop' = [loop EXCEPT ![a] = y]
  BY <1>1, <1>2, <1>3 DEF ClaimedNext, TypeOK, Rest
<1> QED
  BY <1>1, <1>2, <1>4, <1>5 DEF Turns

LEMMA TaskEffect ==
    ASSUME TypeOK, HandsFull, NEW a \in Loops, GetTask(a)
    PROVE  \E x, y : /\ Turns(a, x, y) /\ x.pc = "get"
                     /\ Fields(y, "hget", x.task, task[x.task], x.msg, x.found, x.batch)
<1>1. PICK x \in LoopState : x = loop[a]
  BY DEF TypeOK
<1>2. x.pc = "get"
  BY <1>1 DEF GetTask, At
<1>6. task[x.task] \in TaskDoc
  <2>1. x.task \in Tasks /\ task[x.task] # None
    BY <1>1, <1>2 DEF HandsFull, Hand, InService, Finishing
  <2> QED
    BY <2>1 DEF TypeOK
<1>3. PICK y : y = [x EXCEPT !.pc = "hget", !.copy = task[x.task]]
  OBVIOUS
<1>4. Fields(y, "hget", x.task, task[x.task], x.msg, x.found, x.batch)
  BY <1>1, <1>2, <1>3, <1>6 DEF Fields, LoopState, LoopPc, MessageOrNone
<1>5. loop' = [loop EXCEPT ![a] = y]
  BY <1>1, <1>2, <1>3 DEF GetTask, TypeOK
<1> QED
  BY <1>1, <1>2, <1>4, <1>5 DEF Turns

LEMMA IdEffect ==
    ASSUME TypeOK, HandsFull, NEW a \in Loops, MessageId(a)
    PROVE  \E x, y : /\ Turns(a, x, y) /\ x.pc = "hget"
                     /\ Fields(y, "commit", x.task, x.copy, x.msg, processing[x.task], x.batch)
<1>1. PICK x \in LoopState : x = loop[a]
  BY DEF TypeOK
<1>2. x.pc = "hget"
  BY <1>1 DEF MessageId, At
<1>6. processing[x.task] \in MessageOrNone
  <2>1. x.task \in Tasks
    BY <1>1, <1>2 DEF HandsFull, Hand, InService, Finishing
  <2> QED
    BY <2>1 DEF TypeOK
<1>3. PICK y : y = [x EXCEPT !.pc = "commit", !.found = processing[x.task]]
  OBVIOUS
<1>4. Fields(y, "commit", x.task, x.copy, x.msg, processing[x.task], x.batch)
  BY <1>1, <1>2, <1>3, <1>6 DEF Fields, LoopState, LoopPc, MessageOrNone
<1>5. loop' = [loop EXCEPT ![a] = y]
  BY <1>1, <1>2, <1>3 DEF MessageId, TypeOK
<1> QED
  BY <1>1, <1>2, <1>4, <1>5 DEF Turns

LEMMA CompleteEffect ==
    ASSUME TypeOK, NEW a \in Loops, Complete(a)
    PROVE  \E x, y : /\ Turns(a, x, y) /\ x.pc = "commit"
                     /\ Fields(y, IF x.batch # {} THEN "claimed" ELSE "idle", None, None, None, None, x.batch)
<1>1. PICK x \in LoopState : x = loop[a]
  BY DEF TypeOK
<1>2. x.pc = "commit"
  BY <1>1 DEF Complete, At
<1>3. PICK y : y = [Off EXCEPT !.pc = IF x.batch # {} THEN "claimed" ELSE "idle", !.batch = x.batch]
  OBVIOUS
<1>4. Fields(y, IF x.batch # {} THEN "claimed" ELSE "idle", None, None, None, None, x.batch)
  BY <1>1, <1>2, <1>3 DEF Fields, LoopState, LoopPc, MessageOrNone, Off
<1>5. loop' = [loop EXCEPT ![a] = y]
  BY <1>1, <1>2, <1>3 DEF Complete, TypeOK, Rest
<1> QED
  BY <1>1, <1>2, <1>4, <1>5 DEF Turns

LEMMA FailEffect ==
    ASSUME TypeOK, NEW a \in Loops, Fail(a)
    PROVE  \E x, y : /\ Turns(a, x, y) /\ x.pc = "commit"
                     /\ Fields(y, IF x.batch # {} THEN "claimed" ELSE "idle", None, None, None, None, x.batch)
<1>1. PICK x \in LoopState : x = loop[a]
  BY DEF TypeOK
<1>2. x.pc = "commit"
  BY <1>1 DEF Fail, At
<1>3. PICK y : y = [Off EXCEPT !.pc = IF x.batch # {} THEN "claimed" ELSE "idle", !.batch = x.batch]
  OBVIOUS
<1>4. Fields(y, IF x.batch # {} THEN "claimed" ELSE "idle", None, None, None, None, x.batch)
  BY <1>1, <1>2, <1>3 DEF Fields, LoopState, LoopPc, MessageOrNone, Off
<1>5. loop' = [loop EXCEPT ![a] = y]
  BY <1>1, <1>2, <1>3 DEF Fail, TypeOK, Rest
<1> QED
  BY <1>1, <1>2, <1>4, <1>5 DEF Turns

LEMMA LostEffect ==
    ASSUME TypeOK, NEW a \in Loops, ReplyLost(a)
    PROVE  \E x, y : /\ Turns(a, x, y) /\ x.pc = "commit"
                     /\ Fields(y, "get", x.task, None, x.msg, x.found, x.batch)
<1>1. PICK x \in LoopState : x = loop[a]
  BY DEF TypeOK
<1>2. x.pc = "commit"
  BY <1>1 DEF ReplyLost, At
<1>3. PICK y : y = [x EXCEPT !.pc = "get", !.ok = FALSE, !.copy = None]
  OBVIOUS
<1>4. Fields(y, "get", x.task, None, x.msg, x.found, x.batch)
  BY <1>1, <1>2, <1>3 DEF Fields, LoopState, LoopPc, MessageOrNone
<1>5. loop' = [loop EXCEPT ![a] = y]
  BY <1>1, <1>2, <1>3 DEF ReplyLost, TypeOK
<1> QED
  BY <1>1, <1>2, <1>4, <1>5 DEF Turns

LEMMA SlowEffect ==
    ASSUME TypeOK, NEW a \in Loops, NEW m \in pel, ClaimSlow(a, m)
    PROVE  \E x, y : /\ Turns(a, x, y) /\ x.pc = "idle"
                     /\ Fields(y, "claimed", x.task, x.copy, x.msg, x.found, {m})
<1>1. PICK x \in LoopState : x = loop[a]
  BY DEF TypeOK
<1>2. x.pc = "idle"
  BY <1>1 DEF ClaimSlow, At
<1>6. m \in Messages
  BY DEF TypeOK
<1>3. PICK y : y = [x EXCEPT !.pc = "claimed", !.batch = {m}]
  OBVIOUS
<1>4. Fields(y, "claimed", x.task, x.copy, x.msg, x.found, {m})
  BY <1>1, <1>2, <1>3, <1>6 DEF Fields, LoopState, LoopPc, MessageOrNone
<1>5. loop' = [loop EXCEPT ![a] = y]
  BY <1>1, <1>2, <1>3 DEF ClaimSlow, TypeOK
<1> QED
  BY <1>1, <1>2, <1>4, <1>5 DEF Turns

LEMMA AutoclaimEffect ==
    ASSUME TypeOK, NEW a \in Loops, Xautoclaim(a)
    PROVE  \E x, y, S : /\ Turns(a, x, y) /\ x.pc = "idle" /\ S \subseteq Idle
                        /\ Fields(y, "claimed", x.task, x.copy, x.msg, x.found, S)
<1>1. PICK x \in LoopState : x = loop[a]
  BY DEF TypeOK
<1>2. PICK S \in SUBSET Idle : loop' = [loop EXCEPT ![a].pc = "claimed", ![a].batch = S]
  BY DEF Xautoclaim
<1>3. PICK y : y = [x EXCEPT !.pc = "claimed", !.batch = S]
  OBVIOUS
<1>4. S \subseteq Messages
  BY DEF Idle, TypeOK
<1>5. Fields(y, "claimed", x.task, x.copy, x.msg, x.found, S)
  BY <1>1, <1>3, <1>4 DEF Fields, LoopState, LoopPc
<1>6. loop' = [loop EXCEPT ![a] = y]
  BY <1>1, <1>2, <1>3 DEF TypeOK
<1>7. Turns(a, x, y)
  BY <1>1, <1>6 DEF Turns
<1>8. x.pc = "idle"
  BY <1>1 DEF Xautoclaim, At
<1> QED
  BY <1>5, <1>7, <1>8

\* An error is caught in complete, or it ends the loop.
LEMMA ErrorEffect ==
    ASSUME TypeOK, NEW a \in Loops, CommandError(a)
    PROVE  \E x, y :
             /\ Turns(a, x, y)
             /\ x.pc \notin {"off", "dead", "execute"}
             /\ \/ /\ x.pc \in {"get", "hget", "commit"} /\ severed' = severed
                   /\ Fields(y, "get", x.task, None, x.msg, x.found, x.batch)
                \/ /\ Fields(y, "dead", None, None, None, None, {})
                   /\ severed' = severed \cup Between({a})
<1>1. PICK x \in LoopState : x = loop[a]
  BY DEF TypeOK
<1>2. x.pc \notin {"off", "dead", "execute"}
  BY <1>1 DEF CommandError
<1>3. CASE x.pc \in {"get", "hget", "commit"} /\ x.ok
  <2>1. PICK y : y = [x EXCEPT !.pc = "get", !.ok = FALSE, !.copy = None]
    OBVIOUS
  <2>2. Fields(y, "get", x.task, None, x.msg, x.found, x.batch)
    BY <1>1, <2>1 DEF Fields, LoopState, LoopPc
  <2>3. /\ loop' = [loop EXCEPT ![a].pc = "get", ![a].ok = FALSE, ![a].copy = None]
        /\ severed' = severed
    BY <1>1, <1>3, Zenon DEF CommandError
  <2>4. loop' = [loop EXCEPT ![a] = y]
    BY <1>1, <2>1, <2>3 DEF TypeOK
  <2> QED
    BY <1>1, <1>2, <1>3, <2>2, <2>3, <2>4 DEF Turns
<1>4. CASE ~(x.pc \in {"get", "hget", "commit"} /\ x.ok)
  <2>1. PICK y : y = [Off EXCEPT !.pc = "dead"]
    OBVIOUS
  <2>2. Fields(y, "dead", None, None, None, None, {})
    BY <2>1 DEF Fields, LoopState, LoopPc, Off, MessageOrNone
  <2>3. /\ loop' = [loop EXCEPT ![a] = [Off EXCEPT !.pc = "dead"]]
        /\ severed' = severed \cup Between({a})
    BY <1>1, <1>4, Zenon DEF CommandError
  <2>4. loop' = [loop EXCEPT ![a] = y]
    BY <2>1, <2>3
  <2> QED
    BY <1>1, <1>2, <2>2, <2>3, <2>4 DEF Turns
<1> QED
  BY <1>3, <1>4

-----------------------------------------------------------------------------
(***************************************************************************)
(* The part that holds whatever goes wrong.                                *)
(***************************************************************************)

\* Documents are created and rewritten, never deleted, and keep their intent.
DocsGrow == \A t \in Tasks : task[t] # None =>
                task'[t] # None /\ task'[t].intent = task[t].intent
DocsSame == DocsGrow /\ \A t \in Tasks : task[t] = None => task'[t] = None

LEMMA TurnsLoop ==
    ASSUME TypeOK, NEW a \in Loops, NEW x, NEW y, Turns(a, x, y)
    PROVE  /\ \A b \in Loops : loop'[b] = IF b = a THEN y ELSE loop[b]
           /\ y \in LoopState => loop' \in [Loops -> LoopState]
BY DEF TypeOK, Turns

LEMMA KeysStay ==
    ASSUME TypeOK, KeysKept, DocsSame, UNCHANGED <<idem, api, answers>>
    PROVE  KeysKept'
<1>1. \A x \in answers : x.task \in Tasks
  BY DEF TypeOK
<1> QED
  BY <1>1 DEF KeysKept, DocsSame, DocsGrow

LEMMA HandStays ==
    ASSUME DocsGrow, NEW z, Hand(z, task)
    PROVE  Hand(z, task')
<1>1. {"begin", "hget", "commit"} \subseteq InService
  BY DEF InService, Reading, Finishing
<1> QED
  BY <1>1 DEF Hand, DocsGrow

\* One loop moves.
LEMMA HandsStayFull ==
    ASSUME TypeOK, HandsFull, DocsGrow, NEW a \in Loops, NEW x, NEW y,
           Turns(a, x, y), Hand(y, task')
    PROVE  HandsFull'
<1>1. \A b \in Loops : loop'[b] = IF b = a THEN y ELSE loop[b]
  BY TurnsLoop
<1>2. \A b \in Loops : Hand(loop[b], task')
  BY HandStays DEF HandsFull
<1> QED
  BY <1>1, <1>2 DEF HandsFull

\* What loop a may do with messages: acknowledge what it found, note its own
\* message or one of its batch as the message of a task, look one up, claim
\* what is pending and is not a fresh read.
Handles(a, x, y) ==
    /\ pel' \subseteq pel /\ \A m \in pel : m # x.found => m \in pel'
    /\ \A t \in Tasks : \/ processing'[t] \in {processing[t], None}
                        \/ processing'[t] \in x.batch \cup {x.msg} /\ processing'[t][1] = t
    /\ \/ y.found \in {None, x.found}
       \/ \E t \in Tasks : y.found = processing[t]
    /\ y.msg \in {None, x.msg} \cup x.batch
    /\ \A m \in y.batch : \/ m \in x.batch
                          \/ /\ m \in pel
                             /\ \A b \in Loops : loop[b].pc \in Reading => loop[b].msg # m
    /\ y.pc \in Reading => /\ x.pc \in Reading /\ y.msg = x.msg /\ y.found = x.found
                           /\ y.batch = x.batch
                           /\ UNCHANGED <<processing, pel>>

LEMMA NothingNewSeen ==
    ASSUME TypeOK, NEW a \in Loops, NEW x, NEW y, Turns(a, x, y), Handles(a, x, y),
           NEW m \in Messages, Seen(m)'
    PROVE  Seen(m)
<1>1. \A b \in Loops : loop'[b] = IF b = a THEN y ELSE loop[b]
  BY TurnsLoop
<1>2. m # None
  BY NoneIsNoDoc
<1>3. x = loop[a]
  BY DEF Turns
<1>4. CASE m \in pel'
  BY <1>4 DEF Handles, Seen
<1>5. ASSUME NEW t \in Tasks, processing'[t] = m
      PROVE  Seen(m)
  BY <1>2, <1>3, <1>5 DEF Handles, Seen
<1>6. ASSUME NEW b \in Loops,
             loop'[b].msg = m \/ loop'[b].found = m \/ m \in loop'[b].batch
      PROVE  Seen(m)
  <2>1. CASE b # a
    BY <1>1, <1>6, <2>1 DEF Seen
  <2>2. CASE b = a
    <3>1. y.msg = m \/ y.found = m \/ m \in y.batch
      BY <1>1, <1>6, <2>2
    <3>2. CASE y.msg = m
      BY <1>2, <1>3, <3>2 DEF Seen, Handles
    <3>3. CASE y.found = m
      BY <1>2, <1>3, <3>3 DEF Seen, Handles
    <3>4. CASE m \in y.batch
      BY <1>3, <3>4 DEF Seen, Handles
    <3> QED
      BY <3>1, <3>2, <3>3, <3>4
  <2> QED
    BY <2>1, <2>2
<1> QED
  BY <1>4, <1>5, <1>6 DEF Seen

LEMMA FreshReadsStay ==
    ASSUME TypeOK, HandsFull, FreshReads, NEW a \in Loops, NEW x, NEW y,
           Turns(a, x, y), Handles(a, x, y)
    PROVE  FreshReads'
<1>1. \A b \in Loops : loop'[b] = IF b = a THEN y ELSE loop[b]
  BY TurnsLoop
<1>2. x = loop[a]
  BY DEF Turns
<1>3. ASSUME NEW b \in Loops, loop[b].pc \in Reading
      PROVE  loop[b].msg \in Messages /\ loop[b].msg # None
  BY <1>3, NoneIsNoDoc DEF HandsFull, Hand, InService
<1>4. ASSUME NEW b \in Loops, loop'[b].pc \in Reading
      PROVE  /\ loop[b].pc \in Reading /\ loop'[b].msg = loop[b].msg
             /\ b = a => y.msg = x.msg /\ y.found = x.found /\ y.batch = x.batch
                         /\ UNCHANGED <<processing, pel>>
  BY <1>1, <1>2, <1>4 DEF Handles
<1>5. ASSUME NEW b \in Loops, loop'[b].pc \in Reading, NEW m, m = loop[b].msg
      PROVE  /\ m \in pel'
             /\ \A t \in Tasks : processing'[t] # m
             /\ \A c \in Loops : /\ loop'[c].found # m
                                 /\ m \notin loop'[c].batch
                                 /\ loop'[c].msg = m => c = b
  <2>1. /\ m \in Messages /\ m # None /\ m \in pel
        /\ \A t \in Tasks : processing[t] # m
        /\ \A c \in Loops : /\ loop[c].found # m /\ m \notin loop[c].batch
                            /\ loop[c].msg = m => c = b
    BY <1>3, <1>4, <1>5 DEF FreshReads
  <2>2. CASE b = a
    <3>1. UNCHANGED <<processing, pel>> /\ y.msg = x.msg /\ y.found = x.found /\ y.batch = x.batch
      BY <1>4, <1>5, <2>2
    <3>2. \A c \in Loops : /\ loop'[c].found = loop[c].found
                           /\ loop'[c].batch = loop[c].batch /\ loop'[c].msg = loop[c].msg
      BY <1>1, <1>2, <3>1
    <3> QED
      BY <2>1, <3>1, <3>2
  <2>3. CASE b # a
    <3>1. x.found # m /\ m \notin x.batch /\ x.msg # m
      BY <1>2, <2>1, <2>3
    <3>2. m \in pel'
      BY <2>1, <3>1 DEF Handles
    <3>3. \A t \in Tasks : processing'[t] # m
      BY <2>1, <3>1 DEF Handles
    <3>4. y.found # m
      BY <2>1, <3>1 DEF Handles
    <3>5. y.msg # m
      BY <2>1, <3>1 DEF Handles
    <3>6. m \notin y.batch
      <4>1. loop[b].pc \in Reading
        BY <1>4, <1>5
      <4> QED
        BY <1>5, <3>1, <4>1 DEF Handles
    <3>7. \A c \in Loops : /\ loop'[c].found # m
                           /\ m \notin loop'[c].batch
                           /\ loop'[c].msg = m => c = b
      BY <1>1, <2>1, <3>4, <3>5, <3>6
    <3> QED
      BY <3>2, <3>3, <3>7
  <2> QED
    BY <2>2, <2>3
<1> QED
  BY <1>4, <1>5 DEF FreshReads

LEMMA MessagesStay ==
    ASSUME TypeOK, MessagesKept, DocsGrow, NEW a \in Loops, NEW x, NEW y,
           Turns(a, x, y), Handles(a, x, y), UNCHANGED <<stream, added>>,
           \A t \in retry' : t \in Tasks /\ task[t] # None
    PROVE  MessagesKept'
<1>1. \A m \in Messages : Seen(m)' => Seen(m)
  BY NothingNewSeen
<1>2. \A m \in Messages : m[1] \in Tasks
  BY DEF Messages
<1>3. \A m \in Messages : Queued(m)' => Queued(m)
  BY DEF Queued
<1>4. \A m \in Messages : Known(m) => Known(m)'
  BY <1>2 DEF Known, DocsGrow
<1>5. \A m \in Messages : Seen(m)' => Known(m)'
  BY <1>1, <1>4 DEF MessagesKept
<1>6. \A m \in Messages : Queued(m)' => Known(m)' /\ ~Seen(m)'
  BY <1>1, <1>3, <1>4 DEF MessagesKept
<1>7. \A t \in Tasks : processing'[t] # None => processing'[t][1] = t
  BY DEF MessagesKept, Handles
<1>8. \A t \in retry' : task'[t] # None
  BY DEF DocsGrow
<1> QED
  BY <1>5, <1>6, <1>7, <1>8 DEF MessagesKept

\* A step of one loop in which no message is added or read.
LEMMA OrdinaryCore ==
    ASSUME CoreInv, NEW a \in Loops, NEW x, NEW y, Turns(a, x, y), y \in LoopState,
           Handles(a, x, y), Hand(y, task'), DocsSame,
           UNCHANGED <<idem, api, answers, stream, added>>,
           task' \in [Tasks -> TaskDoc \cup {None}],
           processing' \in [Tasks -> MessageOrNone],
           retry' \subseteq Tasks, \A t \in retry' : task[t] # None,
           dlq' \in [Tasks -> Nat], runs' \in [Tasks -> Nat],
           severed' \subseteq Tasks, faults' \in [FaultKinds -> Nat]
    PROVE  CoreInv'
<1>1. TypeOK'
  <2>1. loop' \in [Loops -> LoopState]
    BY TurnsLoop DEF CoreInv
  <2> QED
    BY <2>1 DEF CoreInv, TypeOK, Handles
<1>2. KeysKept'
  BY KeysStay DEF CoreInv
<1>3. HandsFull'
  BY HandsStayFull DEF CoreInv, DocsSame
<1>4. MessagesKept'
  BY MessagesStay DEF CoreInv, DocsSame
<1>5. FreshReads'
  BY FreshReadsStay DEF CoreInv
<1> QED
  BY <1>1, <1>2, <1>3, <1>4, <1>5 DEF CoreInv

\* Redis is left alone.
LEMMA QuietCore ==
    ASSUME CoreInv, NEW a \in Loops, NEW x, NEW y, Turns(a, x, y), y \in LoopState,
           Handles(a, x, y), Hand(y, task), UNCHANGED <<redis, api, answers>>,
           runs' \in [Tasks -> Nat],
           severed' \subseteq Tasks, faults' \in [FaultKinds -> Nat]
    PROVE  CoreInv'
<1>1. DocsSame
  BY DEF DocsSame, DocsGrow, redis
<1>2. UNCHANGED <<idem, task, stream, pel, retry, processing, dlq, added>>
  BY DEF redis
<1>3. Hand(y, task')
  BY <1>2
<1>4. /\ task' \in [Tasks -> TaskDoc \cup {None}]
      /\ processing' \in [Tasks -> MessageOrNone]
      /\ retry' \subseteq Tasks /\ \A t \in retry' : task[t] # None
      /\ dlq' \in [Tasks -> Nat]
  BY <1>2 DEF CoreInv, TypeOK, MessagesKept
<1> QED
  BY <1>1, <1>2, <1>3, <1>4, OrdinaryCore

LEMMA FaultCounted ==
    ASSUME TypeOK, NEW kind, Fault(kind)
    PROVE  /\ faults' \in [FaultKinds -> Nat] /\ kind \in FaultKinds
           /\ faults' = [faults EXCEPT ![kind] = @ + 1]
           /\ FaultCount' = FaultCount + 1 /\ FaultCount \in Nat
<1>1. kind \in FaultKinds
  BY OperationalAssumption DEF Fault
<1>2. faults \in [FaultKinds -> Nat] /\ faults' = [faults EXCEPT ![kind] = @ + 1]
  BY DEF TypeOK, Fault
<1>3. faults' \in [FaultKinds -> Nat]
  BY <1>1, <1>2
<1>4. {"crash", "api_crash", "error", "slow"} = FaultKinds
  BY DEF FaultKinds
<1>5. /\ faults["crash"] \in Nat /\ faults["api_crash"] \in Nat
      /\ faults["error"] \in Nat /\ faults["slow"] \in Nat
  BY <1>2, <1>4
<1>6. FaultCount' = FaultCount + 1
  <2>1. CASE kind = "crash"
    BY <1>2, <1>4, <1>5, <2>1 DEF FaultCount
  <2>2. CASE kind = "api_crash"
    BY <1>2, <1>4, <1>5, <2>2 DEF FaultCount
  <2>3. CASE kind = "error"
    BY <1>2, <1>4, <1>5, <2>3 DEF FaultCount
  <2>4. CASE kind = "slow"
    BY <1>2, <1>4, <1>5, <2>4 DEF FaultCount
  <2> QED
    BY <1>1, <1>4, <2>1, <2>2, <2>3, <2>4
<1>7. FaultCount \in Nat
  BY <1>5 DEF FaultCount
<1> QED
  BY <1>1, <1>2, <1>3, <1>6, <1>7

\* The steps that leave Redis alone: nothing but the loop's record changes.
LEMMA QuietSteps ==
    ASSUME CoreInv, NEW a \in Loops,
           \/ Execute(a) \/ GetTask(a) \/ DequeueGet(a) \/ MessageId(a) \/ Xautoclaim(a)
           \/ CommandError(a) \/ \E m \in pel : ClaimSlow(a, m)
    PROVE  CoreInv'
<1> USE DEF CoreInv
<1>1. /\ Hand(loop[a], task)
      /\ \A b \in Loops : Hand(loop[b], task)
      /\ runs \in [Tasks -> Nat] /\ severed \subseteq Tasks /\ faults \in [FaultKinds -> Nat]
  BY DEF HandsFull, TypeOK
<1>2. CASE Execute(a)
  <2>1. PICK x, y : /\ Turns(a, x, y) /\ x.pc = "execute"
                    /\ Fields(y, "get", x.task, x.copy, x.msg, x.found, x.batch)
    BY <1>2, ExecuteEffect
  <2>2. y \in LoopState /\ Handles(a, x, y) /\ Hand(y, task)
    BY <1>1, <1>2, <2>1
    DEF Fields, Turns, Handles, Hand, InService, Reading, Finishing, Execute, redis
  <2>3. runs' \in [Tasks -> Nat]
    <3>1. loop[a].task \in Tasks
      BY <1>1, <2>1 DEF Turns, Hand, InService, Finishing
    <3>2. PICK n \in Nat : n = IF runs[loop[a].task] > MaxAttempts + MaxFaults
                               THEN runs[loop[a].task] ELSE runs[loop[a].task] + 1
      BY <1>1, <3>1
    <3>3. runs' = [runs EXCEPT ![loop[a].task] = n]
      BY <1>2, <3>2 DEF Execute
    <3> QED
      BY <1>1, <3>1, <3>3
  <2> QED
    BY <1>1, <1>2, <2>1, <2>2, <2>3, QuietCore DEF Execute
<1>3. CASE GetTask(a)
  <2>1. PICK x, y : /\ Turns(a, x, y) /\ x.pc = "get"
                    /\ Fields(y, "hget", x.task, task[x.task], x.msg, x.found, x.batch)
    BY <1>3, TaskEffect
  <2>2. task[x.task] \in TaskDoc
    BY <1>1, <2>1 DEF Turns, Hand, InService, Finishing, TypeOK
  <2>3. y \in LoopState /\ Handles(a, x, y) /\ Hand(y, task)
    BY <1>1, <1>3, <2>1, <2>2
    DEF Fields, Turns, Handles, Hand, InService, Reading, Finishing, GetTask, redis
  <2> QED
    BY <1>1, <1>3, <2>1, <2>3, QuietCore DEF GetTask, past
<1>4. CASE DequeueGet(a)
  <2>1. PICK x, y : /\ Turns(a, x, y) /\ x.pc = "read"
                    /\ Fields(y, "begin", x.task, Began(task[x.task]), x.msg, x.found, x.batch)
    BY <1>4, GetEffect
  <2>2. PICK d \in TaskDoc : d = task[x.task]
    BY <1>1, <2>1 DEF Turns, Hand, InService, Reading, TypeOK
  <2>3. Began(d) \in TaskDoc /\ Began(d).intent = d.intent
    BY <2>2, BeganDoc
  <2>4. y \in LoopState /\ Handles(a, x, y) /\ Hand(y, task)
    BY <1>1, <1>4, <2>1, <2>2, <2>3
    DEF Fields, Turns, Handles, Hand, InService, Reading, Finishing, DequeueGet, redis
  <2> QED
    BY <1>1, <1>4, <2>1, <2>4, QuietCore DEF DequeueGet, past
<1>5. CASE MessageId(a)
  <2>1. PICK x, y : /\ Turns(a, x, y) /\ x.pc = "hget"
                    /\ Fields(y, "commit", x.task, x.copy, x.msg, processing[x.task], x.batch)
    BY <1>5, IdEffect
  <2>2. x.task \in Tasks
    BY <1>1, <2>1 DEF Turns, Hand, InService, Finishing
  <2>3. processing[x.task] # None => processing[x.task][1] = x.task
    BY <2>2 DEF MessagesKept
  <2>4. y \in LoopState /\ Handles(a, x, y) /\ Hand(y, task)
    BY <1>1, <1>5, <2>1, <2>2, <2>3
    DEF Fields, Turns, Handles, Hand, InService, Reading, Finishing, MessageId, redis
  <2> QED
    BY <1>1, <1>5, <2>1, <2>4, QuietCore DEF MessageId, past
<1>6. CASE Xautoclaim(a)
  <2>1. PICK x, y, S : /\ Turns(a, x, y) /\ x.pc = "idle" /\ S \subseteq Idle
                       /\ Fields(y, "claimed", x.task, x.copy, x.msg, x.found, S)
    BY <1>6, AutoclaimEffect
  <2>2. \A m \in S : m \in pel /\ \A b \in Loops : loop[b].pc \in Reading => loop[b].msg # m
    BY <2>1 DEF Idle, Held, Reading
  <2>3. y \in LoopState /\ Handles(a, x, y) /\ Hand(y, task)
    BY <1>1, <1>6, <2>1, <2>2
    DEF Fields, Turns, Handles, Hand, InService, Reading, Finishing, Xautoclaim, redis
  <2> QED
    BY <1>1, <1>6, <2>1, <2>3, QuietCore DEF Xautoclaim, past
<1>7. CASE CommandError(a)
  <2>1. PICK x, y :
             /\ Turns(a, x, y)
             /\ x.pc \notin {"off", "dead", "execute"}
             /\ \/ /\ x.pc \in {"get", "hget", "commit"} /\ severed' = severed
                   /\ Fields(y, "get", x.task, None, x.msg, x.found, x.batch)
                \/ /\ Fields(y, "dead", None, None, None, None, {})
                   /\ severed' = severed \cup Between({a})
    BY <1>7, ErrorEffect
  <2>2. severed' \subseteq Tasks
    <3>1. Between({a}) \subseteq Tasks
      BY <1>1 DEF Between, At, Hand
    <3> QED
      BY <1>1, <2>1, <3>1
  <2>3. y \in LoopState
    BY <2>1 DEF Fields
  <2>4. Handles(a, x, y)
    BY <1>1, <1>7, <2>1
    DEF Fields, Turns, Handles, InService, Reading, Finishing, CommandError, redis
  <2>5. Hand(y, task)
    BY <1>1, <2>1 DEF Fields, Turns, Hand, InService, Reading, Finishing
  <2>6. faults' \in [FaultKinds -> Nat]
    BY <1>7, FaultCounted DEF CommandError
  <2> QED
    BY <1>1, <1>7, <2>1, <2>2, <2>3, <2>4, <2>5, <2>6, QuietCore DEF CommandError
<1>8. ASSUME NEW m \in pel, ClaimSlow(a, m)
      PROVE  CoreInv'
  <2>1. PICK x, y : /\ Turns(a, x, y) /\ x.pc = "idle"
                    /\ Fields(y, "claimed", x.task, x.copy, x.msg, x.found, {m})
    BY <1>8, SlowEffect
  <2>2. \A b \in Loops : loop[b].pc \in Reading => loop[b].msg # m
    <3>1. PICK c \in Loops : At(c, "execute") /\ (loop[c].msg = m \/ m \in loop[c].batch)
      BY <1>8 DEF ClaimSlow
    <3> QED
      BY <3>1 DEF FreshReads, At, Reading
  <2>3. y \in LoopState /\ Handles(a, x, y) /\ Hand(y, task)
    BY <1>1, <1>8, <2>1, <2>2
    DEF Fields, Turns, Handles, Hand, InService, Reading, Finishing, ClaimSlow, redis
  <2>4. faults' \in [FaultKinds -> Nat]
    BY <1>8, FaultCounted DEF ClaimSlow
  <2> QED
    BY <1>1, <1>8, <2>1, <2>3, <2>4, QuietCore DEF ClaimSlow
<1> QED
  BY <1>2, <1>3, <1>4, <1>5, <1>6, <1>7, <1>8

LEMMA StatusDoc ==
    ASSUME NEW c \in TaskDoc, NEW s \in Status
    PROVE  LET d == [c EXCEPT !.status = s] IN
           /\ d \in TaskDoc /\ d.status = s
           /\ d.intent = c.intent /\ d.attempts = c.attempts
BY DEF TaskDoc

LEMMA WriteDoc ==
    ASSUME TypeOK, NEW t \in Tasks, task[t] # None, NEW d \in TaskDoc,
           d.intent = task[t].intent, task' = [task EXCEPT ![t] = d]
    PROVE  DocsSame /\ task' \in [Tasks -> TaskDoc \cup {None}]
BY NoneIsNoDoc DEF TypeOK, DocsSame, DocsGrow

\* What the transactions of complete and fail do: the document is written
\* from the copy, the message that was looked up is acknowledged.
Commits(x, s) ==
    /\ task' = [task EXCEPT ![x.task] = [x.copy EXCEPT !.status = s]]
    /\ pel' = pel \ {x.found}
    /\ processing' = [processing EXCEPT ![x.task] = None]

LEMMA CommitCore ==
    ASSUME CoreInv, NEW a \in Loops, NEW x, NEW y, Turns(a, x, y),
           x.pc = "commit", NEW s \in Status, Commits(x, s),
           \/ Fields(y, IF x.batch # {} THEN "claimed" ELSE "idle",
                     None, None, None, None, x.batch)
           \/ Fields(y, "get", x.task, None, x.msg, x.found, x.batch),
           UNCHANGED <<idem, api, answers, stream, added, runs, severed>>,
           retry' \subseteq retry \cup {x.task},
           dlq' \in [Tasks -> Nat], faults' \in [FaultKinds -> Nat]
    PROVE  CoreInv'
<1> USE DEF CoreInv
<1>1. x = loop[a] /\ Hand(x, task)
  BY DEF Turns, HandsFull
<1>2. /\ x.task \in Tasks /\ task[x.task] # None /\ x.msg \in Messages /\ x.msg[1] = x.task
      /\ x.copy \in TaskDoc /\ x.copy.intent = task[x.task].intent
      /\ x.found # None => x.found[1] = x.task
  BY <1>1 DEF Hand, InService, Finishing
<1>3. PICK d \in TaskDoc : d = [x.copy EXCEPT !.status = s] /\ d.intent = x.copy.intent
  BY <1>2, StatusDoc
<1>4. task' = [task EXCEPT ![x.task] = d]
  BY <1>3 DEF Commits
<1>5. DocsSame /\ task' \in [Tasks -> TaskDoc \cup {None}]
  BY <1>2, <1>3, <1>4, WriteDoc
<1>6. y \in LoopState
  BY DEF Fields
<1>7. Handles(a, x, y)
  BY <1>2 DEF Handles, Commits, Fields, Reading, TypeOK
<1>8. Hand(y, task')
  <2>1. task'[x.task] # None
    BY <1>2, <1>5 DEF DocsSame, DocsGrow
  <2> QED
    BY <1>2, <2>1 DEF Hand, Fields, InService, Reading, Finishing
<1>9. processing' \in [Tasks -> MessageOrNone]
  BY DEF Commits, TypeOK, MessageOrNone
<1>10. retry' \subseteq Tasks /\ \A t \in retry' : task[t] # None
  BY <1>2 DEF MessagesKept, TypeOK
<1>11. runs' \in [Tasks -> Nat] /\ severed' \subseteq Tasks
  BY DEF TypeOK
<1> QED
  BY <1>5, <1>6, <1>7, <1>8, <1>9, <1>10, <1>11, OrdinaryCore

LEMMA DlqType ==
    ASSUME TypeOK, NEW t \in Tasks
    PROVE  DlqAdd(t) \in [Tasks -> Nat]
BY DEF DlqAdd, TypeOK

LEMMA CommitSteps ==
    ASSUME CoreInv, NEW a \in Loops, Complete(a) \/ Fail(a) \/ ReplyLost(a)
    PROVE  CoreInv'
<1> USE DEF CoreInv
<1>1. CASE Complete(a)
  <2>1. PICK x, y : /\ Turns(a, x, y) /\ x.pc = "commit"
                    /\ Fields(y, IF x.batch # {} THEN "claimed" ELSE "idle",
                              None, None, None, None, x.batch)
    BY <1>1, CompleteEffect
  <2>2. Commits(x, "completed") /\ "completed" \in Status
    BY <1>1, <2>1 DEF Turns, Complete, Commits, Acknowledge, Status
  <2>3. retry' \subseteq retry \cup {x.task} /\ dlq' \in [Tasks -> Nat]
        /\ faults' \in [FaultKinds -> Nat]
    BY <1>1 DEF Complete, past, TypeOK
  <2> QED
    BY <1>1, <2>1, <2>2, <2>3, CommitCore DEF Complete, past
<1>2. CASE Fail(a)
  <2>1. PICK x, y : /\ Turns(a, x, y) /\ x.pc = "commit"
                    /\ Fields(y, IF x.batch # {} THEN "claimed" ELSE "idle",
                              None, None, None, None, x.batch)
    BY <1>2, FailEffect
  <2>2. PICK s \in Status : Commits(x, s)
    BY <1>2, <2>1 DEF Turns, Fail, Commits, Acknowledge, Status
  <2>3. x.task \in Tasks
    BY <2>1 DEF Turns, HandsFull, Hand, InService, Finishing
  <2>4. dlq' \in [Tasks -> Nat]
    BY <1>2, <2>1, <2>3, DlqType DEF Turns, Fail, TypeOK
  <2>5. retry' \subseteq retry \cup {x.task} /\ faults' \in [FaultKinds -> Nat]
    BY <1>2, <2>1 DEF Turns, Fail, past, TypeOK
  <2> QED
    BY <1>2, <2>1, <2>2, <2>4, <2>5, CommitCore DEF Fail, past
<1>3. CASE ReplyLost(a)
  <2>1. PICK x, y : /\ Turns(a, x, y) /\ x.pc = "commit"
                    /\ Fields(y, "get", x.task, None, x.msg, x.found, x.batch)
    BY <1>3, LostEffect
  <2>2. Commits(x, "completed") /\ "completed" \in Status
    BY <1>3, <2>1 DEF Turns, ReplyLost, Commits, Acknowledge, Status
  <2>3. faults' \in [FaultKinds -> Nat]
    BY <1>3, FaultCounted DEF ReplyLost
  <2>4. retry' \subseteq retry \cup {x.task} /\ dlq' \in [Tasks -> Nat]
    BY <1>3 DEF ReplyLost, TypeOK
  <2> QED
    BY <1>3, <2>1, <2>2, <2>3, <2>4, CommitCore DEF ReplyLost
<1> QED
  BY <1>1, <1>2, <1>3

\* Taking a task up, and taking it out of the sorted set.
LEMMA TakeSteps ==
    ASSUME CoreInv, NEW a \in Loops,
           \/ DequeueMark(a)
           \/ \E m \in loop[a].batch : ClaimedNext(a, m)
           \/ \E t \in Tasks : PromoteZrem(a, t)
    PROVE  CoreInv'
<1> USE DEF CoreInv
<1>1. /\ Hand(loop[a], task) /\ loop[a].batch \subseteq Messages
      /\ runs \in [Tasks -> Nat] /\ severed \subseteq Tasks /\ faults \in [FaultKinds -> Nat]
      /\ dlq \in [Tasks -> Nat] /\ task \in [Tasks -> TaskDoc \cup {None}]
      /\ processing \in [Tasks -> MessageOrNone]
      /\ retry \subseteq Tasks /\ \A t \in retry : task[t] # None
  BY DEF HandsFull, TypeOK, LoopState, MessagesKept
<1>2. CASE DequeueMark(a)
  <2>1. PICK x, y : /\ Turns(a, x, y) /\ x.pc = "begin"
                    /\ Fields(y, "execute", x.task, None, x.msg, x.found, x.batch)
    BY <1>2, MarkEffect
  <2>2. x = loop[a]
    BY <2>1 DEF Turns
  <2>3. /\ x.task \in Tasks /\ task[x.task] # None /\ x.msg \in Messages /\ x.msg[1] = x.task
        /\ x.copy \in TaskDoc /\ x.copy.intent = task[x.task].intent
        /\ x.found # None => x.found[1] = x.task
    BY <1>1, <2>1, <2>2 DEF Hand, InService, Reading
  <2>4. task' = [task EXCEPT ![x.task] = x.copy]
    BY <1>2, <2>2 DEF DequeueMark
  <2>5. DocsSame /\ task' \in [Tasks -> TaskDoc \cup {None}]
    BY <2>3, <2>4, WriteDoc
  <2>6. processing' = [processing EXCEPT ![x.task] = x.msg]
    BY <1>2, <2>2 DEF DequeueMark
  <2>7. y \in LoopState /\ processing' \in [Tasks -> MessageOrNone]
    BY <1>1, <2>1, <2>3, <2>6 DEF Fields, MessageOrNone
  <2>8. Handles(a, x, y)
    BY <1>1, <1>2, <2>1, <2>3, <2>6 DEF Handles, Fields, Reading, DequeueMark
  <2>9. Hand(y, task')
    <3>1. task'[x.task] # None
      BY <2>3, <2>5 DEF DocsSame, DocsGrow
    <3> QED
      BY <2>1, <2>3, <3>1 DEF Hand, Fields, InService, Reading, Finishing
  <2> QED
    BY <1>1, <1>2, <2>1, <2>5, <2>7, <2>8, <2>9, OrdinaryCore DEF DequeueMark, past
<1>3. ASSUME NEW m \in loop[a].batch, ClaimedNext(a, m)
      PROVE  CoreInv'
  <2>1. m \in Messages /\ m[1] \in Tasks
    BY <1>1 DEF Messages
  <2>2. PICK x, y : /\ Turns(a, x, y) /\ x.pc = "claimed"
                    /\ Fields(y, "execute", m[1], None, m, None, x.batch \ {m})
    BY <1>3, <2>1, NextEffect
  <2>3. x = loop[a]
    BY <2>2 DEF Turns
  <2>4. Seen(m) /\ Known(m)
    BY <2>1 DEF Seen, MessagesKept
  <2>5. DocsSame /\ UNCHANGED task
    BY <1>3 DEF ClaimedNext, DocsSame, DocsGrow
  <2>6. processing' = [processing EXCEPT ![m[1]] = m]
    BY <1>3 DEF ClaimedNext
  <2>7. y \in LoopState /\ processing' \in [Tasks -> MessageOrNone]
    BY <1>1, <2>1, <2>2, <2>6 DEF Fields, MessageOrNone
  <2>8. Handles(a, x, y)
    BY <1>1, <1>3, <2>1, <2>2, <2>3, <2>6 DEF Handles, Fields, Reading, ClaimedNext
  <2>9. Hand(y, task')
    BY <2>1, <2>2, <2>4, <2>5 DEF Hand, Fields, InService, Reading, Finishing, Known
  <2> QED
    BY <1>1, <1>3, <2>2, <2>5, <2>7, <2>8, <2>9, OrdinaryCore DEF ClaimedNext, past
<1>4. ASSUME NEW t \in Tasks, PromoteZrem(a, t)
      PROVE  CoreInv'
  <2>1. PICK x, y : /\ Turns(a, x, y) /\ x.pc = "idle"
                    /\ Fields(y, "promoting", t, x.copy, x.msg, x.found, x.batch)
    BY <1>4, ZremEffect
  <2>2. x = loop[a]
    BY <2>1 DEF Turns
  <2>3. DocsSame /\ UNCHANGED task /\ task[t] # None
    BY <1>1, <1>4 DEF PromoteZrem, DocsSame, DocsGrow
  <2>4. Handles(a, x, y)
    BY <1>1, <1>4, <2>1 DEF Handles, Fields, Reading, PromoteZrem
  <2>5. Hand(y, task')
    BY <1>1, <2>1, <2>2, <2>3 DEF Hand, Fields, InService, Reading, Finishing
  <2>6. y \in LoopState /\ retry' \subseteq Tasks /\ \A u \in retry' : task[u] # None
    BY <1>1, <1>4, <2>1 DEF Fields, PromoteZrem
  <2> QED
    BY <1>1, <1>4, <2>1, <2>3, <2>4, <2>5, <2>6, OrdinaryCore DEF PromoteZrem, past
<1> QED
  BY <1>2, <1>3, <1>4

\* A message is added: it is a new one.
LEMMA AddedMessage ==
    ASSUME TypeOK, MessagesKept, NEW t \in Tasks, Xadd(t), DocsGrow, task'[t] # None,
           \A m \in Messages : Seen(m)' => Seen(m),
           \A u \in Tasks : processing'[u] # None => processing'[u][1] = u,
           \A u \in retry' : u \in Tasks /\ task[u] # None
    PROVE  /\ MessagesKept'
           /\ stream' \in Seq(Messages) /\ added' \in [Tasks -> Nat]
<1>1. PICK m : m = <<t, added[t] + 1>>
  OBVIOUS
<1>2. added[t] \in Nat
  BY DEF TypeOK
<1>3. m \in Messages /\ m[1] = t /\ m[2] = added[t] + 1
  BY <1>1, <1>2 DEF Messages
<1>4. stream \in Seq(Messages) /\ stream' = Append(stream, m)
  BY <1>1 DEF Xadd, TypeOK
<1>5. added' = [added EXCEPT ![t] = @ + 1]
  BY DEF Xadd
<1>6. stream' \in Seq(Messages) /\ added' \in [Tasks -> Nat]
  BY <1>2, <1>3, <1>4, <1>5 DEF TypeOK
<1>7. \A n \in Messages : n[1] \in Tasks /\ n[2] \in Nat
  BY DEF Messages
<1>8. ASSUME NEW n \in Messages, Known(n)
      PROVE  Known(n)' /\ n # m
  <2>1. added'[n[1]] \in Nat /\ added[n[1]] <= added'[n[1]] /\ added[n[1]] \in Nat
    BY <1>2, <1>5, <1>7 DEF TypeOK
  <2>2. Known(n)'
    BY <1>7, <1>8, <2>1 DEF Known, DocsGrow
  <2>3. n # m
    BY <1>2, <1>3, <1>7, <1>8 DEF Known
  <2> QED
    BY <2>2, <2>3
<1>9. Known(m)'
  BY <1>2, <1>3, <1>5 DEF Known, TypeOK
<1>10. \A n \in Messages : Queued(n)' => Queued(n) \/ n = m
  BY <1>4 DEF Queued
<1>11. \A n \in Messages : Seen(n)' => Known(n)'
  BY <1>8 DEF MessagesKept
<1>12. \A n \in Messages : Queued(n)' => Known(n)' /\ ~Seen(n)'
  BY <1>3, <1>8, <1>9, <1>10 DEF MessagesKept
<1>13. \A i \in DOMAIN stream : stream[i] # m
  <2> SUFFICES ASSUME NEW i \in DOMAIN stream
               PROVE  stream[i] # m
    OBVIOUS
  <2>1. stream[i] \in Messages /\ Queued(stream[i])
    BY <1>4 DEF Queued
  <2> QED
    BY <1>8, <2>1 DEF MessagesKept
<1>14. \A i, j \in DOMAIN stream' : stream'[i] = stream'[j] => i = j
  <2>1. /\ DOMAIN stream' = 1..(Len(stream) + 1) /\ Len(stream) \in Nat
        /\ DOMAIN stream = 1..Len(stream)
        /\ \A i \in DOMAIN stream' : stream'[i] = IF i = Len(stream) + 1 THEN m ELSE stream[i]
    BY <1>4
  <2>2. \A i \in DOMAIN stream' : i = Len(stream) + 1 \/ i \in DOMAIN stream
    BY <2>1
  <2> QED
    BY <1>13, <2>1, <2>2 DEF MessagesKept
<1>15. \A u \in retry' : task'[u] # None
  BY DEF DocsGrow
<1> QED
  BY <1>6, <1>11, <1>12, <1>14, <1>15 DEF MessagesKept

LEMMA PromoteStep ==
    ASSUME CoreInv, NEW a \in Loops, PromoteXadd(a)
    PROVE  CoreInv'
<1> USE DEF CoreInv
<1>1. PICK x, y : /\ Turns(a, x, y) /\ x.pc = "promoting"
                  /\ Fields(y, IF x.batch # {} THEN "claimed" ELSE "idle",
                            None, None, None, None, x.batch)
  BY PromoteEffect
<1>2. x = loop[a] /\ x.task \in Tasks /\ task[x.task] # None
  BY <1>1 DEF Turns, HandsFull, Hand
<1>3. /\ UNCHANGED <<idem, task, pel, retry, processing, dlq, api, answers, runs, severed, faults>>
      /\ Xadd(x.task)
  BY <1>2 DEF PromoteXadd, past
<1>4. Handles(a, x, y) /\ Hand(y, task') /\ y \in LoopState
  BY <1>1, <1>2, <1>3 DEF Handles, Hand, Fields, Reading, InService, Finishing
<1>5. DocsSame
  BY <1>3 DEF DocsSame, DocsGrow
<1>6. \A m \in Messages : Seen(m)' => Seen(m)
  BY <1>1, <1>4, NothingNewSeen
<1>7. MessagesKept' /\ stream' \in Seq(Messages) /\ added' \in [Tasks -> Nat]
  <2>1. /\ \A u \in Tasks : processing'[u] # None => processing'[u][1] = u
        /\ \A u \in retry' : u \in Tasks /\ task[u] # None
    BY <1>3 DEF MessagesKept, TypeOK
  <2> QED
    BY <1>2, <1>3, <1>5, <1>6, <2>1, AddedMessage DEF DocsSame
<1>8. TypeOK'
  <2>1. loop' \in [Loops -> LoopState]
    BY <1>1, <1>4, TurnsLoop
  <2> QED
    BY <1>3, <1>7, <2>1 DEF TypeOK
<1>9. KeysKept' /\ HandsFull' /\ FreshReads'
  BY <1>1, <1>3, <1>4, <1>5, KeysStay, HandsStayFull, FreshReadsStay DEF DocsSame
<1> QED
  BY <1>7, <1>8, <1>9

\* A message is read: nobody has seen it.
LEMMA ReadStep ==
    ASSUME CoreInv, NEW a \in Loops, Xreadgroup(a)
    PROVE  CoreInv'
<1> USE DEF CoreInv
<1>1. PICK x, y, m : /\ Turns(a, x, y) /\ x.pc = "idle"
                     /\ m \in Messages /\ m = Head(stream)
                     /\ Fields(y, "read", m[1], x.copy, m, x.found, x.batch)
  BY ReadEffect
<1>2. /\ stream \in Seq(Messages) /\ stream # <<>>
      /\ stream' = Tail(stream) /\ pel' = pel \cup {m}
      /\ UNCHANGED <<idem, task, retry, processing, dlq, added, api, answers, runs, severed, faults>>
  BY <1>1 DEF Xreadgroup, TypeOK, past
<1>3. /\ Len(stream) \in Nat /\ 1 \in DOMAIN stream /\ m = stream[1]
      /\ DOMAIN stream = 1..Len(stream)
      /\ stream' \in Seq(Messages)
      /\ DOMAIN stream' = 1..(Len(stream) - 1)
      /\ \A i \in DOMAIN stream' : i + 1 \in DOMAIN stream /\ stream'[i] = stream[i + 1]
  BY <1>1, <1>2
<1>4. Queued(m) /\ Known(m) /\ ~Seen(m) /\ m # None /\ m[1] \in Tasks
  BY <1>1, <1>3, NoneIsNoDoc DEF Queued, MessagesKept, Messages
<1>5. \A b \in Loops : loop'[b] = IF b = a THEN y ELSE loop[b]
  BY <1>1, TurnsLoop
<1>6. x = loop[a] /\ Hand(x, task) /\ x.msg = None /\ x.found = None
  BY <1>1 DEF Turns, HandsFull, Hand, InService, Reading, Finishing
<1>7. DocsSame
  BY <1>2 DEF DocsSame, DocsGrow
<1>8. HandsFull'
  <2>1. Hand(y, task')
    BY <1>1, <1>2, <1>4, <1>6 DEF Hand, Fields, InService, Reading, Finishing, Known
  <2> QED
    BY <1>1, <1>7, <2>1, HandsStayFull DEF DocsSame
<1>9. \A n \in Messages : Seen(n)' => Seen(n) \/ n = m
  BY <1>1, <1>2, <1>5, <1>6 DEF Seen, Fields
<1>10. \A n \in Messages : Queued(n)' => Queued(n) /\ n # m
  <2> SUFFICES ASSUME NEW n \in Messages, NEW i \in DOMAIN stream', stream'[i] = n
               PROVE  Queued(n) /\ n # m
    BY DEF Queued
  <2>1. i + 1 \in DOMAIN stream /\ stream[i + 1] = n /\ i \in 1..(Len(stream) - 1)
    BY <1>3
  <2>2. i + 1 # 1
    BY <1>3, <2>1
  <2> QED
    BY <1>3, <2>1, <2>2 DEF Queued, MessagesKept
<1>11. MessagesKept'
  <2>1. \A n \in Messages : Known(n) => Known(n)'
    BY <1>2 DEF Known
  <2>2. \A n \in Messages : Seen(n)' => Known(n)'
    BY <1>4, <1>9, <2>1 DEF MessagesKept
  <2>3. \A n \in Messages : Queued(n)' => Known(n)' /\ ~Seen(n)'
    BY <1>9, <1>10, <2>1 DEF MessagesKept
  <2>4. \A i, j \in DOMAIN stream' : stream'[i] = stream'[j] => i = j
    <3> SUFFICES ASSUME NEW i \in DOMAIN stream', NEW j \in DOMAIN stream',
                        stream'[i] = stream'[j]
                 PROVE  i = j
      OBVIOUS
    <3>1. i \in Nat /\ j \in Nat /\ i + 1 = j + 1
      BY <1>3 DEF MessagesKept
    <3> QED
      BY <3>1
  <2> QED
    BY <1>2, <2>2, <2>3, <2>4 DEF MessagesKept
<1>12. FreshReads'
  <2>1. ASSUME NEW b \in Loops, loop'[b].pc \in Reading, NEW n, n = loop'[b].msg
        PROVE  /\ n \in pel'
               /\ \A t \in Tasks : processing'[t] # n
               /\ \A c \in Loops : /\ loop'[c].found # n
                                   /\ n \notin loop'[c].batch
                                   /\ loop'[c].msg = n => c = b
    <3>1. CASE b = a
      <4>1. n = m
        BY <1>1, <1>5, <2>1, <3>1 DEF Fields
      <4>2. \A c \in Loops : c # a => loop'[c].msg # m /\ loop'[c].found # m /\ m \notin loop'[c].batch
        BY <1>4, <1>5 DEF Seen
      <4>3. y.found # m /\ m \notin y.batch
        BY <1>1, <1>4, <1>6 DEF Seen, Fields
      <4>4. \A t \in Tasks : processing'[t] # m
        BY <1>2, <1>4 DEF Seen
      <4> QED
        BY <1>2, <1>5, <3>1, <4>1, <4>2, <4>3, <4>4
    <3>2. CASE b # a
      <4>1. /\ n = loop[b].msg /\ n \in pel
            /\ \A t \in Tasks : processing[t] # n
            /\ \A c \in Loops : /\ loop[c].found # n /\ n \notin loop[c].batch
                                /\ loop[c].msg = n => c = b
        BY <1>5, <2>1, <3>2 DEF FreshReads
      <4>2. n # m
        BY <1>4, <4>1 DEF Seen
      <4>3. y.found # n /\ n \notin y.batch /\ y.msg # n
        BY <1>1, <1>6, <4>1, <4>2 DEF Fields
      <4> QED
        BY <1>2, <1>5, <4>1, <4>3
    <3> QED
      BY <3>1, <3>2
  <2> QED
    BY <2>1 DEF FreshReads
<1>13. TypeOK'
  <2>1. loop' \in [Loops -> LoopState]
    BY <1>1, TurnsLoop DEF Fields
  <2> QED
    BY <1>1, <1>2, <1>3, <2>1 DEF TypeOK
<1>14. KeysKept'
  BY <1>2, <1>7, KeysStay
<1> QED
  BY <1>8, <1>11, <1>12, <1>13, <1>14

\* A loop that has just been started or has ended has nothing in hand.
Empty(z) == \E pc \in {"off", "idle"} : Fields(z, pc, None, None, None, None, {})

LEMMA EmptyHand ==
    ASSUME NEW z, Empty(z)
    PROVE  /\ z \in LoopState /\ z.pc \in {"off", "idle"} /\ z.msg = None /\ z.found = None
           /\ z.batch = {} /\ z.pc \notin InService \cup {"promoting"}
           /\ \A tab : Hand(z, tab)
BY DEF Empty, Fields, Hand, InService, Reading, Finishing

LEMMA OffIsEmpty == Empty(Off) /\ Empty([Off EXCEPT !.pc = "idle"])
<1>1. Fields(Off, "off", None, None, None, None, {})
  BY DEF Fields, Off, LoopState, LoopPc, MessageOrNone
<1>2. Fields([Off EXCEPT !.pc = "idle"], "idle", None, None, None, None, {})
  BY DEF Fields, Off, LoopState, LoopPc, MessageOrNone
<1> QED
  BY <1>1, <1>2 DEF Empty

LEMMA ProcessLoops ==
    ASSUME NEW p, Start(p) \/ Crash(p)
    PROVE  /\ DOMAIN loop' = Loops /\ loop' = [b \in Loops |-> loop'[b]]
           /\ \A b \in Loops : loop'[b] = loop[b] \/ Empty(loop'[b])
           /\ UNCHANGED <<redis, api, answers, runs>>
<1>1. CASE Start(p)
  BY <1>1, OffIsEmpty DEF Start, past
<1>2. CASE Crash(p)
  BY <1>2, OffIsEmpty DEF Crash
<1> QED
  BY <1>1, <1>2

LEMMA ProcessCore ==
    ASSUME CoreInv, NEW p, Start(p) \/ Crash(p)
    PROVE  CoreInv'
<1> USE DEF CoreInv
<1>1. /\ DOMAIN loop' = Loops /\ loop' = [b \in Loops |-> loop'[b]]
      /\ \A b \in Loops : loop'[b] = loop[b] \/ Empty(loop'[b])
      /\ UNCHANGED <<idem, task, stream, pel, retry, processing, dlq, added, api, answers, runs>>
  BY ProcessLoops DEF redis
<1>2. \A b \in Loops : Empty(loop'[b]) =>
          /\ loop'[b] \in LoopState /\ loop'[b].pc \in {"off", "idle"} /\ loop'[b].msg = None
          /\ loop'[b].found = None /\ loop'[b].batch = {} /\ loop'[b].pc \notin InService
          /\ Hand(loop'[b], task)
  BY EmptyHand
<1>3. \A b \in Loops : loop'[b] \in LoopState
  BY <1>1, <1>2 DEF TypeOK
<1>4. severed' \subseteq Tasks /\ faults' \in [FaultKinds -> Nat]
  <2>1. CASE Start(p)
    BY <2>1 DEF Start, past, TypeOK
  <2>2. CASE Crash(p)
    <3>1. Between({b \in Loops : b[1] = p}) \subseteq Tasks
      BY DEF Between, At, HandsFull, Hand
    <3>2. severed' \subseteq Tasks
      BY <2>2, <3>1 DEF Crash, TypeOK
    <3> QED
      BY <2>2, <3>2, FaultCounted DEF Crash
  <2> QED
    BY <2>1, <2>2
<1>5. TypeOK'
  <2>1. loop' \in [Loops -> LoopState]
    BY <1>1, <1>3
  <2> QED
    BY <1>1, <1>4, <2>1 DEF TypeOK
<1>6. KeysKept'
  BY <1>1 DEF KeysKept
<1>7. HandsFull'
  BY <1>1, <1>2 DEF HandsFull
<1>8. \A m \in Messages : Seen(m)' => Seen(m)
  BY <1>1, <1>2, NoneIsNoDoc DEF Seen
<1>9. MessagesKept'
  <2>1. \A m \in Messages : Known(m)' = Known(m) /\ Queued(m)' = Queued(m)
    BY <1>1 DEF Known, Queued
  <2> QED
    BY <1>1, <1>8, <2>1 DEF MessagesKept
<1>10. FreshReads'
  <2>1. ASSUME NEW a \in Loops, loop'[a].pc \in Reading
        PROVE  loop'[a] = loop[a] /\ loop[a].msg # None
    BY <1>1, <1>2, <2>1, NoneIsNoDoc DEF HandsFull, Hand, InService
  <2> QED
    BY <1>1, <1>2, <2>1 DEF FreshReads
<1> QED
  BY <1>5, <1>6, <1>7, <1>9, <1>10

\* Steps of the API leave the loops and the messages alone, but for the message
\* of a new task.
LEMMA ApiType ==
    ASSUME TypeOK, NEW h \in Handlers, NEW r \in ApiState, api' = [api EXCEPT ![h] = r]
    PROVE  /\ api' \in [Handlers -> ApiState]
           /\ \A g \in Handlers : api'[g] = IF g = h THEN r ELSE api[g]
BY DEF TypeOK

LEMMA NoRequestType == NoRequest \in ApiState /\ NoRequest.pc = "none"
BY DEF NoRequest, ApiState

LEMMA EnqueueCore ==
    ASSUME CoreInv, NEW h \in Handlers, NEW t \in Tasks, NEW r \in Requests,
           Enqueue(h, t, r[1], r[2])
    PROVE  CoreInv'
<1> USE DEF CoreInv
<1>1. PICK k \in Keys \cup {None}, i \in Intents : k = r[1] /\ i = r[2]
  BY OperationalAssumption
<1>2. PICK pc \in {"create", "existing"} :
        pc = IF k = None \/ idem[k] = None THEN "create" ELSE "existing"
  OBVIOUS
<1>3. PICK q : q = [pc |-> pc, key |-> k, task |-> t, intent |-> i]
  OBVIOUS
<1>4. q \in ApiState /\ q.pc = pc /\ q.key = k /\ q.task = t /\ q.intent = i
  BY <1>1, <1>2, <1>3 DEF ApiState
<1>5. api' = [api EXCEPT ![h] = q] /\ api[h].pc = "none" /\ Fresh(t)
  BY <1>1, <1>2, <1>3 DEF Enqueue
<1>6. /\ api' \in [Handlers -> ApiState]
      /\ \A g \in Handlers : api'[g] = IF g = h THEN q ELSE api[g]
  BY <1>4, <1>5, ApiType
<1>7. UNCHANGED <<task, stream, pel, retry, processing, dlq, added, loop, answers, runs, severed, faults>>
  BY DEF Enqueue, past
<1>8. idem' = IF pc = "create" /\ k # None THEN [idem EXCEPT ![k] = t] ELSE idem
  BY <1>1, <1>2 DEF Enqueue
<1>9. idem' \in [Keys -> Tasks \cup {None}]
  BY <1>8 DEF TypeOK
<1>10. /\ \A l \in Keys : idem'[l] # idem[l] => l = k /\ idem[l] = None /\ idem'[l] = t
       /\ pc = "create" /\ k # None => idem'[k] = t
       /\ pc = "existing" => k \in Keys /\ idem[k] # None /\ idem' = idem
  BY <1>1, <1>2, <1>8 DEF TypeOK
<1>11. /\ task[t] = None /\ \A g \in Handlers : api[g].task # t
       /\ \A l \in Keys : idem[l] # t
  BY <1>5 DEF Fresh
<1>12. TypeOK'
  BY <1>6, <1>7, <1>9 DEF TypeOK
<1>13. KeysKept'
  <2>1. \A x \in answers' : /\ idem'[x.key] = x.task
                            /\ task'[x.task] # None
                            /\ task'[x.task].intent = x.intent
    <3>1. \A x \in answers : x.key \in Keys /\ x.task \in Tasks
      BY DEF TypeOK
    <3>2. \A x \in answers : idem[x.key] # None
      BY <3>1, OperationalAssumption DEF KeysKept
    <3> QED
      BY <1>7, <1>10, <3>1, <3>2 DEF KeysKept
  <2>2. ASSUME NEW g \in Handlers, api'[g].pc = "create"
        PROVE  /\ api'[g].task \in Tasks /\ task'[api'[g].task] = None
               /\ api'[g].intent \in Intents
               /\ api'[g].key # None => idem'[api'[g].key] = api'[g].task
               /\ \A l \in Keys : idem'[l] = api'[g].task => l = api'[g].key
               /\ \A f \in Handlers : api'[f].pc = "create" /\ api'[f].task = api'[g].task => f = g
    <3>1. CASE g = h
      BY <1>1, <1>2, <1>4, <1>6, <1>7, <1>10, <1>11, <2>2, <3>1
    <3>2. CASE g # h
      <4>1. /\ api'[g] = api[g] /\ api[g].task # t
            /\ api[g] \in ApiState
        BY <1>6, <1>11, <3>2 DEF TypeOK
      <4>2. /\ api[g].task \in Tasks /\ task[api[g].task] = None
            /\ api[g].intent \in Intents
            /\ api[g].key # None => idem[api[g].key] = api[g].task
            /\ \A l \in Keys : idem[l] = api[g].task => l = api[g].key
            /\ \A f \in Handlers : api[f].pc = "create" /\ api[f].task = api[g].task => f = g
        BY <2>2, <4>1 DEF KeysKept
      <4>3. api[g].key # None => api[g].key \in Keys
        BY <4>1 DEF ApiState
      <4>4. api[g].key # None => idem'[api[g].key] = api[g].task
        BY <1>10, <4>2, <4>3, OperationalAssumption
      <4> QED
        BY <1>4, <1>6, <1>7, <1>10, <4>1, <4>2, <4>4
    <3> QED
      BY <3>1, <3>2
  <2>3. ASSUME NEW g \in Handlers, api'[g].pc = "existing"
        PROVE  /\ api'[g].key \in Keys /\ idem'[api'[g].key] # None
               /\ api'[g].intent \in Intents
    BY <1>4, <1>6, <1>10, <2>3, OperationalAssumption DEF KeysKept
  <2>4. \A l, n \in Keys : idem'[l] # None /\ idem'[l] = idem'[n] => l = n
    BY <1>10, <1>11 DEF KeysKept
  <2> QED
    BY <2>1, <2>2, <2>3, <2>4 DEF KeysKept
<1>14. HandsFull' /\ FreshReads'
  BY <1>7 DEF HandsFull, FreshReads
<1>15. MessagesKept'
  <2>1. \A m \in Messages : Known(m)' = Known(m) /\ Queued(m)' = Queued(m) /\ Seen(m)' = Seen(m)
    BY <1>7 DEF Known, Queued, Seen
  <2> QED
    BY <1>7, <2>1 DEF MessagesKept
<1> QED
  BY <1>12, <1>13, <1>14, <1>15

\* A request ends: its key goes on standing for what was answered.
LEMMA RequestEnds ==
    ASSUME TypeOK, KeysKept, NEW h \in Handlers, api[h].pc # "none",
           api' = [api EXCEPT ![h] = NoRequest], UNCHANGED idem, DocsGrow,
           \A t \in Tasks : task[t] = None /\ task'[t] # None =>
               api[h].pc = "create" /\ t = api[h].task,
           \A x \in answers' \ answers :
               /\ x.key \in Keys /\ x.task \in Tasks /\ x.intent \in Intents
               /\ x = [key |-> x.key, task |-> x.task, intent |-> x.intent]
               /\ idem[x.key] = x.task
               /\ task'[x.task] # None /\ task'[x.task].intent = x.intent
    PROVE  KeysKept' /\ answers' \subseteq [key : Keys, task : Tasks, intent : Intents]
                     /\ api' \in [Handlers -> ApiState]
<1>1. /\ api' \in [Handlers -> ApiState]
      /\ \A g \in Handlers : api'[g] = IF g = h THEN NoRequest ELSE api[g]
      /\ NoRequest.pc = "none"
  BY ApiType, NoRequestType
<1>2. answers' \subseteq [key : Keys, task : Tasks, intent : Intents]
  <2> SUFFICES ASSUME NEW x \in answers', x \notin answers
               PROVE  x \in [key : Keys, task : Tasks, intent : Intents]
    BY DEF TypeOK
  <2>1. /\ x.key \in Keys /\ x.task \in Tasks /\ x.intent \in Intents
        /\ x = [key |-> x.key, task |-> x.task, intent |-> x.intent]
    OBVIOUS
  <2> QED
    BY <2>1
<1>3. \A x \in answers' : /\ idem'[x.key] = x.task
                          /\ task'[x.task] # None
                          /\ task'[x.task].intent = x.intent
  <2> SUFFICES ASSUME NEW x \in answers'
               PROVE  idem[x.key] = x.task /\ task'[x.task] # None /\ task'[x.task].intent = x.intent
    OBVIOUS
  <2>1. CASE x \in answers
    <3>1. x.task \in Tasks /\ idem[x.key] = x.task /\ task[x.task] # None /\ task[x.task].intent = x.intent
      BY <2>1 DEF KeysKept, TypeOK
    <3> QED
      BY <3>1 DEF DocsGrow
  <2> QED
    BY <2>1
<1>4. ASSUME NEW g \in Handlers, api'[g].pc = "create"
      PROVE  /\ api'[g].task \in Tasks /\ task'[api'[g].task] = None
             /\ api'[g].intent \in Intents
             /\ api'[g].key # None => idem'[api'[g].key] = api'[g].task
             /\ \A l \in Keys : idem'[l] = api'[g].task => l = api'[g].key
             /\ \A f \in Handlers : api'[f].pc = "create" /\ api'[f].task = api'[g].task => f = g
  <2>1. g # h /\ api'[g] = api[g] /\ api[g].pc = "create"
    BY <1>1, <1>4
  <2>2. /\ api[g].task \in Tasks /\ task[api[g].task] = None
        /\ api[g].intent \in Intents
        /\ api[g].key # None => idem[api[g].key] = api[g].task
        /\ \A l \in Keys : idem[l] = api[g].task => l = api[g].key
        /\ \A f \in Handlers : api[f].pc = "create" /\ api[f].task = api[g].task => f = g
    BY <2>1 DEF KeysKept
  <2>3. task'[api[g].task] = None
    BY <2>1, <2>2
  <2> QED
    BY <1>1, <2>1, <2>2, <2>3
<1>5. ASSUME NEW g \in Handlers, api'[g].pc = "existing"
      PROVE  /\ api'[g].key \in Keys /\ idem'[api'[g].key] # None
             /\ api'[g].intent \in Intents
  BY <1>1, <1>5 DEF KeysKept
<1>6. \A k, l \in Keys : idem'[k] # None /\ idem'[k] = idem'[l] => k = l
  BY DEF KeysKept
<1> QED
  BY <1>1, <1>2, <1>3, <1>4, <1>5, <1>6 DEF KeysKept

LEMMA ApiEndCore ==
    ASSUME CoreInv, NEW h \in Handlers, EnqueueExisting(h) \/ ApiCrash(h)
    PROVE  CoreInv'
<1> USE DEF CoreInv
<1>1. /\ UNCHANGED <<idem, task, stream, pel, retry, processing, dlq, added, loop, runs, severed>>
      /\ api' = [api EXCEPT ![h] = NoRequest] /\ api[h].pc # "none"
      /\ faults' \in [FaultKinds -> Nat]
  <2>1. CASE EnqueueExisting(h)
    BY <2>1 DEF EnqueueExisting, redis, TypeOK
  <2>2. CASE ApiCrash(h)
    BY <2>2, FaultCounted DEF ApiCrash, redis
  <2> QED
    BY <2>1, <2>2
<1>2. DocsGrow
  BY <1>1 DEF DocsGrow
<1>3. ASSUME NEW x \in answers', x \notin answers
      PROVE  /\ x.key \in Keys /\ x.task \in Tasks /\ x.intent \in Intents
             /\ x = [key |-> x.key, task |-> x.task, intent |-> x.intent]
             /\ idem[x.key] = x.task
             /\ task'[x.task] # None /\ task'[x.task].intent = x.intent
  <2>1. EnqueueExisting(h)
    BY <1>3 DEF ApiCrash
  <2>2. /\ api[h].key \in Keys /\ idem[api[h].key] # None /\ api[h].intent \in Intents
    BY <2>1 DEF KeysKept, EnqueueExisting
  <2>3. PICK t \in Tasks : t = idem[api[h].key]
    BY <2>2 DEF TypeOK
  <2>4. /\ task[t] # None /\ task[t].intent = api[h].intent
        /\ x = [key |-> api[h].key, task |-> t, intent |-> api[h].intent]
    BY <1>3, <2>1, <2>3 DEF EnqueueExisting, Answer
  <2> QED
    BY <1>1, <2>2, <2>3, <2>4
<1>4. KeysKept' /\ answers' \subseteq [key : Keys, task : Tasks, intent : Intents]
                /\ api' \in [Handlers -> ApiState]
  BY <1>1, <1>2, <1>3, RequestEnds
<1>5. TypeOK'
  BY <1>1, <1>4 DEF TypeOK
<1>6. HandsFull' /\ FreshReads'
  BY <1>1 DEF HandsFull, FreshReads
<1>7. MessagesKept'
  <2>1. \A m \in Messages : Known(m)' = Known(m) /\ Queued(m)' = Queued(m) /\ Seen(m)' = Seen(m)
    BY <1>1 DEF Known, Queued, Seen
  <2> QED
    BY <1>1, <2>1 DEF MessagesKept
<1> QED
  BY <1>4, <1>5, <1>6, <1>7

LEMMA NewDoc ==
    ASSUME NEW i \in Intents
    PROVE  New(i) \in TaskDoc /\ New(i) # None /\ New(i).intent = i
           /\ New(i).status = "pending" /\ New(i).attempts = 0
BY NoneIsNoDoc DEF New, TaskDoc, Status

\* The task a request creates.
LEMMA CreateEffect ==
    ASSUME CoreInv, NEW h \in Handlers, EnqueueCreate(h)
    PROVE  \E t \in Tasks, i \in Intents :
             /\ t = api[h].task /\ i = api[h].intent
             /\ task[t] = None /\ task' = [task EXCEPT ![t] = New(i)]
             /\ task' \in [Tasks -> TaskDoc \cup {None}] /\ task'[t] = New(i)
             /\ \A u \in Tasks : u # t => task'[u] = task[u]
             /\ Xadd(t) /\ DocsGrow
<1>1. PICK t \in Tasks, i \in Intents : t = api[h].task /\ i = api[h].intent /\ task[t] = None
  BY DEF CoreInv, KeysKept, EnqueueCreate
<1>2. task' = [task EXCEPT ![t] = New(i)] /\ Xadd(t)
  BY <1>1 DEF EnqueueCreate
<1>3. /\ task' \in [Tasks -> TaskDoc \cup {None}] /\ task'[t] = New(i)
      /\ \A u \in Tasks : u # t => task'[u] = task[u]
  BY <1>1, <1>2, NewDoc DEF CoreInv, TypeOK
<1>4. DocsGrow
  BY <1>1, <1>3 DEF DocsGrow
<1> QED
  BY <1>1, <1>2, <1>3, <1>4

LEMMA CreateCore ==
    ASSUME CoreInv, NEW h \in Handlers, EnqueueCreate(h)
    PROVE  CoreInv'
<1> USE DEF CoreInv
<1>1. PICK t \in Tasks, i \in Intents :
             /\ t = api[h].task /\ i = api[h].intent
             /\ task[t] = None /\ task' = [task EXCEPT ![t] = New(i)]
             /\ task' \in [Tasks -> TaskDoc \cup {None}] /\ task'[t] = New(i)
             /\ \A u \in Tasks : u # t => task'[u] = task[u]
             /\ Xadd(t) /\ DocsGrow
  BY CreateEffect
<1>2. /\ UNCHANGED <<idem, pel, retry, processing, dlq, loop, runs, severed, faults>>
      /\ api' = [api EXCEPT ![h] = NoRequest] /\ api[h].pc = "create"
  BY DEF EnqueueCreate
<1>3. New(i) # None /\ New(i).intent = i
  BY NewDoc
<1>4. ASSUME NEW x \in answers', x \notin answers
      PROVE  /\ x.key \in Keys /\ x.task \in Tasks /\ x.intent \in Intents
             /\ x = [key |-> x.key, task |-> x.task, intent |-> x.intent]
             /\ idem[x.key] = x.task
             /\ task'[x.task] # None /\ task'[x.task].intent = x.intent
  <2>1. api[h].key # None /\ x = [key |-> api[h].key, task |-> t, intent |-> i]
    BY <1>1, <1>4 DEF EnqueueCreate, Answer
  <2>2. api[h].key \in Keys /\ idem[api[h].key] = t
    BY <1>1, <1>2, <2>1 DEF KeysKept, TypeOK, ApiState
  <2> QED
    BY <1>1, <1>3, <2>1, <2>2
<1>5. KeysKept' /\ answers' \subseteq [key : Keys, task : Tasks, intent : Intents]
                /\ api' \in [Handlers -> ApiState]
  BY <1>1, <1>2, <1>4, RequestEnds
<1>6. MessagesKept' /\ stream' \in Seq(Messages) /\ added' \in [Tasks -> Nat]
  <2>1. \A m \in Messages : Seen(m)' => Seen(m)
    BY <1>2 DEF Seen
  <2>2. /\ \A u \in Tasks : processing'[u] # None => processing'[u][1] = u
        /\ \A u \in retry' : u \in Tasks /\ task[u] # None
    BY <1>2 DEF MessagesKept, TypeOK
  <2> QED
    BY <1>1, <1>3, <2>1, <2>2, AddedMessage
<1>7. TypeOK'
  BY <1>1, <1>2, <1>5, <1>6 DEF TypeOK
<1>8. HandsFull'
  BY <1>1, <1>2, HandStays DEF HandsFull
<1>9. FreshReads'
  BY <1>2 DEF FreshReads
<1> QED
  BY <1>5, <1>6, <1>7, <1>8, <1>9

LEMMA InitCore ==
    ASSUME Init
    PROVE  CoreInv
<1>1. /\ idem = [k \in Keys |-> None] /\ task = [t \in Tasks |-> None]
      /\ stream = <<>> /\ pel = {} /\ retry = {}
      /\ processing = [t \in Tasks |-> None]
      /\ dlq = [t \in Tasks |-> 0] /\ added = [t \in Tasks |-> 0]
      /\ loop = [a \in Loops |-> Off]
      /\ api = [h \in Handlers |-> NoRequest]
      /\ answers = {} /\ runs = [t \in Tasks |-> 0] /\ severed = {}
      /\ faults = [f \in FaultKinds |-> 0]
  BY DEF Init
<1>2. \A a \in Loops : /\ loop[a] = Off /\ loop[a] \in LoopState
                       /\ loop[a].pc \in {"off", "idle"} /\ loop[a].msg = None
                       /\ loop[a].found = None /\ loop[a].batch = {}
                       /\ \A tab : Hand(loop[a], tab)
  BY <1>1, OffIsEmpty, EmptyHand
<1>3. \A h \in Handlers : api[h] \in ApiState /\ api[h].pc = "none"
  BY <1>1, NoRequestType
<1>4. TypeOK
  <2>1. loop \in [Loops -> LoopState] /\ api \in [Handlers -> ApiState]
    BY <1>1, <1>2, <1>3
  <2>2. stream \in Seq(Messages)
    BY <1>1
  <2> QED
    BY <1>1, <2>1, <2>2 DEF TypeOK, MessageOrNone
<1>5. KeysKept
  BY <1>1, <1>3 DEF KeysKept
<1>6. HandsFull /\ FreshReads
  BY <1>2 DEF HandsFull, FreshReads, Reading
<1>7. MessagesKept
  <2>1. \A m \in Messages : ~Seen(m)
    BY <1>1, <1>2, NoneIsNoDoc DEF Seen
  <2>2. \A m \in Messages : ~Queued(m)
    BY <1>1 DEF Queued
  <2> QED
    BY <1>1, <2>1, <2>2 DEF MessagesKept
<1> QED
  BY <1>4, <1>5, <1>6, <1>7 DEF CoreInv

LEMMA StutterCore ==
    ASSUME CoreInv, UNCHANGED vars
    PROVE  CoreInv'
<1>1. UNCHANGED <<idem, task, stream, pel, retry, processing, dlq, added, loop, api, answers, runs, severed, faults>>
  BY DEF vars, redis, past
<1>2. TypeOK' /\ KeysKept' /\ HandsFull' /\ FreshReads'
  BY <1>1 DEF CoreInv, TypeOK, KeysKept, HandsFull, FreshReads
<1>3. MessagesKept'
  <2>1. \A m \in Messages : Known(m)' = Known(m) /\ Queued(m)' = Queued(m) /\ Seen(m)' = Seen(m)
    BY <1>1 DEF Known, Queued, Seen
  <2> QED
    BY <1>1, <2>1 DEF CoreInv, MessagesKept
<1> QED
  BY <1>2, <1>3 DEF CoreInv

LEMMA CoreStep ==
    ASSUME CoreInv, [Next]_vars
    PROVE  CoreInv'
<1>1. CASE UNCHANGED vars
  BY <1>1, StutterCore
<1>2. ASSUME NEW h \in Handlers,
             \/ ApiStep(h) \/ ApiCrash(h)
             \/ \E t \in Tasks, r \in Requests : Enqueue(h, t, r[1], r[2])
      PROVE  CoreInv'
  BY <1>2, ApiEndCore, CreateCore, EnqueueCore DEF ApiStep
<1>3. ASSUME NEW p \in Runtimes, Start(p) \/ Crash(p)
      PROVE  CoreInv'
  BY <1>3, ProcessCore
<1>4. ASSUME NEW a \in Loops,
             \/ Work(a) \/ CommandError(a) \/ ReplyLost(a)
             \/ \E t \in Tasks : PromoteZrem(a, t)
             \/ \E m \in pel : ClaimSlow(a, m)
      PROVE  CoreInv'
  <2>1. CASE \/ Execute(a) \/ GetTask(a) \/ DequeueGet(a) \/ MessageId(a) \/ Xautoclaim(a)
             \/ CommandError(a) \/ \E m \in pel : ClaimSlow(a, m)
    BY <2>1, QuietSteps
  <2>2. CASE Complete(a) \/ Fail(a) \/ ReplyLost(a)
    BY <2>2, CommitSteps
  <2>3. CASE \/ DequeueMark(a) \/ \E m \in loop[a].batch : ClaimedNext(a, m)
             \/ \E t \in Tasks : PromoteZrem(a, t)
    BY <2>3, TakeSteps
  <2>4. CASE PromoteXadd(a)
    BY <2>4, PromoteStep
  <2>5. CASE Xreadgroup(a)
    BY <2>5, ReadStep
  <2> QED
    BY <1>4, <2>1, <2>2, <2>3, <2>4, <2>5 DEF Work
<1> QED
  BY <1>1, <1>2, <1>3, <1>4 DEF Next

-----------------------------------------------------------------------------
(***************************************************************************)
(* An unfinished task can still be delivered.                              *)
(***************************************************************************)

\* A step of loop a keeps track of task t: what stood for it goes on doing so.
Tracks(a, x, t) ==
    /\ Open(t)
    /\ InStream(t) => InStream(t)' \/ InPel(t)'
    /\ InPel(t) => InPel(t)'
    /\ t \in retry => t \in retry' \/ Moving(t)'
    /\ x.pc = "promoting" /\ x.task = t => InStream(t)'

LEMMA MovesOn ==
    ASSUME TypeOK, NEW a \in Loops, NEW x, NEW y, Turns(a, x, y), NEW t, Moving(t)
    PROVE  Moving(t)' \/ (x.pc = "promoting" /\ x.task = t)
<1>1. \A b \in Loops : loop'[b] = IF b = a THEN y ELSE loop[b]
  BY TurnsLoop
<1>2. x = loop[a]
  BY DEF Turns
<1>3. PICK b \in Loops : loop[b].pc = "promoting" /\ loop[b].task = t
  BY DEF Moving, At
<1>4. CASE b = a
  BY <1>2, <1>3, <1>4
<1>5. CASE b # a
  BY <1>1, <1>3, <1>5 DEF Moving, At
<1> QED
  BY <1>4, <1>5

LEMMA AttendedTurn ==
    ASSUME TypeOK, TaskAttended, NEW a \in Loops, NEW x, NEW y, Turns(a, x, y),
           severed \subseteq severed',
           \A t \in Tasks \ severed' : Open(t)' => Tracks(a, x, t) \/ Alive(t)'
    PROVE  TaskAttended'
<1> SUFFICES ASSUME NEW t \in Tasks, t \notin severed', Open(t)'
             PROVE  Alive(t)'
  BY DEF TaskAttended
<1>1. CASE Tracks(a, x, t)
  <2>1. Alive(t)
    BY <1>1 DEF TaskAttended, Tracks
  <2>2. Moving(t) => Moving(t)' \/ (x.pc = "promoting" /\ x.task = t)
    BY MovesOn
  <2> QED
    BY <1>1, <2>1, <2>2 DEF Alive, Tracks
<1> QED
  BY <1>1

\* Steps that leave the documents and the messages alone.
LEMMA TracksAll ==
    ASSUME UNCHANGED <<task, stream, pel, retry>>, NEW a, NEW x, NEW t, Open(t)',
           ~(x.pc = "promoting" /\ x.task = t)
    PROVE  Tracks(a, x, t)
BY DEF Tracks, Open, InStream, InPel

LEMMA QuietAttended ==
    ASSUME CoreInv, TaskAttended, NEW a \in Loops,
           \/ Execute(a) \/ GetTask(a) \/ DequeueGet(a) \/ MessageId(a) \/ Xautoclaim(a)
           \/ CommandError(a) \/ (\E m \in pel : ClaimSlow(a, m))
           \/ \E m \in loop[a].batch : ClaimedNext(a, m)
    PROVE  TaskAttended'
<1> USE DEF CoreInv
<1>1. UNCHANGED <<task, stream, pel, retry>>
  BY DEF Execute, GetTask, DequeueGet, MessageId, Xautoclaim, CommandError, ClaimSlow,
         ClaimedNext, redis
<1>2. CASE CommandError(a)
  <2>1. PICK x, y :
             /\ Turns(a, x, y)
             /\ x.pc \notin {"off", "dead", "execute"}
             /\ \/ /\ x.pc \in {"get", "hget", "commit"} /\ severed' = severed
                   /\ Fields(y, "get", x.task, None, x.msg, x.found, x.batch)
                \/ /\ Fields(y, "dead", None, None, None, None, {})
                   /\ severed' = severed \cup Between({a})
    BY <1>2, ErrorEffect
  <2>2. x.pc = "promoting" => x.task \in severed'
    BY <2>1 DEF Between, At, Turns
  <2>3. \A t \in Tasks \ severed' : Open(t)' => Tracks(a, x, t)
    BY <1>1, <2>2, TracksAll
  <2> QED
    BY <2>1, <2>3, AttendedTurn
<1>3. CASE ~CommandError(a)
  <2>1. PICK x, y : Turns(a, x, y) /\ x.pc # "promoting"
    <3>1. CASE Execute(a)
      BY <3>1, ExecuteEffect
    <3>2. CASE GetTask(a)
      BY <3>2, TaskEffect
    <3>3. CASE DequeueGet(a)
      BY <3>3, GetEffect
    <3>4. CASE MessageId(a)
      BY <3>4, IdEffect
    <3>5. CASE Xautoclaim(a)
      BY <3>5, AutoclaimEffect
    <3>6. ASSUME NEW m \in pel, ClaimSlow(a, m)
          PROVE  \E x, y : Turns(a, x, y) /\ x.pc # "promoting"
      BY <3>6, SlowEffect
    <3>7. ASSUME NEW m \in loop[a].batch, ClaimedNext(a, m)
          PROVE  \E x, y : Turns(a, x, y) /\ x.pc # "promoting"
      <4>1. m \in Messages
        BY DEF TypeOK, LoopState
      <4> QED
        BY <3>7, <4>1, NextEffect
    <3> QED
      BY <1>3, <3>1, <3>2, <3>3, <3>4, <3>5, <3>6, <3>7
  <2>2. severed' = severed
    BY <1>3 DEF Execute, GetTask, DequeueGet, MessageId, Xautoclaim, ClaimSlow, ClaimedNext, past
  <2>3. \A t \in Tasks \ severed' : Open(t)' => Tracks(a, x, t)
    BY <1>1, <2>1, TracksAll
  <2> QED
    BY <2>1, <2>2, <2>3, AttendedTurn
<1> QED
  BY <1>2, <1>3

\* The acknowledged message is one of the task, which is finished or put
\* into the sorted set.
LEMMA CommitAttended ==
    ASSUME CoreInv, TaskAttended, NEW a \in Loops, NEW x, NEW y, Turns(a, x, y),
           x.pc = "commit", NEW s \in Status, Commits(x, s),
           UNCHANGED <<stream, severed>>, retry \subseteq retry',
           s \in Terminal \/ x.task \in retry'
    PROVE  TaskAttended'
<1> USE DEF CoreInv
<1>1. x = loop[a] /\ Hand(x, task)
  BY DEF Turns, HandsFull
<1>2. /\ x.task \in Tasks /\ x.copy \in TaskDoc
      /\ x.found # None => x.found[1] = x.task
  BY <1>1 DEF Hand, InService, Finishing
<1>3. PICK d \in TaskDoc : d = [x.copy EXCEPT !.status = s] /\ d.status = s
  BY <1>2, StatusDoc
<1>4. \A t \in Tasks : task'[t] = IF t = x.task THEN d ELSE task[t]
  BY <1>3 DEF Commits, TypeOK
<1>5. ASSUME NEW t \in Tasks, t # x.task, Open(t)'
      PROVE  Tracks(a, x, t)
  <2>1. Open(t)
    BY <1>4, <1>5 DEF Open
  <2>2. InPel(t) => InPel(t)'
    <3> SUFFICES ASSUME NEW m \in pel, m[1] = t
                 PROVE  m \in pel'
      BY DEF InPel
    <3>1. m \in Messages /\ m # None
      BY NoneIsNoDoc DEF TypeOK
    <3> QED
      BY <1>2, <1>5, <3>1 DEF Commits
  <2>3. InStream(t)' = InStream(t)
    BY DEF InStream
  <2> QED
    BY <1>5, <2>1, <2>2, <2>3 DEF Tracks
<1>7. \A t \in Tasks \ severed' : Open(t)' => Tracks(a, x, t) \/ Alive(t)'
  <2> SUFFICES ASSUME NEW t \in Tasks, Open(t)'
               PROVE  Tracks(a, x, t) \/ Alive(t)'
    OBVIOUS
  <2>1. CASE t = x.task
    BY <1>3, <1>4, <2>1 DEF Open, Alive
  <2> QED
    BY <1>5, <2>1
<1> QED
  BY <1>7, AttendedTurn

LEMMA CommitsAttended ==
    ASSUME CoreInv, TaskAttended, NEW a \in Loops, Complete(a) \/ Fail(a) \/ ReplyLost(a)
    PROVE  TaskAttended'
<1> USE DEF CoreInv
<1>1. CASE Complete(a)
  <2>1. PICK x, y : Turns(a, x, y) /\ x.pc = "commit"
    BY <1>1, CompleteEffect
  <2>2. Commits(x, "completed") /\ "completed" \in Status /\ "completed" \in Terminal
    BY <1>1, <2>1 DEF Turns, Complete, Commits, Acknowledge, Status, Terminal
  <2> QED
    BY <1>1, <2>1, <2>2, CommitAttended DEF Complete, past
<1>2. CASE ReplyLost(a)
  <2>1. PICK x, y : Turns(a, x, y) /\ x.pc = "commit"
    BY <1>2, LostEffect
  <2>2. Commits(x, "completed") /\ "completed" \in Status /\ "completed" \in Terminal
    BY <1>2, <2>1 DEF Turns, ReplyLost, Commits, Acknowledge, Status, Terminal
  <2> QED
    BY <1>2, <2>1, <2>2, CommitAttended DEF ReplyLost
<1>3. CASE Fail(a)
  <2>1. PICK x, y : Turns(a, x, y) /\ x.pc = "commit"
    BY <1>3, FailEffect
  <2>2. PICK s \in Status : Commits(x, s) /\ (s \in Terminal \/ x.task \in retry')
    BY <1>3, <2>1 DEF Turns, Fail, Commits, Acknowledge, Status, Terminal
  <2> QED
    BY <1>3, <2>1, <2>2, CommitAttended DEF Fail, past
<1> QED
  BY <1>1, <1>2, <1>3

LEMMA MarkAttended ==
    ASSUME CoreInv, TaskAttended, NEW a \in Loops, DequeueMark(a)
    PROVE  TaskAttended'
<1> USE DEF CoreInv
<1>1. PICK x, y : /\ Turns(a, x, y) /\ x.pc = "begin"
                  /\ Fields(y, "execute", x.task, None, x.msg, x.found, x.batch)
  BY MarkEffect
<1>2. x = loop[a] /\ Hand(x, task)
  BY <1>1 DEF Turns, HandsFull
<1>3. x.task \in Tasks /\ x.msg[1] = x.task /\ x.msg \in pel
  BY <1>1, <1>2 DEF Hand, InService, Reading, FreshReads
<1>4. UNCHANGED <<stream, pel, retry, severed>>
  BY DEF DequeueMark, past
<1>5. \A t \in Tasks : t # x.task => task'[t] = task[t]
  BY <1>2, <1>3 DEF DequeueMark, TypeOK
<1>6. ASSUME NEW t \in Tasks, Open(t)'
      PROVE  Tracks(a, x, t) \/ Alive(t)'
  <2>1. CASE t = x.task
    BY <1>3, <1>4, <2>1 DEF Alive, InPel
  <2>2. CASE t # x.task
    BY <1>1, <1>4, <1>5, <1>6, <2>2 DEF Tracks, Open, InStream, InPel
  <2> QED
    BY <2>1, <2>2
<1> QED
  BY <1>1, <1>4, <1>6, AttendedTurn

LEMMA ZremAttended ==
    ASSUME CoreInv, TaskAttended, NEW a \in Loops, NEW t \in Tasks, PromoteZrem(a, t)
    PROVE  TaskAttended'
<1> USE DEF CoreInv
<1>1. PICK x, y : /\ Turns(a, x, y) /\ x.pc = "idle"
                  /\ Fields(y, "promoting", t, x.copy, x.msg, x.found, x.batch)
  BY ZremEffect
<1>2. UNCHANGED <<task, stream, pel, severed>> /\ retry' = retry \ {t}
  BY DEF PromoteZrem, past
<1>3. Moving(t)'
  BY <1>1, TurnsLoop DEF Moving, At, Fields
<1>4. ASSUME NEW u \in Tasks, Open(u)'
      PROVE  Tracks(a, x, u) \/ Alive(u)'
  <2>1. CASE u = t
    BY <1>3, <2>1 DEF Alive
  <2>2. CASE u # t
    BY <1>1, <1>2, <1>4, <2>2 DEF Tracks, Open, InStream, InPel
  <2> QED
    BY <2>1, <2>2
<1> QED
  BY <1>1, <1>2, <1>4, AttendedTurn

LEMMA AddedStays ==
    ASSUME TypeOK, NEW t \in Tasks, Xadd(t)
    PROVE  InStream(t)' /\ \A u \in Tasks : InStream(u)' <=> InStream(u) \/ u = t
<1>1. PICK m : m = <<t, added[t] + 1>>
  OBVIOUS
<1>2. m \in Messages /\ m[1] = t
  BY <1>1 DEF Messages, TypeOK
<1>3. stream \in Seq(Messages) /\ stream' = Append(stream, m)
  BY <1>1 DEF Xadd, TypeOK
<1>4. /\ DOMAIN stream' = 1..(Len(stream) + 1) /\ Len(stream) \in Nat
      /\ DOMAIN stream = 1..Len(stream)
      /\ \A i \in DOMAIN stream' : stream'[i] = IF i = Len(stream) + 1 THEN m ELSE stream[i]
  BY <1>2, <1>3
<1>5. /\ \A i \in DOMAIN stream' : i = Len(stream) + 1 \/ i \in DOMAIN stream
      /\ \A i \in DOMAIN stream : i \in DOMAIN stream' /\ i # Len(stream) + 1
      /\ Len(stream) + 1 \in DOMAIN stream'
  BY <1>4
<1>6. InStream(t)'
  BY <1>2, <1>4, <1>5 DEF InStream
<1>7. \A u \in Tasks : InStream(u) => InStream(u)'
  BY <1>4, <1>5 DEF InStream
<1>8. \A u \in Tasks : InStream(u)' => InStream(u) \/ u = t
  BY <1>2, <1>4, <1>5 DEF InStream
<1> QED
  BY <1>6, <1>7, <1>8

LEMMA XaddAttended ==
    ASSUME CoreInv, TaskAttended, NEW a \in Loops, PromoteXadd(a)
    PROVE  TaskAttended'
<1> USE DEF CoreInv
<1>1. PICK x, y : Turns(a, x, y) /\ x.pc = "promoting"
  BY PromoteEffect
<1>2. x = loop[a] /\ x.task \in Tasks
  BY <1>1 DEF Turns, HandsFull, Hand
<1>3. UNCHANGED <<task, pel, retry, severed>> /\ Xadd(x.task)
  BY <1>2 DEF PromoteXadd, past
<1>4. PICK u \in Tasks : u = x.task
  BY <1>2
<1>5. InStream(u)' /\ \A t \in Tasks : InStream(t) => InStream(t)'
  BY <1>3, <1>4, AddedStays
<1>6. \A t \in Tasks \ severed' : Open(t)' => Tracks(a, x, t)
  BY <1>3, <1>4, <1>5 DEF Tracks, Open, InPel
<1> QED
  BY <1>1, <1>3, <1>6, AttendedTurn

\* The first message leaves the stream and becomes pending.
LEMMA HeadLeaves ==
    ASSUME TypeOK, stream # <<>>, stream' = Tail(stream)
    PROVE  /\ Head(stream) \in Messages /\ Head(stream)[1] \in Tasks
           /\ \A t \in Tasks : InStream(t)' => InStream(t)
           /\ \A t \in Tasks : InStream(t) => InStream(t)' \/ t = Head(stream)[1]
           /\ InStream(Head(stream)[1])
<1>1. /\ Len(stream) \in Nat /\ 1 \in DOMAIN stream /\ Head(stream) = stream[1]
      /\ Head(stream) \in Messages
      /\ DOMAIN stream = 1..Len(stream)
      /\ DOMAIN stream' = 1..(Len(stream) - 1)
      /\ \A i \in DOMAIN stream' : i + 1 \in DOMAIN stream /\ stream'[i] = stream[i + 1]
  BY DEF TypeOK
<1>2. \A i \in DOMAIN stream : i = 1 \/ \E j \in DOMAIN stream' : stream'[j] = stream[i]
  <2> SUFFICES ASSUME NEW i \in 1..Len(stream), i # 1
               PROVE  \E j \in DOMAIN stream' : stream'[j] = stream[i]
    BY <1>1
  <2>1. PICK j \in 1..(Len(stream) - 1) : i = j + 1
    BY <1>1
  <2> QED
    BY <1>1, <2>1
<1>3. \A t \in Tasks : InStream(t)' => InStream(t)
  BY <1>1 DEF InStream
<1>4. \A t \in Tasks : InStream(t) => InStream(t)' \/ t = Head(stream)[1]
  BY <1>1, <1>2 DEF InStream
<1> QED
  BY <1>1, <1>3, <1>4 DEF InStream, Messages

LEMMA ReadAttended ==
    ASSUME CoreInv, TaskAttended, NEW a \in Loops, Xreadgroup(a)
    PROVE  TaskAttended'
<1> USE DEF CoreInv
<1>1. PICK x, y, m : /\ Turns(a, x, y) /\ x.pc = "idle"
                     /\ m \in Messages /\ m = Head(stream)
                     /\ Fields(y, "read", m[1], x.copy, m, x.found, x.batch)
  BY ReadEffect
<1>2. /\ stream # <<>> /\ stream' = Tail(stream) /\ pel' = pel \cup {m}
      /\ UNCHANGED <<task, retry, severed>>
  BY <1>1 DEF Xreadgroup, past
<1>3. \A t \in Tasks : InStream(t) => InStream(t)' \/ t = m[1]
  BY <1>1, <1>2, HeadLeaves
<1>4. \A t \in Tasks \ severed' : Open(t)' => Tracks(a, x, t)
  BY <1>1, <1>2, <1>3 DEF Tracks, Open, InPel
<1> QED
  BY <1>1, <1>2, <1>4, AttendedTurn

LEMMA ProcessAttended ==
    ASSUME CoreInv, TaskAttended, NEW p \in Runtimes, Start(p) \/ Crash(p)
    PROVE  TaskAttended'
<1> USE DEF CoreInv
<1>1. UNCHANGED <<task, stream, pel, retry>>
  BY DEF Start, Crash, redis
<1>2. ASSUME NEW t, t \notin severed', Moving(t)
      PROVE  Moving(t)'
  <2>1. PICK a \in Loops : loop[a].pc = "promoting" /\ loop[a].task = t
    BY <1>2 DEF Moving, At
  <2>2. loop'[a] = loop[a]
    <3>1. CASE Start(p)
      BY <2>1, <3>1 DEF Start, At
    <3>2. CASE Crash(p)
      BY <1>2, <2>1, <3>2 DEF Crash, Between, At
    <3> QED
      BY <3>1, <3>2
  <2> QED
    BY <2>1, <2>2 DEF Moving, At
<1>3. severed \subseteq severed'
  BY DEF Start, Crash, past
<1> QED
  BY <1>1, <1>2, <1>3 DEF TaskAttended, Open, Alive, InStream, InPel

LEMMA ApiAttended ==
    ASSUME CoreInv, TaskAttended, NEW h \in Handlers,
           \/ ApiStep(h) \/ ApiCrash(h)
           \/ \E t \in Tasks, r \in Requests : Enqueue(h, t, r[1], r[2])
    PROVE  TaskAttended'
<1>1. CASE EnqueueCreate(h)
  <2>1. PICK t \in Tasks : /\ \A u \in Tasks : u # t => task'[u] = task[u]
                           /\ Xadd(t)
    BY <1>1, CreateEffect
  <2>2. InStream(t)' /\ \A u \in Tasks : InStream(u) => InStream(u)'
    BY <2>1, AddedStays DEF CoreInv
  <2>3. UNCHANGED <<pel, retry, loop, severed>>
    BY <1>1 DEF EnqueueCreate
  <2>4. ASSUME NEW u \in Tasks \ severed', Open(u)'
        PROVE  Alive(u)'
    <3>1. CASE u = t
      BY <2>2, <3>1 DEF Alive
    <3>2. CASE u # t
      BY <2>1, <2>2, <2>3, <2>4, <3>2 DEF TaskAttended, Open, Alive, InPel, Moving, At
    <3> QED
      BY <3>1, <3>2
  <2> QED
    BY <2>4 DEF TaskAttended
<1>2. CASE ~EnqueueCreate(h)
  <2>1. UNCHANGED <<task, stream, pel, retry, loop, severed>>
    BY <1>2 DEF ApiStep, EnqueueExisting, ApiCrash, Enqueue, redis, past
  <2> QED
    BY <2>1 DEF TaskAttended, Open, Alive, InStream, InPel, Moving, At
<1> QED
  BY <1>1, <1>2

\* A request that was answered is honoured for ever, whatever processes end,
\* whatever commands fail and however slow the executions: its key stands for
\* one task and one intent, and the task can be delivered until it is finished
\* (operational_queue.py enqueue, dequeue, complete, fail).
THEOREM RequestsHonoured == Spec => []RequestHonoured
<1>1. Init => BaseInv
  <2> SUFFICES ASSUME Init
               PROVE  BaseInv
    OBVIOUS
  <2>1. TaskAttended
    BY DEF Init, TaskAttended, Open
  <2> QED
    BY <2>1, InitCore DEF BaseInv
<1>2. BaseInv /\ [Next]_vars => BaseInv'
  <2> SUFFICES ASSUME BaseInv, [Next]_vars
               PROVE  BaseInv'
    OBVIOUS
  <2>1. CoreInv /\ TaskAttended
    BY DEF BaseInv
  <2>2. CoreInv'
    BY <2>1, CoreStep
  <2>3. TaskAttended'
    <3>1. CASE UNCHANGED vars
      BY <2>1, <3>1 DEF vars, redis, past, TaskAttended, Open, Alive, InStream, InPel, Moving, At
    <3>2. ASSUME NEW h \in Handlers,
                 \/ ApiStep(h) \/ ApiCrash(h)
                 \/ \E t \in Tasks, r \in Requests : Enqueue(h, t, r[1], r[2])
          PROVE  TaskAttended'
      BY <2>1, <3>2, ApiAttended
    <3>3. ASSUME NEW p \in Runtimes, Start(p) \/ Crash(p)
          PROVE  TaskAttended'
      BY <2>1, <3>3, ProcessAttended
    <3>4. ASSUME NEW a \in Loops,
                 \/ Work(a) \/ CommandError(a) \/ ReplyLost(a)
                 \/ \E t \in Tasks : PromoteZrem(a, t)
                 \/ \E m \in pel : ClaimSlow(a, m)
          PROVE  TaskAttended'
      BY <2>1, <3>4, QuietAttended, CommitsAttended, MarkAttended, ZremAttended,
         XaddAttended, ReadAttended DEF Work
    <3> QED
      BY <3>1, <3>2, <3>3, <3>4 DEF Next
  <2> QED
    BY <2>2, <2>3 DEF BaseInv
<1>3. BaseInv => RequestHonoured
  <2> SUFFICES ASSUME BaseInv
               PROVE  RequestHonoured
    OBVIOUS
  <2>1. OneTaskPerKey
    BY DEF BaseInv, CoreInv, KeysKept, OneTaskPerKey
  <2> QED
    BY <2>1 DEF BaseInv, RequestHonoured
<1> QED
  BY <1>1, <1>2, <1>3, PTL DEF Spec

-----------------------------------------------------------------------------
(***************************************************************************)
(* When no execution outlives the idle time.                               *)
(***************************************************************************)
LEMMA StreamOfTask ==
    ASSUME TypeOK, TypeOK', NEW t
    PROVE  /\ InStream(t) <=> \E m \in Messages : Queued(m) /\ m[1] = t
           /\ InStream(t)' <=> \E m \in Messages : Queued(m)' /\ m[1] = t
<1>1. /\ \A i \in DOMAIN stream : stream[i] \in Messages
      /\ \A i \in DOMAIN stream' : stream'[i] \in Messages
  BY DEF TypeOK
<1>2. InStream(t) <=> \E m \in Messages : Queued(m) /\ m[1] = t
  BY <1>1 DEF InStream, Queued
<1>3. InStream(t)' <=> \E m \in Messages : Queued(m)' /\ m[1] = t
  BY <1>1 DEF InStream, Queued
<1> QED
  BY <1>2, <1>3

LEMMA MovingIsMoves == \A t : Moving(t) <=> \E a \in Loops : Moves(a, t)
BY DEF Moving, Moves, At

\* In this step nothing new stands for the task.
Fades(t) ==
    /\ \A m \in Messages : m[1] = t =>
         /\ Queued(m)' => Queued(m)
         /\ m \in pel' => m \in pel
         /\ \A b \in Loops : m \in loop'[b].batch => m \in loop[b].batch /\ m \in pel'
    /\ t \in retry' => t \in retry
    /\ \A b \in Loops :
         /\ Serves(b, t)' => Serves(b, t) /\ loop'[b].msg = loop[b].msg
         /\ Moves(b, t)' => Moves(b, t)

LEMMA FadesToken ==
    ASSUME TypeOK, TypeOK', NEW t \in Tasks, Fades(t)
    PROVE  /\ InStream(t)' => InStream(t)
           /\ InPel(t)' => InPel(t)
           /\ Moving(t)' => Moving(t)
<1>1. InStream(t)' => InStream(t)
  BY StreamOfTask DEF Fades
<1>2. InPel(t)' => InPel(t)
  BY DEF Fades, InPel, TypeOK
<1>3. Moving(t)' => Moving(t)
  BY DEF Fades, Moving, Moves, At
<1> QED
  BY <1>1, <1>2, <1>3

LEMMA ApartStays ==
    ASSUME TypeOK, TypeOK', NEW t \in Tasks, Apart(t), Fades(t)
    PROVE  Apart(t)'
<1>1. /\ InStream(t)' => InStream(t)
      /\ InPel(t)' => InPel(t)
      /\ Moving(t)' => Moving(t)
      /\ t \in retry' => t \in retry
  BY FadesToken DEF Fades
<1>2. \A m \in pel' : m \in Messages
  BY DEF TypeOK
<1>3. \A b \in Loops : \A m \in loop'[b].batch : m \in Messages
  BY DEF TypeOK, LoopState
<1>4. OneToken(t)'
  <2>1. \A m, n \in Messages : Queued(m)' /\ Queued(n)' /\ m[1] = t /\ n[1] = t => m = n
    BY DEF Apart, OneToken, Fades
  <2>2. \A m, n \in pel' : m[1] = t /\ n[1] = t => m = n
    BY <1>2 DEF Apart, OneToken, Fades
  <2>3. \A a, b \in Loops : Moves(a, t)' /\ Moves(b, t)' => a = b
    BY DEF Apart, OneToken, Fades
  <2> QED
    BY <1>1, <2>1, <2>2, <2>3 DEF Apart, OneToken
<1>5. OneServer(t)'
  <2> SUFFICES ASSUME NEW a \in Loops, Serves(a, t)'
               PROVE  /\ \A b \in Loops : Serves(b, t)' => b = a
                      /\ ~InStream(t)' /\ t \notin retry' /\ ~Moving(t)'
                      /\ \A m \in pel' : m[1] = t => m = loop'[a].msg
                      /\ \A b \in Loops : \A m \in loop'[b].batch : m[1] # t
    BY DEF OneServer
  <2>1. Serves(a, t) /\ loop'[a].msg = loop[a].msg
    BY DEF Fades
  <2>2. /\ \A b \in Loops : Serves(b, t) => b = a
        /\ ~InStream(t) /\ t \notin retry /\ ~Moving(t)
        /\ \A m \in pel : m[1] = t => m = loop[a].msg
        /\ \A b \in Loops : \A m \in loop[b].batch : m[1] # t
    BY <2>1 DEF Apart, OneServer
  <2>3. \A b \in Loops : Serves(b, t)' => b = a
    BY <2>2 DEF Fades
  <2>4. \A m \in pel' : m[1] = t => m = loop'[a].msg
    BY <1>2, <2>1, <2>2 DEF Fades
  <2>5. \A b \in Loops : \A m \in loop'[b].batch : m[1] # t
    BY <1>3, <2>2 DEF Fades
  <2> QED
    BY <1>1, <2>2, <2>3, <2>4, <2>5
<1>6. BatchesApart(t)'
  BY <1>3 DEF Apart, BatchesApart, Fades
<1> QED
  BY <1>4, <1>5, <1>6 DEF Apart

\* The task is not concerned by the step, except that a fault may take a loop
\* away from it.
Aside(t) ==
    /\ Fades(t)
    /\ \A b \in Loops : Serves(b, t)' => loop'[b] = loop[b]
    /\ \A m \in Messages : m[1] = t => (m \in pel' <=> m \in pel)
    /\ processing'[t] = processing[t] /\ task'[t] = task[t] /\ runs'[t] = runs[t]
    /\ \/ FaultCount' = FaultCount /\ \A b \in Loops : Serves(b, t) => Serves(b, t)'
       \/ FaultCount' = FaultCount + 1

LEMMA FaultCountType ==
    ASSUME TypeOK
    PROVE  FaultCount \in Nat
BY DEF FaultCount, TypeOK, FaultKinds

LEMMA SteadyAside ==
    ASSUME CoreInv, TypeOK', NEW t \in Tasks, Steady(t), Aside(t)
    PROVE  Steady(t)'
<1> USE DEF CoreInv
<1>1. Apart(t)'
  BY ApartStays DEF Steady, Aside
<1>2. ServersCurrent(t)'
  <2> SUFFICES ASSUME NEW a \in Loops, Serves(a, t)'
               PROVE  Current(loop'[a], pel', processing'[t], task'[t])
    BY DEF ServersCurrent
  <2>1. Serves(a, t) /\ loop'[a] = loop[a]
    BY DEF Aside, Fades
  <2>2. Current(loop[a], pel, processing[t], task[t])
    BY <2>1 DEF Steady, ServersCurrent
  <2>3. loop[a].msg \in Messages /\ loop[a].msg[1] = t
    BY <2>1 DEF Serves, HandsFull, Hand
  <2>4. loop[a].msg \in pel' => loop[a].msg \in pel
    BY <2>3 DEF Aside
  <2> QED
    BY <2>1, <2>2, <2>4 DEF Current, Aside
<1>3. Paid(t)'
  <2>1. NewAttempt(t)' => NewAttempt(t)
    <3>1. Fades(t)
      BY DEF Aside
    <3>2. /\ InStream(t)' => InStream(t)
          /\ InPel(t)' => InPel(t)
          /\ Moving(t)' => Moving(t)
          /\ t \in retry' => t \in retry
      BY <3>1, FadesToken DEF Fades
    <3>3. ASSUME NEW a \in Loops, Serves(a, t)', loop'[a].pc \in Reading
          PROVE  Serves(a, t) /\ loop[a].pc \in Reading
      BY <3>1, <3>3 DEF Aside, Fades
    <3> QED
      BY <3>2, <3>3 DEF NewAttempt
  <2>2. Due(t)' => Due(t) \/ FaultCount' = FaultCount + 1
    <3>1. ASSUME NEW a \in Loops, Serves(a, t)', loop'[a].pc = "execute"
          PROVE  Due(t)
      BY <3>1 DEF Aside, Fades, Due
    <3>2. ASSUME InPel(t)', \A a \in Loops : ~Serves(a, t)', FaultCount' # FaultCount + 1
          PROVE  Due(t)
      <4>1. InPel(t)
        BY <3>2, FadesToken DEF Aside
      <4> QED
        BY <3>2, <4>1 DEF Aside, Due
    <3> QED
      BY <3>1, <3>2 DEF Due
  <2>3. /\ FaultCount \in Nat /\ (FaultCount' = FaultCount \/ FaultCount' = FaultCount + 1)
        /\ runs[t] \in Nat /\ runs'[t] = runs[t] /\ task'[t] = task[t]
    BY FaultCountType DEF Aside, TypeOK
  <2>4. CASE task[t] = None
    BY <2>3, <2>4 DEF Paid, Steady
  <2>5. CASE task[t] # None
    <3>1. PICK d \in TaskDoc : d = task[t]
      BY <2>5 DEF TypeOK
    <3>2. d.attempts \in Nat
      BY DEF TaskDoc
    <3>3. /\ d.attempts <= MaxAttempts
          /\ NewAttempt(t)' => d.attempts < MaxAttempts
          /\ runs[t] <= d.attempts + FaultCount
          /\ Due(t) => runs[t] < d.attempts + FaultCount
      BY <2>1, <2>5, <3>1 DEF Paid, Steady
    <3>4. /\ runs'[t] <= d.attempts + FaultCount'
          /\ Due(t)' => runs'[t] < d.attempts + FaultCount'
      BY <2>2, <2>3, <3>2, <3>3
    <3>5. task'[t] = d /\ d # None
      BY <2>3, <2>5, <3>1
    <3> QED
      BY <3>3, <3>4, <3>5 DEF Paid
  <2> QED
    BY <2>4, <2>5
<1> QED
  BY <1>1, <1>2, <1>3 DEF Steady

On(z, t) == z.pc \in InService \cup {"promoting"} /\ z.task = t

\* A step of a loop that is not about this task.
LEMMA AsideTurn ==
    ASSUME TypeOK, NEW a \in Loops, NEW x, NEW y, Turns(a, x, y), NEW t \in Tasks,
           BatchesApart(t), ~On(y, t),
           (x.pc \in InService /\ x.task = t) => FaultCount' = FaultCount + 1,
           FaultCount' = FaultCount \/ FaultCount' = FaultCount + 1,
           \A m \in Messages : m[1] = t => /\ Queued(m)' => Queued(m)
                                           /\ m \in pel' <=> m \in pel
                                           /\ m \in y.batch => m \in x.batch,
           t \in retry' => t \in retry,
           processing'[t] = processing[t], task'[t] = task[t], runs'[t] = runs[t]
    PROVE  Aside(t)
<1>1. \A b \in Loops : loop'[b] = IF b = a THEN y ELSE loop[b]
  BY TurnsLoop
<1>2. x = loop[a]
  BY DEF Turns
<1>3. \A b \in Loops : /\ Serves(b, t)' => b # a /\ loop'[b] = loop[b] /\ Serves(b, t)
                       /\ Moves(b, t)' => Moves(b, t)
                       /\ Serves(b, t) => Serves(b, t)' \/ (b = a /\ x.pc \in InService /\ x.task = t)
  BY <1>1, <1>2 DEF Serves, Moves, On
<1>4. \A m \in Messages : m[1] = t =>
         \A b \in Loops : m \in loop'[b].batch => m \in loop[b].batch /\ m \in pel'
  BY <1>1, <1>2 DEF BatchesApart
<1>5. Fades(t)
  BY <1>3, <1>4 DEF Fades
<1> QED
  BY <1>3, <1>5 DEF Aside

LEMMA EndedTurn ==
    ASSUME TypeOK, EndedEmpty, NEW a \in Loops, NEW x, NEW y, Turns(a, x, y),
           y.pc \in {"off", "dead"} => y.batch = {}
    PROVE  EndedEmpty'
<1>1. \A b \in Loops : loop'[b] = IF b = a THEN y ELSE loop[b]
  BY TurnsLoop
<1> QED
  BY <1>1 DEF EndedEmpty

\* A loop goes on with the task it serves.
LEMMA ServiceSteady ==
    ASSUME CoreInv, TypeOK', SteadyInv, NEW a \in Loops, NEW x, NEW y, Turns(a, x, y),
           x.pc \in InService, y.pc \in InService, y.msg = x.msg, y.batch = x.batch,
           NEW t \in Tasks, x.task = t, y.task = t,
           UNCHANGED <<stream, retry>>, pel' \subseteq pel, \A m \in pel : m[1] # t => m \in pel',
           FaultCount' = FaultCount \/ FaultCount' = FaultCount + 1,
           \A u \in Tasks : u # t => /\ processing'[u] = processing[u]
                                     /\ task'[u] = task[u] /\ runs'[u] = runs[u],
           Current(y, pel', processing'[t], task'[t]), Paid(t)'
    PROVE  SteadyInv'
<1> USE DEF CoreInv
<1>1. \A b \in Loops : loop'[b] = IF b = a THEN y ELSE loop[b]
  BY TurnsLoop
<1>2. x = loop[a]
  BY DEF Turns
<1>3. \A m \in Messages : Queued(m)' = Queued(m)
  BY DEF Queued
<1>4. ASSUME NEW u \in Tasks, u # t
      PROVE  Steady(u)'
  <2>1. Steady(u) /\ BatchesApart(u)
    BY DEF SteadyInv, Steady, Apart
  <2>2. ~On(y, u) /\ ~(x.pc \in InService /\ x.task = u)
    BY <1>4 DEF On
  <2>3. \A m \in Messages : m[1] = u => /\ Queued(m)' => Queued(m)
                                        /\ m \in pel' <=> m \in pel
                                        /\ m \in y.batch => m \in x.batch
    BY <1>3, <1>4
  <2>4. Aside(u)
    BY <1>4, <2>1, <2>2, <2>3, AsideTurn
  <2> QED
    BY <2>1, <2>4, SteadyAside
<1>5. Steady(t)'
  <2>1. Apart(t) /\ Serves(a, t)
    BY <1>2 DEF SteadyInv, Steady, Serves
  <2>2. /\ \A b \in Loops : Serves(b, t) => b = a
        /\ \A b \in Loops : \A m \in loop[b].batch : m[1] # t
    BY <2>1 DEF Apart, OneServer
  <2>3. \A b \in Loops : loop'[b].batch = loop[b].batch
    BY <1>1, <1>2
  <2>4. \A b \in Loops : /\ Serves(b, t)' => b = a /\ loop'[b].msg = loop[b].msg
                         /\ Moves(b, t)' => Moves(b, t)
    BY <1>1, <1>2, <2>2 DEF Serves, Moves, InService, Reading, Finishing
  <2>5. Fades(t)
    BY <1>3, <2>1, <2>2, <2>3, <2>4 DEF Fades
  <2>6. Apart(t)'
    BY <2>1, <2>5, ApartStays
  <2>7. ServersCurrent(t)'
    BY <1>1, <2>4 DEF ServersCurrent
  <2> QED
    BY <2>6, <2>7 DEF Steady
<1>6. EndedEmpty'
  <2>1. y.pc \notin {"off", "dead"}
    BY DEF InService, Reading, Finishing
  <2> QED
    BY <2>1, EndedTurn DEF SteadyInv
<1> QED
  BY <1>4, <1>5, <1>6 DEF SteadyInv

\* Whether a new attempt is to come, and whether an execution is due, shows in
\* the loop that serves the task.
LEMMA ServiceDue ==
    ASSUME TypeOK, NEW a \in Loops, NEW x, NEW y, Turns(a, x, y),
           x.pc \in InService, y.pc \in InService,
           NEW t \in Tasks, x.task = t, y.task = t, OneServer(t), UNCHANGED <<stream, retry>>
    PROVE  /\ NewAttempt(t) <=> x.pc \in Reading
           /\ NewAttempt(t)' <=> y.pc \in Reading
           /\ Due(t) <=> x.pc = "execute"
           /\ Due(t)' <=> y.pc = "execute"
<1>1. \A b \in Loops : loop'[b] = IF b = a THEN y ELSE loop[b]
  BY TurnsLoop
<1>2. x = loop[a] /\ Serves(a, t)
  BY DEF Turns, Serves
<1>3. /\ \A b \in Loops : Serves(b, t) => b = a
      /\ ~InStream(t) /\ t \notin retry /\ ~Moving(t)
  BY <1>2 DEF OneServer
<1>4. Serves(a, t)' /\ \A b \in Loops : Serves(b, t)' => b = a
  BY <1>1, <1>3 DEF Serves
<1>5. ~InStream(t)' /\ t \notin retry'
  BY <1>3 DEF InStream
<1>6. ~Moving(t)'
  <2>1. y.pc # "promoting"
    BY DEF InService, Reading, Finishing
  <2> QED
    BY <1>1, <1>3, <2>1 DEF Moving, At
<1>7. /\ NewAttempt(t) <=> x.pc \in Reading
      /\ Due(t) <=> x.pc = "execute"
  BY <1>2, <1>3 DEF NewAttempt, Due
<1>8. loop'[a] = y
  BY <1>1
<1>9. NewAttempt(t)' <=> y.pc \in Reading
  BY <1>4, <1>5, <1>6, <1>8 DEF NewAttempt
<1>10. Due(t)' <=> y.pc = "execute"
  BY <1>4, <1>8 DEF Due
<1> QED
  BY <1>7, <1>9, <1>10

LEMMA ServicePaid ==
    ASSUME TypeOK, TypeOK', NEW a \in Loops, NEW x, NEW y, Turns(a, x, y),
           x.pc \in InService, y.pc \in InService,
           NEW t \in Tasks, x.task = t, y.task = t, OneServer(t), UNCHANGED <<stream, retry>>,
           Paid(t), NEW d \in TaskDoc, task[t] = d, NEW e \in TaskDoc, task'[t] = e,
           FaultCount' = FaultCount \/ FaultCount' = FaultCount + 1,
           \/ e.attempts = d.attempts /\ y.pc # "execute"
              /\ (y.pc \in Reading => x.pc \in Reading)
           \/ e.attempts = d.attempts + 1 /\ x.pc \in Reading /\ y.pc \notin Reading,
           \/ runs'[t] = runs[t]
           \/ x.pc = "execute" /\ runs'[t] <= runs[t] + 1
    PROVE  Paid(t)'
<1>1. /\ NewAttempt(t) <=> x.pc \in Reading
      /\ NewAttempt(t)' <=> y.pc \in Reading
      /\ Due(t) <=> x.pc = "execute"
      /\ Due(t)' <=> y.pc = "execute"
  BY ServiceDue
<1>2. /\ d.attempts \in Nat /\ e.attempts \in Nat /\ runs[t] \in Nat /\ runs'[t] \in Nat
      /\ FaultCount \in Nat /\ MaxAttempts \in Nat
      /\ d # None /\ e # None
  BY FaultCountType, OperationalAssumption, NoneIsNoDoc DEF TypeOK, TaskDoc
<1>3. /\ d.attempts <= MaxAttempts
      /\ x.pc \in Reading => d.attempts < MaxAttempts
      /\ runs[t] <= d.attempts + FaultCount
      /\ x.pc = "execute" => runs[t] < d.attempts + FaultCount
  BY <1>1, <1>2 DEF Paid
<1>4. x.pc = "execute" => x.pc \notin Reading
  BY DEF Reading
<1>5. e.attempts <= MaxAttempts /\ (y.pc \in Reading => e.attempts < MaxAttempts)
  BY <1>2, <1>3
<1>6. /\ runs'[t] <= e.attempts + FaultCount'
      /\ y.pc = "execute" => runs'[t] < e.attempts + FaultCount'
  BY <1>2, <1>3, <1>4
<1> QED
  BY <1>1, <1>2, <1>5, <1>6 DEF Paid

LEMMA ServeLook ==
    ASSUME CoreInv, SteadyInv, NEW a \in Loops, NEW x, x = loop[a], x.pc \in InService
    PROVE  \E t \in Tasks, d \in TaskDoc :
              /\ x.task = t /\ task[t] = d /\ d # None /\ x.msg \in Messages /\ x.msg[1] = t
              /\ Apart(t) /\ OneServer(t) /\ Paid(t)
              /\ Current(x, pel, processing[t], d)
              /\ x.found # None => x.found[1] = t
<1>1. Hand(x, task)
  BY DEF CoreInv, HandsFull
<1>2. PICK t \in Tasks : t = x.task
  BY <1>1 DEF Hand
<1>3. x.msg \in Messages /\ x.msg[1] = t /\ task[t] # None /\ (x.found # None => x.found[1] = t)
  BY <1>1, <1>2 DEF Hand
<1>4. PICK d \in TaskDoc : d = task[t]
  BY <1>3 DEF CoreInv, TypeOK
<1>5. Steady(t) /\ Serves(a, t)
  BY <1>2 DEF SteadyInv, Serves
<1> QED
  BY <1>2, <1>3, <1>4, <1>5 DEF Steady, Apart, ServersCurrent

LEMMA QuietServiceSteady ==
    ASSUME CoreInv, CoreInv', SteadyInv, NEW a \in Loops, NEW x, NEW y, Turns(a, x, y),
           x.pc \in InService, y.pc \in InService, y.pc # "execute",
           y.pc \in Reading => x.pc \in Reading,
           y.task = x.task, y.msg = x.msg, y.batch = x.batch,
           UNCHANGED redis,
           FaultCount' = FaultCount \/ FaultCount' = FaultCount + 1,
           \A u \in Tasks : \/ runs'[u] = runs[u]
                            \/ x.pc = "execute" /\ x.task = u /\ runs'[u] <= runs[u] + 1,
           \A t \in Tasks, d \in TaskDoc :
               x.task = t /\ task[t] = d /\ Current(x, pel, processing[t], d) =>
                   Current(y, pel, processing[t], d)
    PROVE  SteadyInv'
<1>1. x = loop[a]
  BY DEF Turns
<1>2. PICK t \in Tasks, d \in TaskDoc :
              /\ x.task = t /\ task[t] = d
              /\ OneServer(t) /\ Paid(t)
              /\ Current(x, pel, processing[t], d)
  BY <1>1, ServeLook
<1>3. UNCHANGED <<stream, retry, pel, processing, task>>
  BY DEF redis
<1>4. Current(y, pel', processing'[t], task'[t])
  BY <1>2, <1>3
<1>5. Paid(t)'
  <2>1. TypeOK /\ TypeOK' /\ task'[t] = d
    BY <1>2, <1>3 DEF CoreInv
  <2>2. \/ runs'[t] = runs[t]
        \/ x.pc = "execute" /\ runs'[t] <= runs[t] + 1
    OBVIOUS
  <2> QED
    BY <1>2, <1>3, <2>1, <2>2, ServicePaid
<1>6. \A u \in Tasks : u # t => /\ processing'[u] = processing[u]
                                /\ task'[u] = task[u] /\ runs'[u] = runs[u]
  BY <1>2, <1>3
<1>7. pel' \subseteq pel /\ (\A m \in pel : m[1] # t => m \in pel') /\ TypeOK'
  BY <1>3 DEF CoreInv
<1> QED
  BY <1>2, <1>3, <1>4, <1>5, <1>6, <1>7, ServiceSteady

LEMMA LookSteady ==
    ASSUME CoreInv, CoreInv', SteadyInv, NEW a \in Loops,
           GetTask(a) \/ DequeueGet(a) \/ MessageId(a)
    PROVE  SteadyInv'
<1>1. /\ UNCHANGED redis /\ FaultCount' = FaultCount
      /\ \A u \in Tasks : runs'[u] = runs[u]
  BY DEF GetTask, DequeueGet, MessageId, past, FaultCount
<1>2. TypeOK /\ HandsFull
  BY DEF CoreInv
<1>3. CASE GetTask(a)
  <2>1. PICK x, y : /\ Turns(a, x, y) /\ x.pc = "get"
                    /\ Fields(y, "hget", x.task, task[x.task], x.msg, x.found, x.batch)
    BY <1>2, <1>3, TaskEffect
  <2>2. /\ x.pc \in InService /\ y.pc \in InService /\ y.pc # "execute" /\ y.pc \notin Reading
        /\ y.task = x.task /\ y.msg = x.msg /\ y.batch = x.batch /\ y.pc = "hget"
        /\ y.copy = task[x.task]
    BY <2>1 DEF Fields, InService, Reading, Finishing
  <2>3. ASSUME NEW t \in Tasks, NEW d \in TaskDoc, x.task = t, task[t] = d,
               Current(x, pel, processing[t], d)
        PROVE  Current(y, pel, processing[t], d)
    BY <2>1, <2>2, <2>3 DEF Current, Finishing
  <2> QED
    BY <1>1, <2>1, <2>2, <2>3, QuietServiceSteady
<1>4. CASE DequeueGet(a)
  <2>1. PICK x, y : /\ Turns(a, x, y) /\ x.pc = "read"
                    /\ Fields(y, "begin", x.task, Began(task[x.task]), x.msg, x.found, x.batch)
    BY <1>2, <1>4, GetEffect
  <2>2. /\ x.pc \in InService /\ y.pc \in InService /\ y.pc # "execute" /\ x.pc \in Reading
        /\ y.task = x.task /\ y.msg = x.msg /\ y.batch = x.batch /\ y.pc = "begin"
        /\ y.copy = Began(task[x.task])
    BY <2>1 DEF Fields, InService, Reading, Finishing
  <2>3. ASSUME NEW t \in Tasks, NEW d \in TaskDoc, x.task = t, task[t] = d,
               Current(x, pel, processing[t], d)
        PROVE  Current(y, pel, processing[t], d)
    BY <2>2, <2>3 DEF Current, Finishing
  <2> QED
    BY <1>1, <2>1, <2>2, <2>3, QuietServiceSteady
<1>5. CASE MessageId(a)
  <2>1. PICK x, y : /\ Turns(a, x, y) /\ x.pc = "hget"
                    /\ Fields(y, "commit", x.task, x.copy, x.msg, processing[x.task], x.batch)
    BY <1>2, <1>5, IdEffect
  <2>2. /\ x.pc \in InService /\ y.pc \in InService /\ y.pc # "execute" /\ y.pc \notin Reading
        /\ y.task = x.task /\ y.msg = x.msg /\ y.batch = x.batch /\ y.pc = "commit"
        /\ y.copy = x.copy /\ y.found = processing[x.task]
    BY <2>1 DEF Fields, InService, Reading, Finishing
  <2>3. ASSUME NEW t \in Tasks, NEW d \in TaskDoc, x.task = t, task[t] = d,
               Current(x, pel, processing[t], d)
        PROVE  Current(y, pel, processing[t], d)
    BY <2>1, <2>2, <2>3 DEF Current, Finishing
  <2> QED
    BY <1>1, <2>1, <2>2, <2>3, QuietServiceSteady
<1> QED
  BY <1>3, <1>4, <1>5

LEMMA ExecuteSteady ==
    ASSUME CoreInv, CoreInv', SteadyInv, NEW a \in Loops, Execute(a)
    PROVE  SteadyInv'
<1>1. UNCHANGED redis /\ FaultCount' = FaultCount
  BY DEF Execute, FaultCount
<1>2. PICK x, y : /\ Turns(a, x, y) /\ x.pc = "execute"
                  /\ Fields(y, "get", x.task, x.copy, x.msg, x.found, x.batch)
  BY ExecuteEffect DEF CoreInv
<1>3. /\ x.pc \in InService /\ y.pc \in InService /\ y.pc # "execute" /\ y.pc \notin Reading
      /\ y.task = x.task /\ y.msg = x.msg /\ y.batch = x.batch /\ y.pc = "get" /\ x = loop[a]
  BY <1>2 DEF Fields, InService, Reading, Finishing, Turns
<1>4. x.task \in Tasks
  BY <1>3 DEF CoreInv, HandsFull, Hand
<1>5. \A u \in Tasks : \/ runs'[u] = runs[u]
                       \/ x.pc = "execute" /\ x.task = u /\ runs'[u] <= runs[u] + 1
  <2>1. runs \in [Tasks -> Nat] /\ runs' \in [Tasks -> Nat]
    BY DEF CoreInv, TypeOK
  <2>2. \A u \in Tasks : u # x.task => runs'[u] = runs[u]
    BY <1>3, <1>4, <2>1 DEF Execute
  <2>3. runs'[x.task] <= runs[x.task] + 1
    BY <1>3, <1>4, <2>1 DEF Execute
  <2> QED
    BY <1>2, <1>4, <2>2, <2>3
<1>6. ASSUME NEW t \in Tasks, NEW d \in TaskDoc, x.task = t, task[t] = d,
             Current(x, pel, processing[t], d)
      PROVE  Current(y, pel, processing[t], d)
  BY <1>2, <1>3, <1>6 DEF Current, Finishing
<1> QED
  BY <1>1, <1>2, <1>3, <1>5, <1>6, QuietServiceSteady

\* A fault takes the loop away from its task, or it goes on to fail it.
LEMMA ErrorSteady ==
    ASSUME CoreInv, CoreInv', SteadyInv, NEW a \in Loops, CommandError(a)
    PROVE  SteadyInv'
<1>1. PICK x, y :
             /\ Turns(a, x, y)
             /\ x.pc \notin {"off", "dead", "execute"}
             /\ \/ /\ x.pc \in {"get", "hget", "commit"} /\ severed' = severed
                   /\ Fields(y, "get", x.task, None, x.msg, x.found, x.batch)
                \/ /\ Fields(y, "dead", None, None, None, None, {})
                   /\ severed' = severed \cup Between({a})
  BY ErrorEffect DEF CoreInv
<1>2. /\ UNCHANGED redis /\ FaultCount' = FaultCount + 1
      /\ \A u \in Tasks : runs'[u] = runs[u]
  BY FaultCounted DEF CommandError, CoreInv
<1>3. UNCHANGED <<stream, retry, pel, processing, task>>
  BY <1>2 DEF redis
<1>4. CASE x.pc \in {"get", "hget", "commit"} /\ Fields(y, "get", x.task, None, x.msg, x.found, x.batch)
  <2>1. /\ x.pc \in InService /\ y.pc \in InService /\ y.pc # "execute" /\ y.pc \notin Reading
        /\ y.task = x.task /\ y.msg = x.msg /\ y.batch = x.batch /\ y.pc = "get"
    BY <1>4 DEF Fields, InService, Reading, Finishing
  <2>2. ASSUME NEW t \in Tasks, NEW d \in TaskDoc, x.task = t, task[t] = d,
               Current(x, pel, processing[t], d)
        PROVE  Current(y, pel, processing[t], d)
    BY <1>4, <2>1, <2>2 DEF Current, Finishing
  <2> QED
    BY <1>1, <1>2, <2>1, <2>2, QuietServiceSteady
<1>5. CASE Fields(y, "dead", None, None, None, None, {})
  <2>1. y.pc = "dead" /\ y.batch = {}
    BY <1>5 DEF Fields
  <2>2. ASSUME NEW t \in Tasks
        PROVE  Steady(t)'
    <3>1. Steady(t) /\ BatchesApart(t)
      BY DEF SteadyInv, Steady, Apart
    <3>2. ~On(y, t)
      BY <2>1 DEF On, InService, Reading, Finishing
    <3>3. \A m \in Messages : m[1] = t => /\ Queued(m)' => Queued(m)
                                          /\ m \in pel' <=> m \in pel
                                          /\ m \in y.batch => m \in x.batch
      BY <1>3, <2>1 DEF Queued
    <3>4. Aside(t)
      BY <1>1, <1>2, <1>3, <3>1, <3>2, <3>3, AsideTurn DEF CoreInv
    <3> QED
      BY <3>1, <3>4, SteadyAside DEF CoreInv
  <2>3. EndedEmpty'
    BY <1>1, <2>1, EndedTurn DEF SteadyInv, CoreInv
  <2> QED
    BY <2>2, <2>3 DEF SteadyInv
<1> QED
  BY <1>1, <1>4, <1>5

LEMMA MarkSteady ==
    ASSUME CoreInv, CoreInv', SteadyInv, NEW a \in Loops, DequeueMark(a)
    PROVE  SteadyInv'
<1>1. PICK x, y : /\ Turns(a, x, y) /\ x.pc = "begin"
                  /\ Fields(y, "execute", x.task, None, x.msg, x.found, x.batch)
  BY MarkEffect DEF CoreInv
<1>2. /\ x = loop[a] /\ x.pc \in InService /\ y.pc \in InService
      /\ y.msg = x.msg /\ y.batch = x.batch /\ y.task = x.task
      /\ y.pc = "execute" /\ x.pc \in Reading /\ y.pc \notin Reading
  BY <1>1 DEF Fields, InService, Reading, Finishing, Turns
<1>3. PICK t \in Tasks, d \in TaskDoc :
              /\ x.task = t /\ task[t] = d
              /\ OneServer(t) /\ Paid(t)
              /\ Current(x, pel, processing[t], d)
  BY <1>2, ServeLook
<1>4. PICK e \in TaskDoc : e = Began(d) /\ e.attempts = d.attempts + 1
  BY BeganDoc
<1>5. x.copy = e
  BY <1>1, <1>3, <1>4 DEF Current
<1>6. /\ task' = [task EXCEPT ![t] = e] /\ processing' = [processing EXCEPT ![t] = x.msg]
      /\ UNCHANGED <<stream, pel, retry, runs, faults>>
  BY <1>2, <1>3, <1>5 DEF DequeueMark, past
<1>7. /\ task'[t] = e /\ processing'[t] = x.msg
      /\ \A u \in Tasks : u # t => processing'[u] = processing[u] /\ task'[u] = task[u]
  BY <1>6 DEF CoreInv, TypeOK
<1>8. Current(y, pel', processing'[t], task'[t])
  BY <1>2, <1>7 DEF Current
<1>9. FaultCount' = FaultCount
  BY <1>6 DEF FaultCount
<1>10. Paid(t)'
  <2>1. TypeOK /\ TypeOK' /\ runs'[t] = runs[t]
    BY <1>6 DEF CoreInv
  <2> QED
    BY <1>1, <1>2, <1>3, <1>4, <1>6, <1>7, <1>9, <2>1, ServicePaid
<1>11. /\ pel' \subseteq pel /\ (\A m \in pel : m[1] # t => m \in pel') /\ TypeOK'
       /\ \A u \in Tasks : u # t => runs'[u] = runs[u]
  BY <1>6 DEF CoreInv
<1> QED
  BY <1>1, <1>2, <1>3, <1>6, <1>7, <1>8, <1>9, <1>10, <1>11, ServiceSteady

\* What a commit writes is what was there, with another status, and what it
\* acknowledges is the message in hand.
LEMMA CommitLook ==
    ASSUME CoreInv, SteadyInv, NEW a \in Loops, NEW x, x = loop[a], x.pc = "commit",
           NEW s \in Status, Commits(x, s)
    PROVE  \E t \in Tasks, d \in TaskDoc, e \in TaskDoc :
              /\ x.task = t /\ task[t] = d /\ Apart(t) /\ Paid(t) /\ x.copy = d
              /\ e.status = s /\ e.attempts = d.attempts /\ e = [d EXCEPT !.status = s]
              /\ task' = [task EXCEPT ![t] = e] /\ task'[t] = e
              /\ \A u \in Tasks : u # t => processing'[u] = processing[u] /\ task'[u] = task[u]
              /\ pel' \subseteq pel /\ \A m \in pel : m[1] # t => m \in pel'
              /\ \A m \in pel' : m[1] # t
<1>1. x.pc \in InService
  BY DEF InService, Finishing
<1>2. PICK t \in Tasks, d \in TaskDoc :
              /\ x.task = t /\ task[t] = d /\ Apart(t) /\ OneServer(t) /\ Paid(t)
              /\ Current(x, pel, processing[t], d)
              /\ x.found # None => x.found[1] = t
  BY <1>1, ServeLook
<1>3. x.copy = d /\ (x.msg \in pel => x.found = x.msg)
  BY <1>2 DEF Current
<1>4. PICK e \in TaskDoc : e = [d EXCEPT !.status = s] /\ e.status = s /\ e.attempts = d.attempts
  BY StatusDoc
<1>5. /\ task' = [task EXCEPT ![t] = e] /\ pel' = pel \ {x.found}
      /\ processing' = [processing EXCEPT ![t] = None]
  BY <1>2, <1>3, <1>4 DEF Commits
<1>6. /\ task'[t] = e
      /\ \A u \in Tasks : u # t => processing'[u] = processing[u] /\ task'[u] = task[u]
  BY <1>5 DEF CoreInv, TypeOK
<1>7. \A m \in pel : m \in Messages /\ m # None
  BY NoneIsNoDoc DEF CoreInv, TypeOK
<1>8. pel' \subseteq pel /\ \A m \in pel : m[1] # t => m \in pel'
  BY <1>2, <1>5, <1>7
<1>9. \A m \in pel' : m[1] # t
  <2>1. Serves(a, t)
    BY <1>1, <1>2 DEF Serves
  <2>2. \A m \in pel : m[1] = t => m = x.msg
    BY <1>2, <2>1 DEF OneServer
  <2> QED
    BY <1>3, <1>5, <2>2
<1> QED
  BY <1>2, <1>3, <1>4, <1>5, <1>6, <1>8, <1>9

LEMMA LostSteady ==
    ASSUME CoreInv, CoreInv', SteadyInv, NEW a \in Loops, ReplyLost(a)
    PROVE  SteadyInv'
<1>1. PICK x, y : /\ Turns(a, x, y) /\ x.pc = "commit"
                  /\ Fields(y, "get", x.task, None, x.msg, x.found, x.batch)
  BY LostEffect DEF CoreInv
<1>2. /\ x = loop[a] /\ x.pc \in InService /\ y.pc \in InService
      /\ y.msg = x.msg /\ y.batch = x.batch /\ y.task = x.task
      /\ y.pc = "get" /\ y.pc # "execute" /\ y.pc \notin Reading
  BY <1>1 DEF Fields, InService, Reading, Finishing, Turns
<1>3. Commits(x, "completed") /\ "completed" \in Status
  BY <1>1 DEF Turns, ReplyLost, Commits, Acknowledge, Status
<1>4. PICK t \in Tasks, d \in TaskDoc, e \in TaskDoc :
              /\ x.task = t /\ task[t] = d /\ Apart(t) /\ Paid(t)
              /\ e.attempts = d.attempts /\ task'[t] = e
              /\ \A u \in Tasks : u # t => processing'[u] = processing[u] /\ task'[u] = task[u]
              /\ pel' \subseteq pel /\ \A m \in pel : m[1] # t => m \in pel'
              /\ \A m \in pel' : m[1] # t
  BY <1>1, <1>2, <1>3, CommitLook
<1>5. /\ UNCHANGED <<stream, retry, runs>> /\ FaultCount' = FaultCount + 1
  BY FaultCounted DEF ReplyLost, CoreInv
<1>6. Current(y, pel', processing'[t], task'[t])
  <2>1. y.msg[1] = t
    BY <1>2, <1>4 DEF CoreInv, HandsFull, Hand
  <2> QED
    BY <1>2, <1>4, <2>1 DEF Current
<1>7. Paid(t)'
  <2>1. TypeOK /\ TypeOK' /\ runs'[t] = runs[t] /\ OneServer(t)
    BY <1>4, <1>5 DEF CoreInv, Apart
  <2> QED
    BY <1>1, <1>2, <1>4, <1>5, <2>1, ServicePaid
<1>8. TypeOK' /\ \A u \in Tasks : u # t => runs'[u] = runs[u]
  BY <1>5 DEF CoreInv
<1> QED
  BY <1>1, <1>2, <1>4, <1>5, <1>6, <1>7, <1>8, ServiceSteady

\* The other tasks are not concerned.
LEMMA OthersSteady ==
    ASSUME CoreInv, CoreInv', SteadyInv, NEW a \in Loops, NEW x, NEW y, Turns(a, x, y),
           NEW u \in Tasks, \A t \in Tasks : On(x, t) \/ On(y, t) => t = u,
           UNCHANGED <<faults, runs>>, y.batch \subseteq x.batch,
           \A m \in Messages : m[1] # u => /\ Queued(m)' => Queued(m)
                                           /\ m \in pel' <=> m \in pel,
           \A t \in Tasks : t # u => /\ t \in retry' => t \in retry
                                     /\ processing'[t] = processing[t] /\ task'[t] = task[t],
           y.pc \notin {"off", "dead"}, Steady(u)'
    PROVE  SteadyInv'
<1>1. FaultCount' = FaultCount
  BY DEF FaultCount
<1>2. ASSUME NEW t \in Tasks, t # u
      PROVE  Steady(t)'
  <2>1. Steady(t) /\ BatchesApart(t)
    BY DEF SteadyInv, Steady, Apart
  <2>2. ~On(y, t) /\ ~(x.pc \in InService /\ x.task = t)
    BY <1>2 DEF On
  <2>3. \A m \in Messages : m[1] = t => /\ Queued(m)' => Queued(m)
                                        /\ m \in pel' <=> m \in pel
                                        /\ m \in y.batch => m \in x.batch
    BY <1>2
  <2>4. /\ t \in retry' => t \in retry
        /\ processing'[t] = processing[t] /\ task'[t] = task[t] /\ runs'[t] = runs[t]
    BY <1>2
  <2>5. Aside(t)
    BY <1>1, <2>1, <2>2, <2>3, <2>4, AsideTurn DEF CoreInv
  <2> QED
    BY <2>1, <2>5, SteadyAside DEF CoreInv
<1>3. EndedEmpty'
  BY EndedTurn DEF CoreInv, SteadyInv
<1> QED
  BY <1>2, <1>3 DEF SteadyInv

Unserved(t) == \A b \in Loops : ~Serves(b, t) /\ \A m \in loop[b].batch : m[1] # t

LEMMA UnservedApart ==
    ASSUME NEW t, OneToken(t)', Unserved(t)'
    PROVE  Apart(t)' /\ ServersCurrent(t)'
BY DEF Unserved, Apart, OneServer, BatchesApart, ServersCurrent

\* A task that waits for a new attempt is in nobody's hands.
LEMMA TokenUnserved ==
    ASSUME NEW t, Apart(t), InStream(t) \/ t \in retry \/ Moving(t)
    PROVE  Unserved(t) /\ ~InPel(t)
<1>1. ~InPel(t)
  BY DEF Apart, OneToken
<1> QED
  BY <1>1 DEF Unserved, Apart, OneServer, BatchesApart, InPel

LEMMA UnservedPaid ==
    ASSUME TypeOK, TypeOK', NEW t \in Tasks, Paid(t), Unserved(t)', ~InPel(t)',
           NEW d \in TaskDoc, task[t] = d, NEW e \in TaskDoc, task'[t] = e,
           e.attempts = d.attempts, UNCHANGED <<runs, faults>>,
           InStream(t)' \/ t \in retry' \/ Moving(t)' => d.attempts < MaxAttempts
    PROVE  Paid(t)'
<1>1. ~Due(t)' /\ (NewAttempt(t)' => d.attempts < MaxAttempts)
  BY DEF Unserved, Due, NewAttempt
<1>2. FaultCount' = FaultCount /\ runs'[t] = runs[t] /\ d # None /\ e # None
  BY NoneIsNoDoc DEF FaultCount
<1> QED
  BY <1>1, <1>2 DEF Paid

LEMMA EndSteady ==
    ASSUME CoreInv, CoreInv', SteadyInv, NEW a \in Loops, NEW x, NEW y, Turns(a, x, y),
           x.pc = "commit", NEW s \in Status, Commits(x, s),
           Fields(y, IF x.batch # {} THEN "claimed" ELSE "idle",
                  None, None, None, None, x.batch),
           UNCHANGED <<stream, added, runs, faults>>,
           retry' \subseteq retry \cup {x.task},
           x.task \in retry' => x.copy.attempts < MaxAttempts
    PROVE  SteadyInv'
<1>1. x = loop[a] /\ x.pc \in InService
  BY DEF Turns, InService, Finishing
<1>2. PICK t \in Tasks, d \in TaskDoc, e \in TaskDoc :
              /\ x.task = t /\ task[t] = d /\ Apart(t) /\ Paid(t) /\ x.copy = d
              /\ e.attempts = d.attempts /\ task'[t] = e
              /\ \A u \in Tasks : u # t => processing'[u] = processing[u] /\ task'[u] = task[u]
              /\ pel' \subseteq pel /\ \A m \in pel : m[1] # t => m \in pel'
              /\ \A m \in pel' : m[1] # t
  BY <1>1, CommitLook
<1>3. \A b \in Loops : loop'[b] = IF b = a THEN y ELSE loop[b]
  BY TurnsLoop DEF CoreInv
<1>4. y.pc \in {"claimed", "idle"} /\ y.batch = x.batch
  BY DEF Fields
<1>5. y.pc \notin InService \cup {"promoting"} /\ y.pc \notin {"off", "dead"}
  BY <1>4 DEF InService, Reading, Finishing
<1>6. Serves(a, t)
  BY <1>1, <1>2 DEF Serves
<1>7. /\ \A b \in Loops : Serves(b, t) => b = a
      /\ ~InStream(t) /\ t \notin retry /\ ~Moving(t)
      /\ \A b \in Loops : \A m \in loop[b].batch : m[1] # t
  BY <1>2, <1>6 DEF Apart, OneServer
<1>8. Unserved(t)'
  BY <1>1, <1>3, <1>4, <1>5, <1>7 DEF Unserved, Serves
<1>9. ~InPel(t)'
  BY <1>2 DEF InPel
<1>10. ~InStream(t)' /\ \A m \in Messages : Queued(m)' = Queued(m)
  BY <1>7 DEF InStream, Queued
<1>11. ~Moving(t)' /\ \A b \in Loops : ~Moves(b, t)'
  BY <1>1, <1>3, <1>5, <1>7 DEF Moving, Moves, At
<1>12. OneToken(t)'
  <2>1. \A m \in Messages : Queued(m) => m[1] # t
    BY <1>7, StreamOfTask DEF CoreInv
  <2> QED
    BY <1>2, <1>9, <1>10, <1>11, <2>1 DEF OneToken
<1>13. Steady(t)'
  <2>1. Apart(t)' /\ ServersCurrent(t)'
    BY <1>8, <1>12, UnservedApart
  <2>2. Paid(t)'
    BY <1>2, <1>8, <1>9, <1>10, <1>11, UnservedPaid DEF CoreInv
  <2> QED
    BY <2>1, <2>2 DEF Steady
<1>14. \A u \in Tasks : On(x, u) \/ On(y, u) => u = t
  BY <1>2, <1>5 DEF On
<1>15. \A m \in Messages : m[1] # t => /\ Queued(m)' => Queued(m)
                                       /\ m \in pel' <=> m \in pel
  BY <1>2, <1>10
<1>16. \A u \in Tasks : u # t => /\ u \in retry' => u \in retry
                                 /\ processing'[u] = processing[u] /\ task'[u] = task[u]
  BY <1>2
<1> QED
  BY <1>4, <1>5, <1>13, <1>14, <1>15, <1>16, OthersSteady

LEMMA CommitSteady ==
    ASSUME CoreInv, CoreInv', SteadyInv, NEW a \in Loops, Complete(a) \/ Fail(a)
    PROVE  SteadyInv'
<1>1. CASE Complete(a)
  <2>1. PICK x, y : /\ Turns(a, x, y) /\ x.pc = "commit"
                    /\ Fields(y, IF x.batch # {} THEN "claimed" ELSE "idle",
                              None, None, None, None, x.batch)
    BY <1>1, CompleteEffect DEF CoreInv
  <2>2. Commits(x, "completed") /\ "completed" \in Status /\ x = loop[a] /\ x.pc \in InService
    BY <1>1, <2>1 DEF Turns, Complete, Commits, Acknowledge, Status, InService, Finishing
  <2>3. UNCHANGED <<stream, added, runs, faults, retry>>
    BY <1>1 DEF Complete, past
  <2>4. x.task \notin retry
    BY <2>2, ServeLook DEF OneServer, Serves
  <2> QED
    BY <2>1, <2>2, <2>3, <2>4, EndSteady
<1>2. CASE Fail(a)
  <2>1. PICK x, y : /\ Turns(a, x, y) /\ x.pc = "commit"
                    /\ Fields(y, IF x.batch # {} THEN "claimed" ELSE "idle",
                              None, None, None, None, x.batch)
    BY <1>2, FailEffect DEF CoreInv
  <2>2. PICK s \in Status : Commits(x, s)
    BY <1>2, <2>1 DEF Turns, Fail, Commits, Acknowledge, Status
  <2>3. x = loop[a] /\ x.pc \in InService
    BY <2>1 DEF Turns, InService, Finishing
  <2>4. x.task \notin retry
    BY <2>3, ServeLook DEF OneServer, Serves
  <2>5. /\ UNCHANGED <<stream, added, runs, faults>>
        /\ retry' = IF x.copy.attempts >= MaxAttempts THEN retry ELSE retry \cup {x.task}
    BY <1>2, <2>3 DEF Fail, past
  <2>6. x.copy \in TaskDoc
    BY <2>1, <2>3 DEF CoreInv, HandsFull, Hand
  <2>7. x.copy.attempts \in Nat /\ MaxAttempts \in Nat
    BY <2>6, OperationalAssumption DEF TaskDoc
  <2>8. x.task \in retry' => x.copy.attempts < MaxAttempts
    BY <2>4, <2>5, <2>7
  <2>9. retry' \subseteq retry \cup {x.task}
    BY <2>5
  <2> QED
    BY <2>1, <2>2, <2>5, <2>8, <2>9, EndSteady
<1> QED
  BY <1>1, <1>2

LEMMA ZremSteady ==
    ASSUME CoreInv, CoreInv', SteadyInv, NEW a \in Loops, NEW t \in Tasks, PromoteZrem(a, t)
    PROVE  SteadyInv'
<1>1. PICK x, y : /\ Turns(a, x, y) /\ x.pc = "idle"
                  /\ Fields(y, "promoting", t, x.copy, x.msg, x.found, x.batch)
  BY ZremEffect DEF CoreInv
<1>2. /\ UNCHANGED <<task, stream, pel, processing, runs, faults>>
      /\ t \in retry /\ retry' = retry \ {t}
  BY DEF PromoteZrem, past
<1>3. Apart(t) /\ Paid(t)
  BY DEF SteadyInv, Steady
<1>4. Unserved(t) /\ ~InPel(t) /\ ~InStream(t) /\ ~Moving(t)
  BY <1>2, <1>3, TokenUnserved DEF Apart, OneToken
<1>5. \A b \in Loops : loop'[b] = IF b = a THEN y ELSE loop[b]
  BY <1>1, TurnsLoop DEF CoreInv
<1>6. /\ y.pc = "promoting" /\ y.task = t /\ y.batch = x.batch /\ x = loop[a]
      /\ y.pc \notin InService /\ x.pc \notin InService \cup {"promoting"}
  BY <1>1 DEF Fields, Turns, InService, Reading, Finishing
<1>7. Unserved(t)'
  BY <1>4, <1>5, <1>6 DEF Unserved, Serves
<1>8. ~InPel(t)' /\ ~InStream(t)' /\ \A m \in Messages : Queued(m)' = Queued(m)
  BY <1>2, <1>4 DEF InPel, InStream, Queued
<1>9. \A b \in Loops : Moves(b, t)' => b = a
  BY <1>4, <1>5 DEF Moving, Moves, At
<1>10. OneToken(t)'
  BY <1>2, <1>3, <1>8, <1>9 DEF OneToken, Apart
<1>11. Steady(t)'
  <2>1. Apart(t)' /\ ServersCurrent(t)'
    BY <1>7, <1>10, UnservedApart
  <2>2. PICK d \in TaskDoc : d = task[t]
    BY <1>2 DEF CoreInv, TypeOK, MessagesKept
  <2>3. d.attempts < MaxAttempts
    BY <1>2, <1>3, <2>2, NoneIsNoDoc DEF Paid, NewAttempt
  <2>4. Paid(t)'
    BY <1>2, <1>3, <1>7, <1>8, <2>2, <2>3, UnservedPaid DEF CoreInv
  <2> QED
    BY <2>1, <2>4 DEF Steady
<1>12. \A u \in Tasks : On(x, u) \/ On(y, u) => u = t
  BY <1>6 DEF On
<1> QED
  BY <1>1, <1>2, <1>6, <1>8, <1>11, <1>12, OthersSteady

LEMMA AddedOne ==
    ASSUME TypeOK, NEW t \in Tasks, Xadd(t)
    PROVE  \E m \in Messages : m[1] = t /\ \A n \in Messages : Queued(n)' => Queued(n) \/ n = m
<1>1. PICK m : m = <<t, added[t] + 1>>
  OBVIOUS
<1>2. m \in Messages /\ m[1] = t
  BY <1>1 DEF Messages, TypeOK
<1>3. stream \in Seq(Messages) /\ stream' = Append(stream, m)
  BY <1>1 DEF Xadd, TypeOK
<1>4. /\ DOMAIN stream' = 1..(Len(stream) + 1) /\ Len(stream) \in Nat
      /\ DOMAIN stream = 1..Len(stream)
      /\ \A i \in DOMAIN stream' : stream'[i] = IF i = Len(stream) + 1 THEN m ELSE stream[i]
  BY <1>2, <1>3
<1>5. \A i \in DOMAIN stream' : i = Len(stream) + 1 \/ i \in DOMAIN stream
  BY <1>4
<1>6. \A n \in Messages : Queued(n)' => Queued(n) \/ n = m
  BY <1>4, <1>5 DEF Queued
<1> QED
  BY <1>2, <1>6

LEMMA XaddSteady ==
    ASSUME CoreInv, CoreInv', SteadyInv, NEW a \in Loops, PromoteXadd(a)
    PROVE  SteadyInv'
<1>1. PICK x, y : /\ Turns(a, x, y) /\ x.pc = "promoting"
                  /\ Fields(y, IF x.batch # {} THEN "claimed" ELSE "idle",
                            None, None, None, None, x.batch)
  BY PromoteEffect DEF CoreInv
<1>2. x = loop[a] /\ x.task \in Tasks /\ task[x.task] # None
  BY <1>1 DEF Turns, CoreInv, HandsFull, Hand
<1>3. PICK t \in Tasks, d \in TaskDoc : t = x.task /\ d = task[t]
  BY <1>2 DEF CoreInv, TypeOK
<1>4. UNCHANGED <<task, pel, retry, processing, runs, faults>> /\ Xadd(t)
  BY <1>2, <1>3 DEF PromoteXadd, past
<1>5. Apart(t) /\ Paid(t) /\ Moves(a, t) /\ Moving(t)
  BY <1>1, <1>2, <1>3 DEF SteadyInv, Steady, Moves, Moving, At
<1>6. Unserved(t) /\ ~InPel(t) /\ ~InStream(t) /\ t \notin retry
  BY <1>5, TokenUnserved DEF Apart, OneToken
<1>7. \A b \in Loops : loop'[b] = IF b = a THEN y ELSE loop[b]
  BY <1>1, TurnsLoop DEF CoreInv
<1>8. y.pc \in {"claimed", "idle"} /\ y.batch = x.batch
  BY <1>1 DEF Fields
<1>9. y.pc \notin InService \cup {"promoting"} /\ y.pc \notin {"off", "dead"} /\ x.pc \notin InService
  BY <1>1, <1>8 DEF InService, Reading, Finishing
<1>10. Unserved(t)'
  BY <1>2, <1>6, <1>7, <1>8, <1>9 DEF Unserved, Serves
<1>11. PICK m \in Messages : m[1] = t /\ \A n \in Messages : Queued(n)' => Queued(n) \/ n = m
  BY <1>4, AddedOne DEF CoreInv
<1>12. \A n \in Messages : n[1] = t /\ Queued(n)' => n = m
  BY <1>6, <1>11, StreamOfTask DEF CoreInv
<1>13. \A b \in Loops : ~Moves(b, t)'
  BY <1>5, <1>7, <1>9 DEF Apart, OneToken, Moves
<1>14. ~InPel(t)' /\ t \notin retry' /\ ~Moving(t)' /\ \A n \in pel' : n[1] # t
  BY <1>4, <1>6, <1>13 DEF InPel, Moving, Moves, At
<1>15. OneToken(t)'
  BY <1>12, <1>13, <1>14 DEF OneToken
<1>16. Steady(t)'
  <2>1. Apart(t)' /\ ServersCurrent(t)'
    BY <1>10, <1>15, UnservedApart
  <2>2. d.attempts < MaxAttempts
    BY <1>2, <1>3, <1>5 DEF Paid, NewAttempt
  <2>3. Paid(t)'
    BY <1>3, <1>4, <1>5, <1>10, <1>14, <2>2, UnservedPaid DEF CoreInv
  <2> QED
    BY <2>1, <2>3 DEF Steady
<1>17. \A u \in Tasks : On(x, u) \/ On(y, u) => u = t
  BY <1>3, <1>9 DEF On
<1>18. \A n \in Messages : n[1] # t => /\ Queued(n)' => Queued(n)
                                       /\ n \in pel' <=> n \in pel
  BY <1>4, <1>11
<1> QED
  BY <1>1, <1>4, <1>8, <1>9, <1>16, <1>17, <1>18, OthersSteady

\* What is left of the stream is what was there without the first message.
LEMMA HeadGone ==
    ASSUME TypeOK, MessagesKept, stream # <<>>, stream' = Tail(stream), NEW m, m = Head(stream)
    PROVE  m \in Messages /\ Queued(m) /\ \A n \in Messages : Queued(n)' => Queued(n) /\ n # m
<1>1. /\ Len(stream) \in Nat /\ 1 \in DOMAIN stream /\ m = stream[1] /\ m \in Messages
      /\ DOMAIN stream = 1..Len(stream)
      /\ DOMAIN stream' = 1..(Len(stream) - 1)
      /\ \A i \in DOMAIN stream' : i + 1 \in DOMAIN stream /\ stream'[i] = stream[i + 1]
  BY DEF TypeOK
<1>2. ASSUME NEW n \in Messages, NEW i \in DOMAIN stream', stream'[i] = n
      PROVE  Queued(n) /\ n # m
  <2>1. i + 1 \in DOMAIN stream /\ stream[i + 1] = n /\ i \in 1..(Len(stream) - 1)
    BY <1>1, <1>2
  <2>2. i + 1 # 1
    BY <1>1, <2>1
  <2> QED
    BY <1>1, <2>1, <2>2 DEF Queued, MessagesKept
<1> QED
  BY <1>1, <1>2 DEF Queued

\* A loop takes a task up: it has it for itself.
LEMMA TakenSteady ==
    ASSUME CoreInv, CoreInv', SteadyInv, NEW a \in Loops, NEW x, NEW y, Turns(a, x, y),
           x.pc \notin InService \cup {"promoting"}, y.pc \in {"read", "execute"},
           NEW m \in Messages, NEW t \in Tasks, m[1] = t, y.task = t, y.msg = m, m \in pel',
           y.pc = "execute" => processing'[t] = m,
           \A n \in pel' : n[1] = t => n = m,
           ~InStream(t)', t \notin retry', ~Moving(t),
           \A b \in Loops : ~Serves(b, t),
           \A b \in Loops : b # a => \A n \in loop[b].batch : n[1] # t,
           \A n \in y.batch : n[1] # t, y.batch \subseteq x.batch,
           \A n \in Messages : n[1] # t => /\ Queued(n)' => Queued(n)
                                           /\ n \in pel' <=> n \in pel,
           \A u \in Tasks : u # t => /\ u \in retry' => u \in retry
                                     /\ processing'[u] = processing[u],
           UNCHANGED <<task, runs, faults>>,
           y.pc = "read" => NewAttempt(t), y.pc = "execute" => Due(t)
    PROVE  SteadyInv'
<1>1. \A b \in Loops : loop'[b] = IF b = a THEN y ELSE loop[b]
  BY TurnsLoop DEF CoreInv
<1>2. /\ x = loop[a] /\ y.pc \in InService /\ y.pc # "promoting" /\ y.pc \notin {"off", "dead"}
      /\ y.pc \in Reading <=> y.pc = "read"
  BY DEF Turns, InService, Reading, Finishing
<1>3. /\ Serves(a, t)' /\ \A b \in Loops : Serves(b, t)' => b = a
  BY <1>1, <1>2 DEF Serves
<1>4. ~Moving(t)' /\ \A b \in Loops : ~Moves(b, t)'
  BY <1>1, <1>2 DEF Moving, Moves, At
<1>5. \A b \in Loops : \A n \in loop'[b].batch : n[1] # t
  BY <1>1
<1>6. InPel(t)'
  BY DEF InPel
<1>7. \A n \in Messages : Queued(n)' => n[1] # t
  BY StreamOfTask DEF CoreInv
<1>8. OneToken(t)'
  BY <1>4, <1>6, <1>7 DEF OneToken
<1>9. OneServer(t)'
  <2>1. \A n \in pel' : n[1] = t => n = loop'[a].msg
    BY <1>1
  <2> QED
    BY <1>3, <1>4, <1>5, <2>1 DEF OneServer
<1>10. BatchesApart(t)'
  BY <1>5 DEF BatchesApart
<1>11. ServersCurrent(t)'
  <2>1. Current(y, pel', processing'[t], task'[t])
    BY <1>2 DEF Current, Finishing
  <2> QED
    BY <1>1, <1>3, <2>1 DEF ServersCurrent
<1>12. Paid(t)'
  <2>1. NewAttempt(t)' => y.pc = "read"
    BY <1>1, <1>2, <1>3, <1>4 DEF NewAttempt
  <2>2. Due(t)' => y.pc = "execute"
    BY <1>1, <1>3 DEF Due
  <2>3. FaultCount' = FaultCount
    BY DEF FaultCount
  <2>4. Paid(t)
    BY DEF SteadyInv, Steady
  <2> QED
    BY <2>1, <2>2, <2>3, <2>4 DEF Paid
<1>13. Steady(t)'
  BY <1>8, <1>9, <1>10, <1>11, <1>12 DEF Steady, Apart
<1>14. \A u \in Tasks : On(x, u) \/ On(y, u) => u = t
  BY <1>2 DEF On
<1> QED
  BY <1>2, <1>13, <1>14, OthersSteady

LEMMA ReadSteady ==
    ASSUME CoreInv, CoreInv', SteadyInv, NEW a \in Loops, Xreadgroup(a)
    PROVE  SteadyInv'
<1>1. PICK x, y, m : /\ Turns(a, x, y) /\ x.pc = "idle"
                     /\ m \in Messages /\ m = Head(stream)
                     /\ Fields(y, "read", m[1], x.copy, m, x.found, x.batch)
  BY ReadEffect DEF CoreInv
<1>2. /\ stream # <<>> /\ stream' = Tail(stream) /\ pel' = pel \cup {m}
      /\ UNCHANGED <<task, retry, processing, runs, faults>>
  BY <1>1 DEF Xreadgroup, past
<1>3. Queued(m) /\ \A n \in Messages : Queued(n)' => Queued(n) /\ n # m
  BY <1>1, <1>2, HeadGone DEF CoreInv
<1>4. PICK t \in Tasks : m[1] = t
  BY <1>1 DEF Messages
<1>5. /\ x.pc \notin InService \cup {"promoting"} /\ y.pc = "read" /\ x = loop[a]
      /\ y.task = t /\ y.msg = m /\ y.batch = x.batch
  BY <1>1, <1>4 DEF Fields, Turns, InService, Reading, Finishing
<1>6. Apart(t) /\ InStream(t)
  BY <1>1, <1>3, <1>4, StreamOfTask DEF SteadyInv, Steady, CoreInv
<1>7. Unserved(t) /\ ~InPel(t) /\ t \notin retry /\ ~Moving(t)
  BY <1>6, TokenUnserved DEF Apart, OneToken
<1>8. ~InStream(t)'
  <2>1. \A n \in Messages : Queued(n)' => n[1] # t
    BY <1>1, <1>3, <1>4, <1>6 DEF Apart, OneToken
  <2> QED
    BY <2>1, StreamOfTask DEF CoreInv
<1>9. \A n \in pel' : n[1] = t => n = m
  BY <1>2, <1>7 DEF InPel
<1>10. \A n \in Messages : n[1] # t => /\ Queued(n)' => Queued(n)
                                       /\ n \in pel' <=> n \in pel
  BY <1>2, <1>3, <1>4
<1>11. NewAttempt(t)
  BY <1>6 DEF NewAttempt
<1>12. /\ \A b \in Loops : ~Serves(b, t)
       /\ \A b \in Loops : \A n \in loop[b].batch : n[1] # t
  BY <1>7 DEF Unserved
<1> QED
  BY <1>1, <1>2, <1>4, <1>5, <1>7, <1>8, <1>9, <1>10, <1>11, <1>12, TakenSteady

LEMMA NextSteady ==
    ASSUME CoreInv, CoreInv', SteadyInv, NEW a \in Loops, NEW m \in loop[a].batch, ClaimedNext(a, m)
    PROVE  SteadyInv'
<1>1. m \in Messages
  BY DEF CoreInv, TypeOK, LoopState
<1>2. PICK x, y : /\ Turns(a, x, y) /\ x.pc = "claimed"
                  /\ Fields(y, "execute", m[1], None, m, None, x.batch \ {m})
  BY <1>1, NextEffect DEF CoreInv
<1>3. PICK t \in Tasks : m[1] = t
  BY <1>1 DEF Messages
<1>4. /\ x.pc \notin InService \cup {"promoting"} /\ y.pc = "execute" /\ x = loop[a]
      /\ y.task = t /\ y.msg = m /\ y.batch = x.batch \ {m}
  BY <1>2, <1>3 DEF Fields, Turns, InService, Reading, Finishing
<1>5. /\ UNCHANGED <<task, stream, pel, retry, runs, faults>>
      /\ processing' = [processing EXCEPT ![t] = m]
  BY <1>3 DEF ClaimedNext, past
<1>6. /\ processing'[t] = m
      /\ \A u \in Tasks : u # t => processing'[u] = processing[u]
  BY <1>5 DEF CoreInv, TypeOK
<1>7. Apart(t)
  BY DEF SteadyInv, Steady
<1>8. m \in pel /\ \A b \in Loops : m \in loop[b].batch => b = a
  BY <1>3, <1>7 DEF Apart, BatchesApart
<1>9. \A b \in Loops : ~Serves(b, t)
  BY <1>3, <1>7 DEF Apart, OneServer
<1>10. InPel(t) /\ \A n \in pel : n[1] = t => n = m
  BY <1>3, <1>7, <1>8 DEF Apart, OneToken, InPel
<1>11. ~InStream(t) /\ t \notin retry /\ ~Moving(t)
  BY <1>7, <1>10 DEF Apart, OneToken
<1>12. \A b \in Loops : \A n \in loop[b].batch : n[1] = t => n = m /\ b = a
  BY <1>7, <1>8, <1>10 DEF Apart, BatchesApart
<1>13. /\ \A b \in Loops : b # a => \A n \in loop[b].batch : n[1] # t
       /\ \A n \in y.batch : n[1] # t
  BY <1>4, <1>12
<1>14. Due(t)
  BY <1>9, <1>10 DEF Due
<1>15. ~InStream(t)' /\ \A n \in Messages : Queued(n)' = Queued(n)
  BY <1>5, <1>11 DEF InStream, Queued
<1>16. /\ m \in pel' /\ t \notin retry' /\ y.batch \subseteq x.batch
       /\ \A n \in pel' : n[1] = t => n = m
  BY <1>4, <1>5, <1>8, <1>10, <1>11
<1> QED
  BY <1>1, <1>2, <1>3, <1>4, <1>5, <1>6, <1>9, <1>11, <1>13, <1>14, <1>15, <1>16, TakenSteady

\* Only messages that nobody works on are claimed.
LEMMA ClaimSteady ==
    ASSUME CoreInv, CoreInv', SteadyInv, NEW a \in Loops, Xautoclaim(a)
    PROVE  SteadyInv'
<1>1. PICK x, y, S : /\ Turns(a, x, y) /\ x.pc = "idle" /\ S \subseteq Idle
                     /\ Fields(y, "claimed", x.task, x.copy, x.msg, x.found, S)
  BY AutoclaimEffect DEF CoreInv
<1>2. UNCHANGED <<task, stream, pel, retry, processing, runs, faults>>
  BY DEF Xautoclaim, redis, past
<1>3. \A b \in Loops : loop'[b] = IF b = a THEN y ELSE loop[b]
  BY <1>1, TurnsLoop DEF CoreInv
<1>4. /\ x = loop[a] /\ y.pc = "claimed" /\ y.batch = S
      /\ x.pc \notin InService \cup {"promoting"} /\ y.pc \notin InService \cup {"promoting"}
  BY <1>1 DEF Fields, Turns, InService, Reading, Finishing
<1>5. \A b \in Loops : \A t : /\ Serves(b, t)' <=> Serves(b, t)
                              /\ Serves(b, t) => loop'[b] = loop[b]
                              /\ Moves(b, t)' <=> Moves(b, t)
  BY <1>3, <1>4 DEF Serves, Moves
<1>6. \A m \in S : /\ m \in pel
                   /\ \A b \in Loops : loop[b].pc \notin {"off", "dead"} =>
                        loop[b].msg # m /\ m \notin loop[b].batch
  BY <1>1 DEF Idle, Held
<1>7. \A m \in S : \A b \in Loops : m \notin loop[b].batch
  BY <1>6 DEF SteadyInv, EndedEmpty
<1>8. ASSUME NEW t \in Tasks
      PROVE  Steady(t)'
  <2>1. Steady(t)
    BY DEF SteadyInv
  <2>2. /\ InStream(t)' = InStream(t) /\ InPel(t)' = InPel(t)
        /\ \A m \in Messages : Queued(m)' = Queued(m)
    BY <1>2 DEF InStream, InPel, Queued
  <2>3. Moving(t)' <=> Moving(t)
    BY <1>5 DEF Moving, Moves, At
  <2>4. OneToken(t)'
    BY <1>2, <1>5, <2>1, <2>2, <2>3 DEF OneToken, Steady, Apart
  <2>5. OneServer(t)'
    <3> SUFFICES ASSUME NEW c \in Loops, Serves(c, t)
                 PROVE  /\ \A b \in Loops : Serves(b, t)' => b = c
                        /\ ~InStream(t)' /\ t \notin retry' /\ ~Moving(t)'
                        /\ \A m \in pel' : m[1] = t => m = loop'[c].msg
                        /\ \A b \in Loops : \A m \in loop'[b].batch : m[1] # t
      BY <1>5 DEF OneServer
    <3>1. /\ \A b \in Loops : Serves(b, t) => b = c
          /\ ~InStream(t) /\ t \notin retry /\ ~Moving(t)
          /\ \A m \in pel : m[1] = t => m = loop[c].msg
          /\ \A b \in Loops : \A m \in loop[b].batch : m[1] # t
      BY <2>1 DEF Steady, Apart, OneServer
    <3>2. loop[c].pc \notin {"off", "dead"}
      BY DEF Serves, InService, Reading, Finishing
    <3>3. \A m \in S : m[1] # t
      BY <1>6, <3>1, <3>2
    <3>4. \A b \in Loops : \A m \in loop'[b].batch : m[1] # t
      BY <1>3, <1>4, <3>1, <3>3
    <3> QED
      BY <1>2, <1>5, <2>2, <2>3, <3>1, <3>4
  <2>6. BatchesApart(t)'
    <3>1. \A b \in Loops : \A m \in loop[b].batch : m[1] = t =>
              m \in pel /\ \A c \in Loops : m \in loop[c].batch => c = b
      BY <2>1 DEF Steady, Apart, BatchesApart
    <3>2. \A b \in Loops : b # a => loop'[b].batch = loop[b].batch
      BY <1>3
    <3>3. loop'[a].batch = S
      BY <1>3, <1>4
    <3> QED
      BY <1>2, <1>6, <1>7, <3>1, <3>2, <3>3 DEF BatchesApart
  <2>7. ServersCurrent(t)'
    BY <1>2, <1>5, <2>1 DEF ServersCurrent, Steady
  <2>8. Paid(t)'
    <3>1. NewAttempt(t)' <=> NewAttempt(t)
      BY <1>2, <1>5, <2>2, <2>3 DEF NewAttempt
    <3>2. Due(t)' <=> Due(t)
      BY <1>5, <2>2 DEF Due
    <3>3. FaultCount' = FaultCount
      BY <1>2 DEF FaultCount
    <3> QED
      BY <1>2, <2>1, <3>1, <3>2, <3>3 DEF Paid, Steady
  <2> QED
    BY <2>4, <2>5, <2>6, <2>7, <2>8 DEF Steady, Apart
<1>9. EndedEmpty'
  BY <1>1, <1>4, EndedTurn DEF SteadyInv, CoreInv
<1> QED
  BY <1>8, <1>9 DEF SteadyInv

LEMMA ProcessSteady ==
    ASSUME CoreInv, CoreInv', SteadyInv, NEW p \in Runtimes, Start(p) \/ Crash(p)
    PROVE  SteadyInv'
<1>1. /\ \A b \in Loops : loop'[b] = loop[b] \/ Empty(loop'[b])
      /\ UNCHANGED <<stream, pel, retry, processing, task, runs>>
  BY ProcessLoops DEF redis
<1>2. \A b \in Loops : Empty(loop'[b]) =>
          /\ loop'[b].batch = {} /\ loop'[b].pc \notin InService \cup {"promoting"}
  BY EmptyHand
<1>3. \/ FaultCount' = FaultCount /\ \A b \in Loops : loop[b].pc \in InService => loop'[b] = loop[b]
      \/ FaultCount' = FaultCount + 1
  <2>1. CASE Start(p)
    <3>1. FaultCount' = FaultCount
      BY <2>1 DEF Start, past, FaultCount
    <3>2. \A b \in Loops : loop[b].pc # "off" => loop'[b] = loop[b]
      BY <2>1 DEF Start, At
    <3> QED
      BY <3>1, <3>2 DEF InService, Reading, Finishing
  <2>2. CASE Crash(p)
    BY <2>2, FaultCounted DEF Crash, CoreInv
  <2> QED
    BY <2>1, <2>2
<1>4. ASSUME NEW t \in Tasks
      PROVE  Steady(t)'
  <2>1. Steady(t) /\ BatchesApart(t)
    BY DEF SteadyInv, Steady, Apart
  <2>2. \A b \in Loops : /\ Serves(b, t)' => Serves(b, t) /\ loop'[b] = loop[b]
                         /\ Moves(b, t)' => Moves(b, t)
    BY <1>1, <1>2 DEF Serves, Moves
  <2>3. \A b \in Loops : \A m \in loop'[b].batch : m[1] = t => m \in loop[b].batch /\ m \in pel'
    BY <1>1, <1>2, <2>1 DEF BatchesApart
  <2>4. Fades(t)
    BY <1>1, <2>2, <2>3 DEF Fades, Queued
  <2>5. Aside(t)
    BY <1>1, <1>3, <2>2, <2>4 DEF Aside, Serves
  <2> QED
    BY <2>1, <2>5, SteadyAside DEF CoreInv
<1>5. EndedEmpty'
  BY <1>1, <1>2 DEF EndedEmpty, SteadyInv
<1> QED
  BY <1>4, <1>5 DEF SteadyInv

\* The loops do nothing: only a task that is created is concerned.
LEMMA ApiAside ==
    ASSUME CoreInv, SteadyInv, NEW t \in Tasks, UNCHANGED <<loop, pel, retry, processing, runs>>,
           task'[t] = task[t], FaultCount' = FaultCount \/ FaultCount' = FaultCount + 1,
           \A m \in Messages : m[1] = t => (Queued(m)' => Queued(m))
    PROVE  Aside(t)
<1>1. BatchesApart(t)
  BY DEF SteadyInv, Steady, Apart
<1>2. Fades(t)
  BY <1>1 DEF Fades, Serves, Moves, BatchesApart
<1> QED
  BY <1>2 DEF Aside, Serves

\* Nothing stands for a task that does not exist.
LEMMA NothingYet ==
    ASSUME CoreInv, NEW t \in Tasks, task[t] = None
    PROVE  /\ \A m \in pel : m[1] # t
           /\ t \notin retry
           /\ \A b \in Loops : ~Serves(b, t) /\ ~Moves(b, t) /\ \A m \in loop[b].batch : m[1] # t
           /\ \A m \in Messages : Queued(m) => m[1] # t
<1>1. \A m \in Messages : Seen(m) \/ Queued(m) => m[1] # t
  BY DEF CoreInv, MessagesKept, Known
<1>2. \A m \in pel : m \in Messages /\ Seen(m)
  BY DEF CoreInv, TypeOK, Seen
<1>3. \A b \in Loops : \A m \in loop[b].batch : m \in Messages /\ Seen(m)
  BY DEF CoreInv, TypeOK, Seen, LoopState
<1>4. \A b \in Loops : ~Serves(b, t) /\ ~Moves(b, t)
  BY DEF CoreInv, HandsFull, Hand, Serves, Moves
<1>5. t \notin retry
  BY DEF CoreInv, MessagesKept
<1> QED
  BY <1>1, <1>2, <1>3, <1>4, <1>5

LEMMA CreateSteady ==
    ASSUME CoreInv, CoreInv', SteadyInv, NEW h \in Handlers, EnqueueCreate(h)
    PROVE  SteadyInv'
<1>1. PICK t \in Tasks, i \in Intents :
             /\ task[t] = None /\ task'[t] = New(i)
             /\ \A u \in Tasks : u # t => task'[u] = task[u]
             /\ Xadd(t)
  BY CreateEffect
<1>2. UNCHANGED <<pel, retry, processing, loop, runs, faults>>
  BY DEF EnqueueCreate
<1>3. PICK m \in Messages : m[1] = t /\ \A n \in Messages : Queued(n)' => Queued(n) \/ n = m
  BY <1>1, AddedOne DEF CoreInv
<1>4. FaultCount' = FaultCount
  BY <1>2 DEF FaultCount
<1>5. ASSUME NEW u \in Tasks, u # t
      PROVE  Steady(u)'
  <2>1. Aside(u)
    BY <1>1, <1>2, <1>3, <1>4, <1>5, ApiAside
  <2> QED
    BY <2>1, SteadyAside DEF SteadyInv, CoreInv
<1>6. Steady(t)'
  <2>1. /\ \A n \in pel : n[1] # t
        /\ t \notin retry
        /\ \A b \in Loops : ~Serves(b, t) /\ ~Moves(b, t) /\ \A n \in loop[b].batch : n[1] # t
        /\ \A n \in Messages : Queued(n) => n[1] # t
    BY <1>1, NothingYet
  <2>2. Unserved(t)' /\ ~InPel(t)' /\ t \notin retry' /\ ~Moving(t)' /\ \A b \in Loops : ~Moves(b, t)'
    BY <1>2, <2>1 DEF Unserved, Serves, InPel, Moving, Moves, At
  <2>3. \A n \in Messages : n[1] = t /\ Queued(n)' => n = m
    BY <1>3, <2>1
  <2>4. OneToken(t)'
    BY <1>2, <2>1, <2>2, <2>3 DEF OneToken
  <2>5. Apart(t)' /\ ServersCurrent(t)'
    BY <2>2, <2>4, UnservedApart
  <2>6. Paid(t)'
    <3>1. ~Due(t)'
      BY <2>2 DEF Due, Unserved
    <3>2. PICK d \in TaskDoc : d = task'[t] /\ d.attempts = 0 /\ d # None
      BY <1>1, NewDoc
    <3>3. runs'[t] = 0
      BY <1>1, <1>2 DEF SteadyInv, Steady, Paid
    <3>4. MaxAttempts \in Nat /\ 0 < MaxAttempts /\ FaultCount' \in Nat
      BY <1>4, FaultCountType, OperationalAssumption DEF CoreInv
    <3>5. task'[t].attempts = 0 /\ task'[t] # None
      BY <3>2
    <3>6. PICK n \in Nat : n = FaultCount'
      BY <3>4
    <3>7. 0 <= MaxAttempts /\ 0 <= 0 + n
      BY <3>4
    <3> QED
      BY <3>1, <3>3, <3>4, <3>5, <3>6, <3>7 DEF Paid
  <2> QED
    BY <2>5, <2>6 DEF Steady
<1>7. EndedEmpty'
  BY <1>2 DEF EndedEmpty, SteadyInv
<1> QED
  BY <1>5, <1>6, <1>7 DEF SteadyInv

LEMMA ApiSteady ==
    ASSUME CoreInv, CoreInv', SteadyInv, NEW h \in Handlers,
           \/ ApiStep(h) \/ ApiCrash(h)
           \/ \E t \in Tasks, r \in Requests : Enqueue(h, t, r[1], r[2])
    PROVE  SteadyInv'
<1>1. CASE EnqueueCreate(h)
  BY <1>1, CreateSteady
<1>2. CASE ~EnqueueCreate(h)
  <2>1. UNCHANGED <<task, stream, pel, retry, processing, loop, runs>>
    BY <1>2 DEF ApiStep, EnqueueExisting, ApiCrash, Enqueue, redis, past
  <2>2. FaultCount' = FaultCount \/ FaultCount' = FaultCount + 1
    <3>1. CASE ApiCrash(h)
      BY <3>1, FaultCounted DEF ApiCrash, CoreInv
    <3>2. CASE ~ApiCrash(h)
      BY <1>2, <3>2 DEF ApiStep, EnqueueExisting, Enqueue, past, FaultCount
    <3> QED
      BY <3>1, <3>2
  <2>3. ASSUME NEW u \in Tasks
        PROVE  Steady(u)'
    <3>1. \A m \in Messages : Queued(m)' = Queued(m)
      BY <2>1 DEF Queued
    <3>2. Aside(u)
      BY <2>1, <2>2, <3>1, ApiAside
    <3> QED
      BY <3>2, SteadyAside DEF SteadyInv, CoreInv
  <2>4. EndedEmpty'
    BY <2>1 DEF EndedEmpty, SteadyInv
  <2> QED
    BY <2>3, <2>4 DEF SteadyInv
<1> QED
  BY <1>1, <1>2

LEMMA StutterSteady ==
    ASSUME CoreInv, CoreInv', SteadyInv, UNCHANGED vars
    PROVE  SteadyInv'
<1>1. UNCHANGED <<task, stream, pel, retry, processing, loop, runs, faults>>
  BY DEF vars, redis, past
<1>2. FaultCount' = FaultCount /\ \A m \in Messages : Queued(m)' = Queued(m)
  BY <1>1 DEF FaultCount, Queued
<1>3. \A u \in Tasks : Steady(u)'
  BY <1>1, <1>2, ApiAside, SteadyAside DEF SteadyInv, CoreInv
<1>4. EndedEmpty'
  BY <1>1 DEF EndedEmpty, SteadyInv
<1> QED
  BY <1>3, <1>4 DEF SteadyInv

\* Faults are counted and never forgotten.
LEMMA FaultsGrow ==
    ASSUME TypeOK, [Next]_vars, NEW f \in FaultKinds, faults'[f] = 0
    PROVE  faults[f] = 0 /\ \A kind : Fault(kind) => kind # f
<1>1. faults' = faults \/ \E kind \in FaultKinds : Fault(kind)
  <2>1. CASE UNCHANGED vars
    BY <2>1 DEF vars, past
  <2>2. ASSUME NEW h \in Handlers,
               \/ ApiStep(h) \/ ApiCrash(h)
               \/ \E t \in Tasks, r \in Requests : Enqueue(h, t, r[1], r[2])
        PROVE  faults' = faults \/ Fault("api_crash")
    BY <2>2 DEF ApiStep, EnqueueExisting, EnqueueCreate, ApiCrash, Enqueue, past
  <2>3. ASSUME NEW p \in Runtimes, Start(p) \/ Crash(p)
        PROVE  faults' = faults \/ Fault("crash")
    BY <2>3 DEF Start, Crash, past
  <2>4. ASSUME NEW a \in Loops,
               \/ Work(a) \/ CommandError(a) \/ ReplyLost(a)
               \/ \E t \in Tasks : PromoteZrem(a, t)
               \/ \E m \in pel : ClaimSlow(a, m)
        PROVE  faults' = faults \/ Fault("error") \/ Fault("slow")
    BY <2>4 DEF Work, CommandError, ReplyLost, PromoteZrem, ClaimSlow, PromoteXadd, Xreadgroup,
       DequeueGet, DequeueMark, Xautoclaim, Execute, GetTask, MessageId, Complete, Fail,
       ClaimedNext, past
  <2> QED
    BY <2>1, <2>2, <2>3, <2>4 DEF Next, FaultKinds
<1>2. ASSUME NEW kind, Fault(kind)
      PROVE  kind # f /\ faults[f] = 0
  <2>1. /\ faults' = [faults EXCEPT ![kind] = @ + 1] /\ kind \in FaultKinds
        /\ faults \in [FaultKinds -> Nat]
    BY <1>2, FaultCounted DEF TypeOK
  <2>2. faults[kind] \in Nat /\ faults'[kind] = faults[kind] + 1
    BY <2>1
  <2>3. kind # f
    BY <2>2
  <2> QED
    BY <2>1, <2>3
<1> QED
  BY <1>1, <1>2

LEMMA SteadyStep ==
    ASSUME CoreInv, CoreInv', SteadyInv, [Next]_vars, NoSlow'
    PROVE  SteadyInv'
<1>1. ~Fault("slow")
  BY FaultsGrow DEF NoSlow, Unmet, CoreInv, FaultKinds
<1>2. CASE UNCHANGED vars
  BY <1>2, StutterSteady
<1>3. ASSUME NEW h \in Handlers,
             \/ ApiStep(h) \/ ApiCrash(h)
             \/ \E t \in Tasks, r \in Requests : Enqueue(h, t, r[1], r[2])
      PROVE  SteadyInv'
  BY <1>3, ApiSteady
<1>4. ASSUME NEW p \in Runtimes, Start(p) \/ Crash(p)
      PROVE  SteadyInv'
  BY <1>4, ProcessSteady
<1>5. ASSUME NEW a \in Loops,
             \/ Work(a) \/ CommandError(a) \/ ReplyLost(a)
             \/ \E t \in Tasks : PromoteZrem(a, t)
             \/ \E m \in pel : ClaimSlow(a, m)
      PROVE  SteadyInv'
  <2>1. \A m : ~ClaimSlow(a, m)
    BY <1>1 DEF ClaimSlow
  <2> QED
    BY <1>5, <2>1, LookSteady, ExecuteSteady, ErrorSteady, MarkSteady, LostSteady, CommitSteady,
       ZremSteady, XaddSteady, ReadSteady, NextSteady, ClaimSteady DEF Work
<1> QED
  BY <1>2, <1>3, <1>4, <1>5 DEF Next

LEMMA InitSteady ==
    ASSUME Init
    PROVE  SteadyInv
<1>1. CoreInv
  BY InitCore
<1>2. /\ task = [t \in Tasks |-> None] /\ runs = [t \in Tasks |-> 0]
      /\ \A a \in Loops : loop[a] = Off
  BY DEF Init
<1>3. EndedEmpty
  BY <1>2 DEF EndedEmpty, Off
<1>4. ASSUME NEW t \in Tasks
      PROVE  Steady(t)
  <2>1. /\ \A m \in pel : m[1] # t
        /\ t \notin retry
        /\ \A b \in Loops : ~Serves(b, t) /\ ~Moves(b, t) /\ \A m \in loop[b].batch : m[1] # t
        /\ \A m \in Messages : Queued(m) => m[1] # t
    BY <1>1, <1>2, NothingYet
  <2>2. ~InStream(t) /\ ~InPel(t)
    BY <2>1 DEF Init, InStream, InPel
  <2>3. Apart(t) /\ ServersCurrent(t)
    BY <2>1, <2>2 DEF Apart, OneToken, OneServer, BatchesApart, ServersCurrent
  <2> QED
    BY <1>2, <2>3 DEF Steady, Paid
<1> QED
  BY <1>3, <1>4 DEF SteadyInv

LEMMA SteadyGuards ==
    ASSUME CoreInv, NoSlow => SteadyInv
    PROVE  ExecutionsGuarded
<1>1. OneLoopATime
  <2> SUFFICES ASSUME NoSlow, NEW a \in Loops, NEW b \in Loops, a # b,
                      At(a, "execute"), At(b, "execute"), loop[a].task = loop[b].task
               PROVE  FALSE
    BY DEF OneLoopATime, NoSlow
  <2>1. loop[a].pc \in InService /\ loop[b].pc \in InService
    BY DEF At, InService, Finishing
  <2>2. PICK t \in Tasks : t = loop[a].task
    BY <2>1 DEF CoreInv, HandsFull, Hand
  <2>3. Serves(a, t) /\ Serves(b, t)
    BY <2>1, <2>2 DEF Serves
  <2> QED
    BY <2>3 DEF SteadyInv, Steady, Apart, OneServer
<1>2. ExecutionsPerFault
  <2> SUFFICES ASSUME NoSlow, NEW t \in Tasks
               PROVE  runs[t] <= MaxAttempts + FaultCount
    BY DEF ExecutionsPerFault, NoSlow
  <2>1. Paid(t) /\ FaultCount \in Nat /\ MaxAttempts \in Nat /\ runs[t] \in Nat
    BY FaultCountType, OperationalAssumption DEF SteadyInv, Steady, CoreInv, TypeOK
  <2>2. CASE task[t] = None
    BY <2>1, <2>2 DEF Paid
  <2>3. CASE task[t] # None
    <3>1. task[t].attempts \in Nat
      BY <2>3 DEF CoreInv, TypeOK, TaskDoc
    <3> QED
      BY <2>1, <2>3, <3>1 DEF Paid
  <2> QED
    BY <2>2, <2>3
<1> QED
  BY <1>1, <1>2 DEF ExecutionsGuarded

\* Whatever processes end and whatever commands fail, as long as no execution
\* outlives the idle time a task is executed by one loop at a time and at most
\* max_attempts times, and once more with each fault (operational_queue.py
\* dequeue, fail, the recovery worker).
THEOREM ExecutionsAreGuarded == Spec => []ExecutionsGuarded
<1>1. Init => CoreInv /\ (NoSlow => SteadyInv)
  BY InitCore, InitSteady
<1>2. (CoreInv /\ (NoSlow => SteadyInv)) /\ [Next]_vars => (CoreInv /\ (NoSlow => SteadyInv))'
  <2> SUFFICES ASSUME CoreInv, NoSlow => SteadyInv, [Next]_vars
               PROVE  CoreInv' /\ (NoSlow' => SteadyInv')
    OBVIOUS
  <2>1. CoreInv'
    BY CoreStep
  <2>2. NoSlow' => NoSlow
    BY FaultsGrow DEF NoSlow, Unmet, CoreInv, FaultKinds
  <2> QED
    BY <2>1, <2>2, SteadyStep
<1>3. CoreInv /\ (NoSlow => SteadyInv) => ExecutionsGuarded
  BY SteadyGuards
<1> QED
  BY <1>1, <1>2, <1>3, PTL DEF Spec

-----------------------------------------------------------------------------
(***************************************************************************)
(* Without errors, a finished task is quiet.                               *)
(***************************************************************************)
LEMMA QuietStays ==
    ASSUME NEW t \in Tasks, Quiet(t), task'[t] = task[t], dlq'[t] = dlq[t],
           Alive(t)' => Alive(t),
           \A b \in Loops : Serves(b, t)' =>
               \/ loop'[b].msg \in pel'
               \/ Serves(b, t) /\ loop'[b].msg = loop[b].msg /\ (loop[b].msg \in pel => loop[b].msg \in pel')
    PROVE  Quiet(t)'
<1>1. \A b \in Loops : Serves(b, t)' => loop'[b].msg \in pel'
  BY DEF Quiet
<1>2. /\ Finished(t)' = Finished(t) /\ Dead(t)' = Dead(t)
  BY DEF Finished, Dead
<1> QED
  BY <1>1, <1>2 DEF Quiet

LEMMA StillAlive ==
    ASSUME UNCHANGED <<stream, pel, retry>>, NEW t,
           \A b \in Loops : Moves(b, t)' => Moves(b, t), Alive(t)'
    PROVE  Alive(t)
<1>1. Moving(t)' => Moving(t)
  BY DEF Moving, Moves, At
<1> QED
  BY <1>1 DEF Alive, InStream, InPel

\* A task that a loop serves is not finished, and its message is pending.
LEMMA ServedIsOpen ==
    ASSUME CoreInv, NEW a \in Loops, NEW t \in Tasks, Serves(a, t), Quiet(t)
    PROVE  ~Finished(t) /\ ~Dead(t) /\ dlq[t] = 0 /\ loop[a].msg \in pel
<1>1. loop[a].msg \in pel /\ loop[a].msg[1] = t
  BY DEF CoreInv, HandsFull, Hand, Serves, Quiet
<1>2. ~Finished(t)
  BY <1>1 DEF Quiet, Alive, InPel
<1>3. ~Dead(t)
  BY <1>2 DEF Finished, Dead, Terminal
<1> QED
  BY <1>1, <1>2, <1>3 DEF Quiet

\* Steps that leave the documents and the messages alone.
LEMMA PlainQuiet ==
    ASSUME CoreInv, CleanInv, UNCHANGED <<task, dlq, stream, pel, retry>>,
           \A b \in Loops : \A t \in Tasks :
               /\ Moves(b, t)' => Moves(b, t)
               /\ Serves(b, t)' => \/ loop'[b].msg \in pel
                                   \/ Serves(b, t) /\ loop'[b].msg = loop[b].msg
    PROVE  CleanInv'
<1> SUFFICES ASSUME NEW t \in Tasks
             PROVE  Quiet(t)'
  BY DEF CleanInv
<1>1. Quiet(t)
  BY DEF CleanInv
<1>2. Alive(t)' => Alive(t)
  BY StillAlive
<1> QED
  BY <1>1, <1>2, QuietStays

LEMMA TurnQuiet ==
    ASSUME CoreInv, CleanInv, NEW a \in Loops, NEW x, NEW y, Turns(a, x, y),
           UNCHANGED <<task, dlq, stream, pel, retry>>, y.pc # "promoting",
           y.pc \in InService =>
               \/ y.msg \in pel
               \/ x.pc \in InService /\ y.task = x.task /\ y.msg = x.msg
    PROVE  CleanInv'
<1>1. \A b \in Loops : loop'[b] = IF b = a THEN y ELSE loop[b]
  BY TurnsLoop DEF CoreInv
<1>2. x = loop[a]
  BY DEF Turns
<1>3. \A b \in Loops : \A t \in Tasks :
               /\ Moves(b, t)' => Moves(b, t)
               /\ Serves(b, t)' => \/ loop'[b].msg \in pel
                                   \/ Serves(b, t) /\ loop'[b].msg = loop[b].msg
  BY <1>1, <1>2 DEF Moves, Serves
<1> QED
  BY <1>3, PlainQuiet

LEMMA LoopQuiet ==
    ASSUME CoreInv, SteadyInv, CleanInv, NEW a \in Loops,
           \/ Execute(a) \/ GetTask(a) \/ DequeueGet(a) \/ MessageId(a) \/ Xautoclaim(a)
           \/ \E m \in loop[a].batch : ClaimedNext(a, m)
    PROVE  CleanInv'
<1>1. UNCHANGED <<task, dlq, stream, pel, retry>>
  BY DEF Execute, GetTask, DequeueGet, MessageId, Xautoclaim, ClaimedNext, redis
<1>2. PICK x, y : /\ Turns(a, x, y) /\ y.pc # "promoting"
                  /\ y.pc \in InService =>
                       \/ y.msg \in pel
                       \/ x.pc \in InService /\ y.task = x.task /\ y.msg = x.msg
  <2> USE DEF Fields, InService, Reading, Finishing
  <2>1. CASE Execute(a)
    BY <2>1, ExecuteEffect DEF CoreInv
  <2>2. CASE GetTask(a)
    BY <2>2, TaskEffect DEF CoreInv
  <2>3. CASE DequeueGet(a)
    BY <2>3, GetEffect DEF CoreInv
  <2>4. CASE MessageId(a)
    BY <2>4, IdEffect DEF CoreInv
  <2>5. CASE Xautoclaim(a)
    BY <2>5, AutoclaimEffect DEF CoreInv
  <2>6. ASSUME NEW m \in loop[a].batch, ClaimedNext(a, m)
        PROVE  \E x, y : Turns(a, x, y) /\ y.pc # "promoting" /\ y.msg \in pel
    <3>1. m \in Messages
      BY DEF CoreInv, TypeOK, LoopState
    <3>2. PICK t \in Tasks : m[1] = t
      BY <3>1 DEF Messages
    <3>3. m \in pel
      BY <3>2 DEF SteadyInv, Steady, Apart, BatchesApart
    <3> QED
      BY <2>6, <3>1, <3>3, NextEffect DEF CoreInv
  <2> QED
    BY <2>1, <2>2, <2>3, <2>4, <2>5, <2>6
<1> QED
  BY <1>1, <1>2, TurnQuiet

LEMMA MarkQuiet ==
    ASSUME CoreInv, SteadyInv, CleanInv, NEW a \in Loops, DequeueMark(a)
    PROVE  CleanInv'
<1>1. PICK x, y : /\ Turns(a, x, y) /\ x.pc = "begin"
                  /\ Fields(y, "execute", x.task, None, x.msg, x.found, x.batch)
  BY MarkEffect DEF CoreInv
<1>2. /\ x = loop[a] /\ x.pc \in InService /\ y.pc = "execute" /\ y.msg = x.msg /\ y.task = x.task
  BY <1>1 DEF Fields, InService, Reading, Turns
<1>3. PICK t \in Tasks, d \in TaskDoc :
              /\ x.task = t /\ task[t] = d /\ Current(x, pel, processing[t], d)
  BY <1>2, ServeLook
<1>4. PICK e \in TaskDoc : e = Began(d) /\ e.status = "running"
  BY BeganDoc
<1>5. x.copy = e
  BY <1>1, <1>3, <1>4 DEF Current
<1>6. task' = [task EXCEPT ![t] = e] /\ UNCHANGED <<stream, pel, retry, dlq>>
  BY <1>2, <1>3, <1>5 DEF DequeueMark, past
<1>7. task'[t] = e /\ \A u \in Tasks : u # t => task'[u] = task[u]
  BY <1>6 DEF CoreInv, TypeOK
<1>8. \A b \in Loops : loop'[b] = IF b = a THEN y ELSE loop[b]
  BY <1>1, TurnsLoop DEF CoreInv
<1>9. \A b \in Loops : \A u : /\ Serves(b, u)' => Serves(b, u) /\ loop'[b].msg = loop[b].msg
                              /\ Moves(b, u)' => Moves(b, u)
  BY <1>2, <1>8 DEF Serves, Moves, InService, Finishing
<1>10. ASSUME NEW u \in Tasks, u # t
       PROVE  Quiet(u)'
  <2>1. Alive(u)' => Alive(u)
    BY <1>6, <1>9, StillAlive
  <2> QED
    BY <1>6, <1>7, <1>9, <1>10, <2>1, QuietStays DEF CleanInv
<1>11. Quiet(t)'
  <2>1. Serves(a, t) /\ Quiet(t)
    BY <1>2, <1>3 DEF Serves, CleanInv
  <2>2. dlq'[t] = 0
    BY <1>6, <2>1, ServedIsOpen
  <2>3. ~Finished(t)' /\ ~Dead(t)'
    BY <1>4, <1>7 DEF Finished, Dead, Terminal
  <2>4. \A b \in Loops : Serves(b, t)' => loop'[b].msg \in pel'
    BY <1>6, <1>9, <2>1 DEF Quiet
  <2> QED
    BY <2>2, <2>3, <2>4 DEF Quiet
<1> QED
  BY <1>10, <1>11 DEF CleanInv

\* The token of a task moves on.
LEMMA PassQuiet ==
    ASSUME CoreInv, CoreInv', CleanInv, NEW a \in Loops,
           PromoteXadd(a) \/ Xreadgroup(a) \/ \E t \in Tasks : PromoteZrem(a, t)
    PROVE  CleanInv'
<1>1. CASE PromoteXadd(a)
  <2>1. PICK x, y : /\ Turns(a, x, y) /\ x.pc = "promoting"
                    /\ Fields(y, IF x.batch # {} THEN "claimed" ELSE "idle",
                              None, None, None, None, x.batch)
    BY <1>1, PromoteEffect DEF CoreInv
  <2>2. x = loop[a] /\ x.task \in Tasks
    BY <2>1 DEF Turns, CoreInv, HandsFull, Hand
  <2>3. PICK t \in Tasks : t = x.task
    BY <2>2
  <2>4. UNCHANGED <<task, pel, retry, dlq>> /\ Xadd(t)
    BY <1>1, <2>2, <2>3 DEF PromoteXadd
  <2>5. \A b \in Loops : loop'[b] = IF b = a THEN y ELSE loop[b]
    BY <2>1, TurnsLoop DEF CoreInv
  <2>6. y.pc \in {"claimed", "idle"}
    BY <2>1 DEF Fields
  <2>7. \A b \in Loops : \A u : /\ Serves(b, u)' => Serves(b, u) /\ loop'[b].msg = loop[b].msg
                                /\ Moves(b, u)' => Moves(b, u)
    BY <2>5, <2>6 DEF Serves, Moves, InService, Reading, Finishing
  <2>8. ASSUME NEW u \in Tasks
        PROVE  Quiet(u)'
    <3>1. InStream(u)' => InStream(u) \/ Moving(u)
      BY <2>1, <2>2, <2>3, <2>4, AddedStays DEF CoreInv, Moving, At
    <3>2. Moving(u)' => Moving(u)
      BY <2>7 DEF Moving, Moves, At
    <3>3. Alive(u)' => Alive(u)
      BY <2>4, <3>1, <3>2 DEF Alive, InPel
    <3> QED
      BY <2>4, <2>7, <3>3, QuietStays DEF CleanInv
  <2> QED
    BY <2>8 DEF CleanInv
<1>2. CASE Xreadgroup(a)
  <2>1. PICK x, y, m : /\ Turns(a, x, y) /\ x.pc = "idle"
                       /\ m \in Messages /\ m = Head(stream)
                       /\ Fields(y, "read", m[1], x.copy, m, x.found, x.batch)
    BY <1>2, ReadEffect DEF CoreInv
  <2>2. /\ stream # <<>> /\ stream' = Tail(stream) /\ pel' = pel \cup {m}
        /\ UNCHANGED <<task, retry, dlq>>
    BY <1>2, <2>1 DEF Xreadgroup
  <2>3. Queued(m) /\ \A n \in Messages : Queued(n)' => Queued(n)
    BY <2>1, <2>2, HeadGone DEF CoreInv
  <2>4. \A b \in Loops : loop'[b] = IF b = a THEN y ELSE loop[b]
    BY <2>1, TurnsLoop DEF CoreInv
  <2>5. y.pc = "read" /\ y.msg = m
    BY <2>1 DEF Fields
  <2>6. \A b \in Loops : \A u : /\ Serves(b, u)' => \/ loop'[b].msg \in pel'
                                                    \/ Serves(b, u) /\ loop'[b].msg = loop[b].msg
                                /\ Moves(b, u)' => Moves(b, u)
    BY <2>2, <2>4, <2>5 DEF Serves, Moves
  <2>7. ASSUME NEW u \in Tasks
        PROVE  Quiet(u)'
    <3>1. InStream(u)' => InStream(u)
      BY <2>3, StreamOfTask DEF CoreInv
    <3>2. InPel(u)' => InPel(u) \/ InStream(u)
      BY <2>1, <2>2, <2>3, StreamOfTask DEF CoreInv, InPel
    <3>3. Moving(u)' => Moving(u)
      BY <2>6 DEF Moving, Moves, At
    <3>4. Alive(u)' => Alive(u)
      BY <2>2, <3>1, <3>2, <3>3 DEF Alive
    <3> QED
      BY <2>2, <2>6, <3>4, QuietStays DEF CleanInv
  <2> QED
    BY <2>7 DEF CleanInv
<1>3. ASSUME NEW t \in Tasks, PromoteZrem(a, t)
      PROVE  CleanInv'
  <2>1. PICK x, y : /\ Turns(a, x, y) /\ x.pc = "idle"
                    /\ Fields(y, "promoting", t, x.copy, x.msg, x.found, x.batch)
    BY <1>3, ZremEffect DEF CoreInv
  <2>2. UNCHANGED <<task, stream, pel, dlq>> /\ t \in retry /\ retry' = retry \ {t}
    BY <1>3 DEF PromoteZrem, past
  <2>3. \A b \in Loops : loop'[b] = IF b = a THEN y ELSE loop[b]
    BY <2>1, TurnsLoop DEF CoreInv
  <2>4. y.pc = "promoting" /\ y.task = t
    BY <2>1 DEF Fields
  <2>5. \A b \in Loops : \A u : /\ Serves(b, u)' => Serves(b, u) /\ loop'[b].msg = loop[b].msg
                                /\ Moves(b, u)' => Moves(b, u) \/ u = t
    BY <2>3, <2>4 DEF Serves, Moves, InService, Reading, Finishing
  <2>6. ASSUME NEW u \in Tasks
        PROVE  Quiet(u)'
    <3>1. Moving(u)' => Moving(u) \/ u = t
      BY <2>5 DEF Moving, Moves, At
    <3>2. Alive(u)' => Alive(u)
      BY <2>2, <3>1 DEF Alive, InStream, InPel
    <3> QED
      BY <2>2, <2>5, <3>2, QuietStays DEF CleanInv
  <2> QED
    BY <2>6 DEF CleanInv
<1> QED
  BY <1>1, <1>2, <1>3

LEMMA EndQuiet ==
    ASSUME CoreInv, CoreInv', SteadyInv, CleanInv, NEW a \in Loops, NEW x, NEW y, Turns(a, x, y),
           x.pc = "commit", NEW s \in Status, Commits(x, s),
           Fields(y, IF x.batch # {} THEN "claimed" ELSE "idle",
                  None, None, None, None, x.batch),
           UNCHANGED stream, retry \subseteq retry', retry' \subseteq retry \cup {x.task},
           s \in Terminal => x.task \notin retry',
           dlq' = IF s = "dead_letter" THEN DlqAdd(x.task) ELSE dlq
    PROVE  CleanInv'
<1>1. x = loop[a] /\ x.pc \in InService
  BY DEF Turns, InService, Finishing
<1>2. PICK t \in Tasks, d \in TaskDoc, e \in TaskDoc :
              /\ x.task = t /\ task[t] = d /\ Apart(t)
              /\ e.status = s /\ task'[t] = e
              /\ \A u \in Tasks : u # t => processing'[u] = processing[u] /\ task'[u] = task[u]
              /\ pel' \subseteq pel /\ \A m \in pel : m[1] # t => m \in pel'
              /\ \A m \in pel' : m[1] # t
  BY <1>1, CommitLook
<1>3. \A b \in Loops : loop'[b] = IF b = a THEN y ELSE loop[b]
  BY TurnsLoop DEF CoreInv
<1>4. y.pc \in {"claimed", "idle"}
  BY DEF Fields
<1>5. Serves(a, t) /\ Quiet(t)
  BY <1>1, <1>2 DEF Serves, CleanInv
<1>6. ~Finished(t) /\ ~Dead(t) /\ dlq[t] = 0
  BY <1>5, ServedIsOpen
<1>7. /\ \A b \in Loops : Serves(b, t) => b = a
      /\ ~InStream(t) /\ t \notin retry /\ ~Moving(t)
  BY <1>2, <1>5 DEF Apart, OneServer
<1>8. \A b \in Loops : \A u : /\ Serves(b, u)' => b # a /\ Serves(b, u) /\ loop'[b].msg = loop[b].msg
                              /\ Moves(b, u)' => Moves(b, u)
  BY <1>3, <1>4 DEF Serves, Moves, InService, Reading, Finishing
<1>9. dlq \in [Tasks -> Nat]
  BY DEF CoreInv, TypeOK
<1>10. ASSUME NEW u \in Tasks, u # t
       PROVE  Quiet(u)'
  <2>1. Moving(u)' => Moving(u)
    BY <1>8 DEF Moving, Moves, At
  <2>2. Alive(u)' => Alive(u)
    BY <1>2, <1>10, <2>1 DEF Alive, InStream, InPel
  <2>3. dlq'[u] = dlq[u]
    BY <1>2, <1>9, <1>10 DEF DlqAdd
  <2>4. ASSUME NEW b \in Loops, Serves(b, u)'
        PROVE  Serves(b, u) /\ loop'[b].msg = loop[b].msg /\ (loop[b].msg \in pel => loop[b].msg \in pel')
    <3>1. Serves(b, u) /\ loop'[b].msg = loop[b].msg
      BY <1>8, <2>4
    <3>2. loop[b].msg[1] = u
      BY <3>1 DEF CoreInv, HandsFull, Hand, Serves
    <3> QED
      BY <1>2, <1>10, <3>1, <3>2
  <2>5. Quiet(u) /\ task'[u] = task[u]
    BY <1>2, <1>10 DEF CleanInv
  <2> QED
    BY <2>2, <2>3, <2>4, <2>5, QuietStays
<1>11. Quiet(t)'
  <2>1. \A b \in Loops : ~Serves(b, t)'
    BY <1>7, <1>8
  <2>2. ~InStream(t)' /\ ~InPel(t)' /\ ~Moving(t)'
    BY <1>2, <1>7, <1>8 DEF InStream, InPel, Moving, Moves, At
  <2>3. s \in Terminal => ~Alive(t)'
    BY <1>2, <2>2 DEF Alive
  <2>4. e # None
    BY NoneIsNoDoc
  <2>5. Finished(t)' <=> s \in Terminal
    BY <1>2, <2>4 DEF Finished
  <2>6. Dead(t)' <=> s = "dead_letter"
    BY <1>2, <2>4 DEF Dead
  <2>7. dlq'[t] = IF s = "dead_letter" THEN 1 ELSE 0
    <3>1. CASE s = "dead_letter"
      <4>1. dlq' = [dlq EXCEPT ![t] = IF dlq[t] < 2 THEN dlq[t] + 1 ELSE dlq[t]]
        BY <1>2, <3>1 DEF DlqAdd
      <4>2. dlq'[t] = 1
        BY <1>6, <1>9, <4>1
      <4> QED
        BY <3>1, <4>2
    <3>2. CASE s # "dead_letter"
      BY <1>6, <3>2
    <3> QED
      BY <3>1, <3>2
  <2> QED
    BY <2>1, <2>3, <2>5, <2>6, <2>7 DEF Quiet
<1> QED
  BY <1>10, <1>11 DEF CleanInv

LEMMA CommitQuiet ==
    ASSUME CoreInv, CoreInv', SteadyInv, CleanInv, NEW a \in Loops, Complete(a) \/ Fail(a)
    PROVE  CleanInv'
<1>1. CASE Complete(a)
  <2>1. PICK x, y : /\ Turns(a, x, y) /\ x.pc = "commit"
                    /\ Fields(y, IF x.batch # {} THEN "claimed" ELSE "idle",
                              None, None, None, None, x.batch)
    BY <1>1, CompleteEffect DEF CoreInv
  <2>2. Commits(x, "completed") /\ "completed" \in Status /\ x = loop[a] /\ x.pc \in InService
    BY <1>1, <2>1 DEF Turns, Complete, Commits, Acknowledge, Status, InService, Finishing
  <2>3. UNCHANGED <<stream, dlq, retry>>
    BY <1>1 DEF Complete
  <2>4. x.task \notin retry
    BY <2>2, ServeLook DEF OneServer, Serves
  <2> QED
    BY <2>1, <2>2, <2>3, <2>4, EndQuiet
<1>2. CASE Fail(a)
  <2>1. PICK x, y : /\ Turns(a, x, y) /\ x.pc = "commit"
                    /\ Fields(y, IF x.batch # {} THEN "claimed" ELSE "idle",
                              None, None, None, None, x.batch)
    BY <1>2, FailEffect DEF CoreInv
  <2>2. x = loop[a] /\ x.pc \in InService
    BY <2>1 DEF Turns, InService, Finishing
  <2>3. PICK s \in Status : s = IF x.copy.attempts >= MaxAttempts THEN "dead_letter" ELSE "pending"
    BY DEF Status
  <2>4. Commits(x, s)
    BY <1>2, <2>2, <2>3 DEF Fail, Commits, Acknowledge
  <2>5. x.task \notin retry
    BY <2>2, ServeLook DEF OneServer, Serves
  <2>6. /\ UNCHANGED stream
        /\ retry' = IF s = "dead_letter" THEN retry ELSE retry \cup {x.task}
        /\ dlq' = IF s = "dead_letter" THEN DlqAdd(x.task) ELSE dlq
    BY <1>2, <2>2, <2>3 DEF Fail
  <2>7. s \in Terminal => s = "dead_letter"
    BY <2>3 DEF Terminal
  <2> QED
    BY <2>1, <2>4, <2>5, <2>6, <2>7, EndQuiet
<1> QED
  BY <1>1, <1>2

LEMMA ProcessQuiet ==
    ASSUME CoreInv, CleanInv, NEW p \in Runtimes, Start(p) \/ Crash(p)
    PROVE  CleanInv'
<1>1. /\ \A b \in Loops : loop'[b] = loop[b] \/ Empty(loop'[b])
      /\ UNCHANGED <<task, dlq, stream, pel, retry>>
  BY ProcessLoops DEF redis
<1>2. \A b \in Loops : Empty(loop'[b]) => loop'[b].pc \notin InService \cup {"promoting"}
  BY EmptyHand
<1>3. \A b \in Loops : \A t \in Tasks :
               /\ Moves(b, t)' => Moves(b, t)
               /\ Serves(b, t)' => Serves(b, t) /\ loop'[b].msg = loop[b].msg
  BY <1>1, <1>2 DEF Serves, Moves
<1> QED
  BY <1>1, <1>3, PlainQuiet

LEMMA ApiQuiet ==
    ASSUME CoreInv, CoreInv', CleanInv, NEW h \in Handlers,
           \/ ApiStep(h) \/ ApiCrash(h)
           \/ \E t \in Tasks, r \in Requests : Enqueue(h, t, r[1], r[2])
    PROVE  CleanInv'
<1>1. CASE EnqueueCreate(h)
  <2>1. PICK t \in Tasks, i \in Intents :
             /\ task[t] = None /\ task'[t] = New(i)
             /\ \A u \in Tasks : u # t => task'[u] = task[u]
             /\ Xadd(t)
    BY <1>1, CreateEffect
  <2>2. UNCHANGED <<pel, retry, loop, dlq>>
    BY <1>1 DEF EnqueueCreate
  <2>3. ASSUME NEW u \in Tasks, u # t
        PROVE  Quiet(u)'
    <3>1. InStream(u)' => InStream(u)
      BY <2>1, <2>3, AddedStays DEF CoreInv
    <3>2. Alive(u)' => Alive(u)
      BY <2>2, <3>1 DEF Alive, InPel, Moving, At
    <3>3. \A b \in Loops : Serves(b, u)' =>
               Serves(b, u) /\ loop'[b].msg = loop[b].msg /\ (loop[b].msg \in pel => loop[b].msg \in pel')
      BY <2>2 DEF Serves
    <3>4. Quiet(u) /\ task'[u] = task[u] /\ dlq'[u] = dlq[u]
      BY <2>1, <2>2, <2>3 DEF CleanInv
    <3> QED
      BY <3>2, <3>3, <3>4, QuietStays
  <2>4. Quiet(t)'
    <3>1. ~Finished(t)' /\ ~Dead(t)'
      BY <2>1, NewDoc DEF Finished, Dead, Terminal
    <3>2. dlq'[t] = 0
      BY <2>1, <2>2 DEF CleanInv, Quiet, Dead
    <3>3. \A b \in Loops : ~Serves(b, t)'
      BY <2>1, <2>2, NothingYet DEF Serves
    <3> QED
      BY <3>1, <3>2, <3>3 DEF Quiet
  <2> QED
    BY <2>3, <2>4 DEF CleanInv
<1>2. CASE ~EnqueueCreate(h)
  <2>1. UNCHANGED <<task, stream, pel, retry, loop, dlq>>
    BY <1>2 DEF ApiStep, EnqueueExisting, ApiCrash, Enqueue, redis, past
  <2> QED
    BY <2>1, PlainQuiet DEF Serves, Moves
<1> QED
  BY <1>1, <1>2

LEMMA CleanStep ==
    ASSUME CoreInv, CoreInv', SteadyInv, CleanInv, [Next]_vars, NoError'
    PROVE  CleanInv'
<1>1. ~Fault("slow") /\ ~Fault("error")
  BY FaultsGrow DEF NoError, Unmet, CoreInv, FaultKinds
<1>2. CASE UNCHANGED vars
  <2>1. UNCHANGED <<task, stream, pel, retry, loop, dlq>>
    BY <1>2 DEF vars, redis
  <2> QED
    BY <2>1, PlainQuiet DEF Serves, Moves
<1>3. ASSUME NEW h \in Handlers,
             \/ ApiStep(h) \/ ApiCrash(h)
             \/ \E t \in Tasks, r \in Requests : Enqueue(h, t, r[1], r[2])
      PROVE  CleanInv'
  BY <1>3, ApiQuiet
<1>4. ASSUME NEW p \in Runtimes, Start(p) \/ Crash(p)
      PROVE  CleanInv'
  BY <1>4, ProcessQuiet
<1>5. ASSUME NEW a \in Loops,
             \/ Work(a) \/ CommandError(a) \/ ReplyLost(a)
             \/ \E t \in Tasks : PromoteZrem(a, t)
             \/ \E m \in pel : ClaimSlow(a, m)
      PROVE  CleanInv'
  <2>1. ~CommandError(a) /\ ~ReplyLost(a) /\ \A m : ~ClaimSlow(a, m)
    BY <1>1 DEF ClaimSlow, CommandError, ReplyLost
  <2> QED
    BY <1>5, <2>1, LoopQuiet, MarkQuiet, PassQuiet, CommitQuiet DEF Work
<1> QED
  BY <1>2, <1>3, <1>4, <1>5 DEF Next

LEMMA InitClean ==
    ASSUME Init
    PROVE  CleanInv
<1>1. /\ task = [t \in Tasks |-> None] /\ dlq = [t \in Tasks |-> 0]
      /\ \A a \in Loops : loop[a] = Off
  BY DEF Init
<1>2. \A a \in Loops : \A t : ~Serves(a, t)
  BY <1>1 DEF Serves, Off, InService, Reading, Finishing
<1> QED
  BY <1>1, <1>2 DEF CleanInv, Quiet, Finished, Dead

\* The layers of the invariant that need no assumption on the faults, none of
\* an execution that outlives the idle time, and no error.
LayeredInv == CoreInv /\ (NoSlow => SteadyInv) /\ (NoError => CleanInv)

LEMMA LayeredStep ==
    ASSUME LayeredInv, [Next]_vars
    PROVE  LayeredInv'
<1>1. CoreInv'
  BY CoreStep DEF LayeredInv
<1>2. /\ NoSlow' => NoSlow
      /\ NoError' => NoError
  BY FaultsGrow DEF NoSlow, NoError, Unmet, LayeredInv, CoreInv, FaultKinds
<1>3. NoSlow' => SteadyInv'
  BY <1>1, <1>2, SteadyStep DEF LayeredInv
<1>4. NoError' => CleanInv'
  <2>1. NoError => NoSlow
    BY DEF NoSlow, NoError, Unmet
  <2> QED
    BY <1>1, <1>2, <2>1, CleanStep DEF LayeredInv
<1> QED
  BY <1>1, <1>3, <1>4 DEF LayeredInv

LEMMA InitLayered ==
    ASSUME Init
    PROVE  LayeredInv
BY InitCore, InitSteady, InitClean DEF LayeredInv

\* Although processes end anywhere, a finished task leaves nothing behind that
\* would deliver it again and is in the dead-letter stream once if it is dead,
\* as long as no command fails and no execution outlives the idle time
\* (operational_queue.py complete, fail).
THEOREM TerminalStaysQuiet == Spec => []TerminalIsQuiet
<1>1. LayeredInv => TerminalIsQuiet
  <2> SUFFICES ASSUME LayeredInv
               PROVE  TerminalIsQuiet
    OBVIOUS
  <2>1. LeavesNothing
    BY DEF LayeredInv, NoError, CleanInv, Quiet, Finished, LeavesNothing
  <2>2. DeadLetterOnce
    BY DEF LayeredInv, NoError, CleanInv, Quiet, Dead, DeadLetterOnce
  <2> QED
    BY <2>1, <2>2 DEF TerminalIsQuiet
<1>2. Init => LayeredInv
  BY InitLayered
<1>3. LayeredInv /\ [Next]_vars => LayeredInv'
  BY LayeredStep
<1> QED
  BY <1>1, <1>2, <1>3, PTL DEF Spec

-----------------------------------------------------------------------------
(***************************************************************************)
(* Without any fault, the durable provider cannot be told from the one in  *)
(* memory.                                                                 *)
(***************************************************************************)

\* The loops that serve the task, and what they have, stay as they are.
SameService(t) ==
    \A b \in Loops :
        /\ Serves(b, t)' <=> Serves(b, t)
        /\ Serves(b, t) => /\ loop'[b].msg = loop[b].msg
                           /\ loop'[b].pc \in Reading <=> loop[b].pc \in Reading

LEMMA UntouchedStays ==
    ASSUME NEW t \in Tasks, Untouched(t), task'[t] = task[t], SameService(t),
           \A m \in pel' : m[1] = t => m \in pel,
           \A b \in Loops : \A m \in loop'[b].batch : m[1] = t => m \in loop[b].batch,
           InStream(t)' \/ t \in retry' \/ Moving(t)' => InStream(t) \/ t \in retry \/ Moving(t)
    PROVE  Untouched(t)'
<1>1. \A m \in pel' : m[1] = t => \E a \in Loops : Serves(a, t)' /\ loop'[a].msg = m
  BY DEF Untouched, SameService
<1>2. \A a \in Loops : \A m \in loop'[a].batch : m[1] # t
  BY DEF Untouched
<1>3. \A a \in Loops : Serves(a, t)' =>
         task'[t].status = IF loop'[a].pc \in Reading THEN "pending" ELSE "running"
  BY DEF Untouched, SameService
<1>4. InStream(t)' \/ t \in retry' \/ Moving(t)' => task'[t].status = "pending"
  BY DEF Untouched
<1> QED
  BY <1>1, <1>2, <1>3, <1>4 DEF Untouched

AllUntouched == \A t \in Tasks : Untouched(t)

\* Nothing is claimed: each pending message is in somebody's hands.
LEMMA NothingClaimed ==
    ASSUME CoreInv, AllUntouched, NEW a \in Loops
    PROVE  ~Xautoclaim(a) /\ loop[a].batch = {}
<1>1. \A m \in Messages : m[1] \in Tasks
  BY DEF Messages
<1>2. loop[a].batch \subseteq Messages /\ pel \subseteq Messages
  BY DEF CoreInv, TypeOK, LoopState
<1>3. loop[a].batch = {}
  BY <1>1, <1>2 DEF AllUntouched, Untouched
<1>4. ASSUME NEW m \in Idle
      PROVE  FALSE
  <2>1. m \in pel /\ ~Held(m) /\ m[1] \in Tasks
    BY <1>1, <1>2, <1>4 DEF Idle
  <2>2. PICK b \in Loops : Serves(b, m[1]) /\ loop[b].msg = m
    BY <2>1 DEF AllUntouched, Untouched
  <2>3. loop[b].pc \notin {"off", "dead"}
    BY <2>2 DEF Serves, InService, Reading, Finishing
  <2> QED
    BY <2>1, <2>2, <2>3 DEF Held
<1>5. ~Xautoclaim(a)
  BY <1>4 DEF Xautoclaim
<1> QED
  BY <1>3, <1>5

\* The loop stays with its task, or has none.
LEMMA TurnUntouched ==
    ASSUME CoreInv, AllUntouched, NEW a \in Loops, NEW x, NEW y, Turns(a, x, y),
           UNCHANGED <<task, stream, pel, retry>>, y.batch = x.batch,
           x.pc \in InService, y.pc \in InService, y.task = x.task, y.msg = x.msg,
           y.pc \in Reading <=> x.pc \in Reading
    PROVE  AllUntouched'
<1>1. \A b \in Loops : loop'[b] = IF b = a THEN y ELSE loop[b]
  BY TurnsLoop DEF CoreInv
<1>2. x = loop[a] /\ x.pc # "promoting" /\ y.pc # "promoting"
  BY DEF Turns, InService, Reading, Finishing
<1>3. ASSUME NEW t \in Tasks
      PROVE  Untouched(t)'
  <2>1. SameService(t)
    BY <1>1, <1>2 DEF SameService, Serves
  <2>2. Moving(t)' => Moving(t)
    BY <1>1, <1>2 DEF Moving, At
  <2>3. InStream(t)' \/ t \in retry' \/ Moving(t)' => InStream(t) \/ t \in retry \/ Moving(t)
    BY <2>2 DEF InStream
  <2>4. \A b \in Loops : \A m \in loop'[b].batch : m[1] = t => m \in loop[b].batch
    BY <1>1, <1>2
  <2> QED
    BY <2>1, <2>3, <2>4, UntouchedStays DEF AllUntouched
<1> QED
  BY <1>3 DEF AllUntouched

LEMMA LookUntouched ==
    ASSUME CoreInv, AllUntouched, NEW a \in Loops,
           Execute(a) \/ GetTask(a) \/ DequeueGet(a) \/ MessageId(a)
    PROVE  AllUntouched'
<1>1. UNCHANGED <<task, stream, pel, retry>>
  BY DEF Execute, GetTask, DequeueGet, MessageId, redis
<1>2. PICK x, y : /\ Turns(a, x, y) /\ y.batch = x.batch
                  /\ x.pc \in InService /\ y.pc \in InService /\ y.task = x.task /\ y.msg = x.msg
                  /\ y.pc \in Reading <=> x.pc \in Reading
  <2> USE DEF Fields, InService, Reading, Finishing
  <2>1. CASE Execute(a)
    BY <2>1, ExecuteEffect DEF CoreInv
  <2>2. CASE GetTask(a)
    BY <2>2, TaskEffect DEF CoreInv
  <2>3. CASE DequeueGet(a)
    BY <2>3, GetEffect DEF CoreInv
  <2>4. CASE MessageId(a)
    BY <2>4, IdEffect DEF CoreInv
  <2> QED
    BY <2>1, <2>2, <2>3, <2>4
<1> QED
  BY <1>1, <1>2, TurnUntouched

LEMMA MarkUntouched ==
    ASSUME CoreInv, SteadyInv, AllUntouched, NEW a \in Loops, DequeueMark(a)
    PROVE  AllUntouched'
<1>1. PICK x, y : /\ Turns(a, x, y) /\ x.pc = "begin"
                  /\ Fields(y, "execute", x.task, None, x.msg, x.found, x.batch)
  BY MarkEffect DEF CoreInv
<1>2. /\ x = loop[a] /\ x.pc \in InService /\ y.pc \in InService /\ y.pc \notin Reading
      /\ y.msg = x.msg /\ y.task = x.task /\ y.batch = x.batch
      /\ x.pc # "promoting" /\ y.pc # "promoting"
  BY <1>1 DEF Fields, InService, Reading, Finishing, Turns
<1>3. PICK t \in Tasks, d \in TaskDoc :
              /\ x.task = t /\ task[t] = d /\ OneServer(t) /\ Current(x, pel, processing[t], d)
  BY <1>2, ServeLook
<1>4. PICK e \in TaskDoc : e = Began(d) /\ e.status = "running"
  BY BeganDoc
<1>5. x.copy = e
  BY <1>1, <1>3, <1>4 DEF Current
<1>6. task' = [task EXCEPT ![t] = e] /\ UNCHANGED <<stream, pel, retry>>
  BY <1>2, <1>3, <1>5 DEF DequeueMark
<1>7. task'[t] = e /\ \A u \in Tasks : u # t => task'[u] = task[u]
  BY <1>6 DEF CoreInv, TypeOK
<1>8. \A b \in Loops : loop'[b] = IF b = a THEN y ELSE loop[b]
  BY <1>1, TurnsLoop DEF CoreInv
<1>9. \A b \in Loops : loop'[b].batch = loop[b].batch /\ loop'[b].msg = loop[b].msg
  BY <1>2, <1>8
<1>10. \A u \in Tasks : /\ Moving(u)' <=> Moving(u)
                        /\ InStream(u)' <=> InStream(u)
                        /\ \A b \in Loops : Serves(b, u)' <=> Serves(b, u)
  BY <1>2, <1>6, <1>8 DEF Moving, At, InStream, Serves
<1>11. ASSUME NEW u \in Tasks, u # t
       PROVE  Untouched(u)'
  <2>1. SameService(u)
    BY <1>2, <1>3, <1>8, <1>10, <1>11 DEF SameService, Serves
  <2> QED
    BY <1>6, <1>7, <1>9, <1>10, <1>11, <2>1, UntouchedStays DEF AllUntouched
<1>12. Untouched(t)'
  <2>1. Serves(a, t) /\ Untouched(t)
    BY <1>2, <1>3 DEF Serves, AllUntouched
  <2>2. ~InStream(t) /\ t \notin retry /\ ~Moving(t) /\ \A b \in Loops : Serves(b, t) => b = a
    BY <1>3, <2>1 DEF OneServer
  <2>3. \A m \in pel' : m[1] = t => \E b \in Loops : Serves(b, t)' /\ loop'[b].msg = m
    BY <1>6, <1>9, <1>10, <2>1 DEF Untouched
  <2>4. \A b \in Loops : \A m \in loop'[b].batch : m[1] # t
    BY <1>9, <2>1 DEF Untouched
  <2>5. \A b \in Loops : Serves(b, t)' =>
           task'[t].status = IF loop'[b].pc \in Reading THEN "pending" ELSE "running"
    BY <1>2, <1>4, <1>7, <1>8, <1>10, <2>2
  <2>6. ~(InStream(t)' \/ t \in retry' \/ Moving(t)')
    BY <1>6, <1>10, <2>2
  <2> QED
    BY <2>3, <2>4, <2>5, <2>6 DEF Untouched
<1> QED
  BY <1>11, <1>12 DEF AllUntouched

LEMMA PromoteUntouched ==
    ASSUME CoreInv, CoreInv', AllUntouched, NEW a \in Loops,
           PromoteXadd(a) \/ \E t \in Tasks : PromoteZrem(a, t)
    PROVE  AllUntouched'
<1>1. CASE PromoteXadd(a)
  <2>1. PICK x, y : /\ Turns(a, x, y) /\ x.pc = "promoting"
                    /\ Fields(y, IF x.batch # {} THEN "claimed" ELSE "idle",
                              None, None, None, None, x.batch)
    BY <1>1, PromoteEffect DEF CoreInv
  <2>2. x = loop[a] /\ x.task \in Tasks
    BY <2>1 DEF Turns, CoreInv, HandsFull, Hand
  <2>3. PICK t \in Tasks : t = x.task
    BY <2>2
  <2>4. UNCHANGED <<task, pel, retry>> /\ Xadd(t)
    BY <1>1, <2>2, <2>3 DEF PromoteXadd
  <2>5. \A b \in Loops : loop'[b] = IF b = a THEN y ELSE loop[b]
    BY <2>1, TurnsLoop DEF CoreInv
  <2>6. y.pc \in {"claimed", "idle"} /\ y.batch = x.batch
    BY <2>1 DEF Fields
  <2>7. ASSUME NEW u \in Tasks
        PROVE  Untouched(u)'
    <3>1. InStream(u)' => InStream(u) \/ Moving(u)
      BY <2>1, <2>2, <2>3, <2>4, AddedStays DEF CoreInv, Moving, At
    <3>2. Moving(u)' => Moving(u)
      BY <2>5, <2>6 DEF Moving, At
    <3>3. SameService(u)
      BY <2>1, <2>2, <2>5, <2>6 DEF SameService, Serves, InService, Reading, Finishing
    <3>4. \A b \in Loops : \A m \in loop'[b].batch : m[1] = u => m \in loop[b].batch
      BY <2>2, <2>5, <2>6
    <3> QED
      BY <2>4, <3>1, <3>2, <3>3, <3>4, UntouchedStays DEF AllUntouched
  <2> QED
    BY <2>7 DEF AllUntouched
<1>2. ASSUME NEW t \in Tasks, PromoteZrem(a, t)
      PROVE  AllUntouched'
  <2>1. PICK x, y : /\ Turns(a, x, y) /\ x.pc = "idle"
                    /\ Fields(y, "promoting", t, x.copy, x.msg, x.found, x.batch)
    BY <1>2, ZremEffect DEF CoreInv
  <2>2. UNCHANGED <<task, stream, pel>> /\ t \in retry /\ retry' = retry \ {t} /\ x = loop[a]
    BY <1>2, <2>1 DEF PromoteZrem, Turns
  <2>3. \A b \in Loops : loop'[b] = IF b = a THEN y ELSE loop[b]
    BY <2>1, TurnsLoop DEF CoreInv
  <2>4. y.pc = "promoting" /\ y.task = t /\ y.batch = x.batch
    BY <2>1 DEF Fields
  <2>5. ASSUME NEW u \in Tasks
        PROVE  Untouched(u)'
    <3>1. Moving(u)' => Moving(u) \/ u = t
      BY <2>3, <2>4 DEF Moving, At
    <3>2. InStream(u)' \/ u \in retry' \/ Moving(u)' => InStream(u) \/ u \in retry \/ Moving(u)
      BY <2>2, <3>1 DEF InStream
    <3>3. SameService(u)
      BY <2>1, <2>2, <2>3, <2>4 DEF SameService, Serves, InService, Reading, Finishing
    <3>4. \A b \in Loops : \A m \in loop'[b].batch : m[1] = u => m \in loop[b].batch
      BY <2>2, <2>3, <2>4
    <3> QED
      BY <2>2, <3>2, <3>3, <3>4, UntouchedStays DEF AllUntouched
  <2> QED
    BY <2>5 DEF AllUntouched
<1> QED
  BY <1>1, <1>2


LEMMA ReadUntouched ==
    ASSUME CoreInv, CoreInv', SteadyInv, AllUntouched, NEW a \in Loops, Xreadgroup(a)
    PROVE  AllUntouched'
<1>1. PICK x, y, m : /\ Turns(a, x, y) /\ x.pc = "idle"
                     /\ m \in Messages /\ m = Head(stream)
                     /\ Fields(y, "read", m[1], x.copy, m, x.found, x.batch)
  BY ReadEffect DEF CoreInv
<1>2. /\ stream # <<>> /\ stream' = Tail(stream) /\ pel' = pel \cup {m}
      /\ UNCHANGED <<task, retry>>
  BY <1>1 DEF Xreadgroup
<1>3. Queued(m) /\ \A n \in Messages : Queued(n)' => Queued(n) /\ n # m
  BY <1>1, <1>2, HeadGone DEF CoreInv
<1>4. PICK t \in Tasks : m[1] = t
  BY <1>1 DEF Messages
<1>5. /\ x.pc \notin InService \cup {"promoting"} /\ y.pc = "read" /\ x = loop[a]
      /\ y.pc \in InService /\ y.pc \in Reading /\ y.pc # "promoting"
      /\ y.task = t /\ y.msg = m /\ y.batch = x.batch
  BY <1>1, <1>4 DEF Fields, Turns, InService, Reading, Finishing
<1>6. \A b \in Loops : loop'[b] = IF b = a THEN y ELSE loop[b]
  BY <1>1, TurnsLoop DEF CoreInv
<1>7. \A u \in Tasks : (InStream(u)' => InStream(u)) /\ (Moving(u)' => Moving(u))
  <2>1. \A u \in Tasks : InStream(u)' => InStream(u)
    BY <1>3, StreamOfTask DEF CoreInv
  <2>2. \A u \in Tasks : Moving(u)' => Moving(u)
    BY <1>5, <1>6 DEF Moving, At
  <2> QED
    BY <2>1, <2>2
<1>8. ASSUME NEW u \in Tasks, u # t
      PROVE  Untouched(u)'
  <2>1. SameService(u)
    BY <1>5, <1>6, <1>8 DEF SameService, Serves
  <2>2. \A n \in pel' : n[1] = u => n \in pel
    BY <1>2, <1>4, <1>8
  <2>3. \A b \in Loops : \A n \in loop'[b].batch : n[1] = u => n \in loop[b].batch
    BY <1>5, <1>6
  <2>4. InStream(u)' \/ u \in retry' \/ Moving(u)' => InStream(u) \/ u \in retry \/ Moving(u)
    BY <1>2, <1>7
  <2> QED
    BY <1>2, <2>1, <2>2, <2>3, <2>4, UntouchedStays DEF AllUntouched
<1>9. Untouched(t)'
  <2>1. Apart(t) /\ InStream(t) /\ Untouched(t)
    BY <1>1, <1>3, <1>4, StreamOfTask DEF SteadyInv, Steady, CoreInv, AllUntouched
  <2>2. Unserved(t) /\ ~InPel(t)
    BY <2>1, TokenUnserved DEF Apart, OneToken
  <2>3. task'[t].status = "pending"
    BY <1>2, <2>1 DEF Untouched
  <2>4. Serves(a, t)' /\ loop'[a].msg = m /\ \A b \in Loops : Serves(b, t)' => b = a
    BY <1>5, <1>6, <2>2 DEF Serves, Unserved
  <2>5. \A n \in pel' : n[1] = t => \E b \in Loops : Serves(b, t)' /\ loop'[b].msg = n
    BY <1>2, <2>2, <2>4 DEF InPel
  <2>6. \A b \in Loops : \A n \in loop'[b].batch : n[1] # t
    BY <1>5, <1>6, <2>2 DEF Unserved
  <2>7. \A b \in Loops : Serves(b, t)' =>
           task'[t].status = IF loop'[b].pc \in Reading THEN "pending" ELSE "running"
    BY <1>5, <1>6, <2>3, <2>4
  <2> QED
    BY <2>3, <2>5, <2>6, <2>7 DEF Untouched
<1> QED
  BY <1>8, <1>9 DEF AllUntouched

LEMMA EndUntouched ==
    ASSUME CoreInv, CoreInv', SteadyInv, AllUntouched, NEW a \in Loops, NEW x, NEW y,
           Turns(a, x, y), x.pc = "commit", NEW s \in Status, Commits(x, s),
           Fields(y, IF x.batch # {} THEN "claimed" ELSE "idle",
                  None, None, None, None, x.batch),
           UNCHANGED stream, retry' \subseteq retry \cup {x.task},
           x.task \in retry' => s = "pending"
    PROVE  AllUntouched'
<1>1. x = loop[a] /\ x.pc \in InService
  BY DEF Turns, InService, Finishing
<1>2. PICK t \in Tasks, d \in TaskDoc, e \in TaskDoc :
              /\ x.task = t /\ task[t] = d /\ Apart(t)
              /\ e.status = s /\ task'[t] = e
              /\ \A u \in Tasks : u # t => processing'[u] = processing[u] /\ task'[u] = task[u]
              /\ pel' \subseteq pel /\ \A m \in pel : m[1] # t => m \in pel'
              /\ \A m \in pel' : m[1] # t
  BY <1>1, CommitLook
<1>3. \A b \in Loops : loop'[b] = IF b = a THEN y ELSE loop[b]
  BY TurnsLoop DEF CoreInv
<1>4. y.pc \notin InService \cup {"promoting"} /\ y.batch = x.batch
  BY DEF Fields, InService, Reading, Finishing
<1>5. Serves(a, t) /\ Untouched(t)
  BY <1>1, <1>2 DEF Serves, AllUntouched
<1>6. /\ \A b \in Loops : Serves(b, t) => b = a
      /\ ~InStream(t) /\ ~Moving(t)
  BY <1>2, <1>5 DEF Apart, OneServer
<1>7. \A u \in Tasks : (InStream(u)' => InStream(u)) /\ (Moving(u)' => Moving(u))
  BY <1>3, <1>4 DEF InStream, Moving, At
<1>8. ASSUME NEW u \in Tasks, u # t
      PROVE  Untouched(u)'
  <2>1. SameService(u)
    BY <1>1, <1>2, <1>3, <1>4, <1>8 DEF SameService, Serves
  <2>2. \A n \in pel' : n[1] = u => n \in pel
    BY <1>2
  <2>3. \A b \in Loops : \A n \in loop'[b].batch : n[1] = u => n \in loop[b].batch
    BY <1>1, <1>3, <1>4
  <2>4. InStream(u)' \/ u \in retry' \/ Moving(u)' => InStream(u) \/ u \in retry \/ Moving(u)
    BY <1>2, <1>7, <1>8
  <2> QED
    BY <1>2, <1>8, <2>1, <2>2, <2>3, <2>4, UntouchedStays DEF AllUntouched
<1>9. Untouched(t)'
  <2>1. \A b \in Loops : ~Serves(b, t)'
    BY <1>3, <1>4, <1>6 DEF Serves
  <2>2. InStream(t)' \/ t \in retry' \/ Moving(t)' => task'[t].status = "pending"
    BY <1>2, <1>6, <1>7
  <2>3. \A b \in Loops : \A n \in loop'[b].batch : n[1] # t
    BY <1>1, <1>3, <1>4, <1>5 DEF Untouched
  <2> QED
    BY <1>2, <2>1, <2>2, <2>3 DEF Untouched
<1> QED
  BY <1>8, <1>9 DEF AllUntouched

LEMMA CommitUntouched ==
    ASSUME CoreInv, CoreInv', SteadyInv, AllUntouched, NEW a \in Loops, Complete(a) \/ Fail(a)
    PROVE  AllUntouched'
<1>1. CASE Complete(a)
  <2>1. PICK x, y : /\ Turns(a, x, y) /\ x.pc = "commit"
                    /\ Fields(y, IF x.batch # {} THEN "claimed" ELSE "idle",
                              None, None, None, None, x.batch)
    BY <1>1, CompleteEffect DEF CoreInv
  <2>2. Commits(x, "completed") /\ "completed" \in Status /\ x = loop[a] /\ x.pc \in InService
    BY <1>1, <2>1 DEF Turns, Complete, Commits, Acknowledge, Status, InService, Finishing
  <2>3. UNCHANGED <<stream, retry>>
    BY <1>1 DEF Complete
  <2>4. x.task \notin retry
    BY <2>2, ServeLook DEF OneServer, Serves
  <2> QED
    BY <2>1, <2>2, <2>3, <2>4, EndUntouched
<1>2. CASE Fail(a)
  <2>1. PICK x, y : /\ Turns(a, x, y) /\ x.pc = "commit"
                    /\ Fields(y, IF x.batch # {} THEN "claimed" ELSE "idle",
                              None, None, None, None, x.batch)
    BY <1>2, FailEffect DEF CoreInv
  <2>2. x = loop[a] /\ x.pc \in InService
    BY <2>1 DEF Turns, InService, Finishing
  <2>3. PICK s \in Status : s = IF x.copy.attempts >= MaxAttempts THEN "dead_letter" ELSE "pending"
    BY DEF Status
  <2>4. Commits(x, s)
    BY <1>2, <2>2, <2>3 DEF Fail, Commits, Acknowledge
  <2>5. x.task \notin retry
    BY <2>2, ServeLook DEF OneServer, Serves
  <2>6. /\ UNCHANGED stream
        /\ retry' = IF s = "dead_letter" THEN retry ELSE retry \cup {x.task}
    BY <1>2, <2>2, <2>3 DEF Fail
  <2> QED
    BY <2>1, <2>3, <2>4, <2>5, <2>6, EndUntouched
<1> QED
  BY <1>1, <1>2

\* The loops and the pending messages stay as they are.
LEMMA PlainUntouched ==
    ASSUME AllUntouched, UNCHANGED <<task, stream, pel, retry, loop>>
    PROVE  AllUntouched'
BY DEF AllUntouched, Untouched, Serves, InStream, Moving, At

LEMMA StartUntouched ==
    ASSUME CoreInv, AllUntouched, NEW p \in Runtimes, Start(p)
    PROVE  AllUntouched'
<1>1. /\ \A b \in Loops : loop'[b] = loop[b] \/ Empty(loop'[b])
      /\ UNCHANGED <<task, stream, pel, retry>>
  BY ProcessLoops DEF redis
<1>2. \A b \in Loops : Empty(loop'[b]) =>
          /\ loop'[b].batch = {} /\ loop'[b].pc \notin InService \cup {"promoting"}
  BY EmptyHand
<1>3. \A b \in Loops : loop[b].pc \in InService => loop'[b] = loop[b]
  BY DEF Start, At, InService, Reading, Finishing
<1>4. ASSUME NEW u \in Tasks
      PROVE  Untouched(u)'
  <2>1. SameService(u)
    BY <1>1, <1>2, <1>3 DEF SameService, Serves
  <2>2. \A b \in Loops : \A n \in loop'[b].batch : n[1] = u => n \in loop[b].batch
    BY <1>1, <1>2
  <2>3. InStream(u)' \/ u \in retry' \/ Moving(u)' => InStream(u) \/ u \in retry \/ Moving(u)
    BY <1>1, <1>2 DEF InStream, Moving, At
  <2> QED
    BY <1>1, <2>1, <2>2, <2>3, UntouchedStays DEF AllUntouched
<1> QED
  BY <1>4 DEF AllUntouched

LEMMA CreateUntouched ==
    ASSUME CoreInv, CoreInv', AllUntouched, NEW h \in Handlers, EnqueueCreate(h)
    PROVE  AllUntouched'
<1>1. PICK t \in Tasks, i \in Intents :
           /\ task[t] = None /\ task'[t] = New(i)
           /\ \A u \in Tasks : u # t => task'[u] = task[u]
           /\ Xadd(t)
  BY CreateEffect
<1>2. UNCHANGED <<pel, retry, loop>>
  BY DEF EnqueueCreate
<1>3. ASSUME NEW u \in Tasks, u # t
      PROVE  Untouched(u)'
  <2>1. InStream(u)' => InStream(u)
    BY <1>1, <1>3, AddedStays DEF CoreInv
  <2>2. SameService(u) /\ (Moving(u)' => Moving(u))
    BY <1>2 DEF SameService, Serves, Moving, At
  <2>3. task'[u] = task[u] /\ Untouched(u)
    BY <1>1, <1>3 DEF AllUntouched
  <2> QED
    BY <1>2, <2>1, <2>2, <2>3, UntouchedStays
<1>4. Untouched(t)'
  <2>1. /\ \A m \in pel : m[1] # t
        /\ \A b \in Loops : ~Serves(b, t) /\ \A m \in loop[b].batch : m[1] # t
    BY <1>1, NothingYet
  <2>2. task'[t].status = "pending"
    BY <1>1 DEF New
  <2>3. \A b \in Loops : ~Serves(b, t)'
    BY <1>2, <2>1 DEF Serves
  <2> QED
    BY <1>2, <2>1, <2>2, <2>3 DEF Untouched
<1> QED
  BY <1>3, <1>4 DEF AllUntouched

LEMMA NoFaultStep ==
    ASSUME TypeOK, TypeOK', [Next]_vars, NoFault'
    PROVE  NoFault /\ NoSlow /\ \A kind : ~Fault(kind)
<1>1. \A f \in FaultKinds : faults'[f] = 0
  BY DEF NoFault, FaultCount, TypeOK, FaultKinds
<1>2. \A f \in FaultKinds : faults[f] = 0 /\ \A kind : Fault(kind) => kind # f
  BY <1>1, FaultsGrow
<1>3. NoFault /\ NoSlow
  BY <1>2 DEF NoFault, NoSlow, FaultCount, Unmet, FaultKinds
<1>4. \A kind : Fault(kind) => kind \in FaultKinds
  BY OperationalAssumption DEF Fault
<1> QED
  BY <1>2, <1>3, <1>4

LEMMA UntouchedStep ==
    ASSUME CoreInv, CoreInv', SteadyInv, AllUntouched, [Next]_vars, NoFault'
    PROVE  AllUntouched'
<1>1. \A kind : ~Fault(kind)
  BY NoFaultStep DEF CoreInv
<1>2. CASE UNCHANGED vars
  BY <1>2, PlainUntouched DEF vars, redis
<1>3. ASSUME NEW h \in Handlers,
             \/ ApiStep(h) \/ ApiCrash(h)
             \/ \E t \in Tasks, r \in Requests : Enqueue(h, t, r[1], r[2])
      PROVE  AllUntouched'
  <2>1. CASE EnqueueCreate(h)
    BY <2>1, CreateUntouched
  <2>2. CASE ~EnqueueCreate(h)
    BY <1>3, <2>2, PlainUntouched DEF ApiStep, EnqueueExisting, ApiCrash, Enqueue, redis
  <2> QED
    BY <2>1, <2>2
<1>4. ASSUME NEW p \in Runtimes, Start(p) \/ Crash(p)
      PROVE  AllUntouched'
  BY <1>1, <1>4, StartUntouched DEF Crash
<1>5. ASSUME NEW a \in Loops,
             \/ Work(a) \/ CommandError(a) \/ ReplyLost(a)
             \/ \E t \in Tasks : PromoteZrem(a, t)
             \/ \E m \in pel : ClaimSlow(a, m)
      PROVE  AllUntouched'
  <2>1. ~CommandError(a) /\ ~ReplyLost(a) /\ \A m : ~ClaimSlow(a, m)
    BY <1>1 DEF ClaimSlow, CommandError, ReplyLost
  <2>2. ~Xautoclaim(a) /\ loop[a].batch = {}
    BY NothingClaimed
  <2> QED
    BY <1>5, <2>1, <2>2, LookUntouched, MarkUntouched, PromoteUntouched, ReadUntouched,
       CommitUntouched DEF Work
<1> QED
  BY <1>2, <1>3, <1>4, <1>5 DEF Next

LEMMA InitUntouched ==
    ASSUME Init
    PROVE  AllUntouched
<1>1. /\ stream = <<>> /\ pel = {} /\ retry = {}
      /\ \A a \in Loops : loop[a] = Off
  BY DEF Init
<1>2. \A a \in Loops : loop[a].pc \notin InService \cup {"promoting"} /\ loop[a].batch = {}
  BY <1>1 DEF Off, InService, Reading, Finishing
<1>3. \A t \in Tasks : ~InStream(t) /\ ~Moving(t) /\ \A a \in Loops : ~Serves(a, t)
  BY <1>1, <1>2 DEF InStream, Moving, At, Serves
<1> QED
  BY <1>1, <1>2, <1>3 DEF AllUntouched, Untouched


\* The index of the contract: a key whose task does not exist yet is free.
Index == [k \in Keys |-> IF idem[k] = None THEN None
                         ELSE IF task[idem[k]] = None THEN None ELSE idem[k]]

\* A transaction that overwrites a task document.
LEMMA WriteSeen ==
    ASSUME CoreInv, NEW t \in Tasks, NEW d \in TaskDoc, NEW e \in TaskDoc, task[t] = d,
           task' = [task EXCEPT ![t] = e], UNCHANGED idem
    PROVE  /\ Index' = Index
           /\ d.status = "pending" <=> t \in Waiting
           /\ Waiting' = IF e.status = "pending" THEN Waiting \cup {t} ELSE Waiting \ {t}
<1>1. d # None /\ e # None /\ idem \in [Keys -> Tasks \cup {None}]
  BY NoneIsNoDoc DEF CoreInv, TypeOK
<1>2. task'[t] = e /\ \A u \in Tasks : u # t => task'[u] = task[u]
  BY DEF CoreInv, TypeOK
<1>3. \A u \in Tasks : task'[u] = None <=> task[u] = None
  BY <1>1, <1>2
<1>4. \A k \in Keys : idem'[k] = idem[k] /\ idem[k] \in Tasks \cup {None}
  BY <1>1
<1>5. Index' = Index
  BY <1>3, <1>4 DEF Index
<1>6. t \in Waiting' <=> e.status = "pending"
  BY <1>1, <1>2 DEF Waiting
<1>7. \A u : u # t => (u \in Waiting' <=> u \in Waiting)
  BY <1>2 DEF Waiting
<1>8. d.status = "pending" <=> t \in Waiting
  BY <1>1 DEF Waiting
<1> QED
  BY <1>5, <1>6, <1>7, <1>8

LEMMA MarkIsDequeue ==
    ASSUME CoreInv, SteadyInv, AllUntouched, NEW a \in Loops, DequeueMark(a)
    PROVE  \E t \in Tasks : Memory!Dequeue(t)
<1>1. PICK x, y : /\ Turns(a, x, y) /\ x.pc = "begin"
                  /\ Fields(y, "execute", x.task, None, x.msg, x.found, x.batch)
  BY MarkEffect DEF CoreInv
<1>2. x = loop[a] /\ x.pc \in InService /\ x.pc \in Reading
  BY <1>1 DEF InService, Reading, Turns
<1>3. PICK t \in Tasks, d \in TaskDoc :
              /\ x.task = t /\ task[t] = d /\ Current(x, pel, processing[t], d)
  BY <1>2, ServeLook
<1>4. PICK e \in TaskDoc : e = Began(d) /\ e.status = "running"
  BY BeganDoc
<1>5. task' = [task EXCEPT ![t] = e] /\ UNCHANGED idem
  BY <1>1, <1>2, <1>3, <1>4 DEF DequeueMark, Current
<1>6. d.status = "pending"
  BY <1>2, <1>3 DEF AllUntouched, Untouched, Serves
<1>7. Index' = Index /\ t \in Waiting /\ Waiting' = Waiting \ {t}
  BY <1>3, <1>4, <1>5, <1>6, WriteSeen
<1>8. task' = [task EXCEPT ![t].status = "running", ![t].attempts = @ + 1]
  BY <1>3, <1>4, <1>5 DEF Began, CoreInv, TypeOK
<1> QED
  BY <1>3, <1>6, <1>7, <1>8 DEF Memory!Dequeue, Index

LEMMA CommitIsSeen ==
    ASSUME CoreInv, SteadyInv, AllUntouched, NEW a \in Loops, NEW x, x = loop[a],
           x.pc = "commit", NEW s \in Status, Commits(x, s), UNCHANGED idem
    PROVE  \E t \in Tasks, d \in TaskDoc :
             /\ task[t] = d /\ x.copy = d /\ d.status = "running" /\ t \notin Waiting
             /\ task' = [task EXCEPT ![t].status = s] /\ Index' = Index
             /\ Waiting' = IF s = "pending" THEN Waiting \cup {t} ELSE Waiting
<1>1. PICK t \in Tasks, d \in TaskDoc, e \in TaskDoc :
              /\ x.task = t /\ task[t] = d /\ x.copy = d
              /\ e.status = s /\ e = [d EXCEPT !.status = s]
              /\ task' = [task EXCEPT ![t] = e]
  BY CommitLook
<1>2. x.pc \in InService /\ x.pc \notin Reading
  BY DEF InService, Reading, Finishing
<1>3. d.status = "running"
  BY <1>1, <1>2 DEF AllUntouched, Untouched, Serves
<1>4. /\ Index' = Index /\ t \notin Waiting
      /\ Waiting' = IF s = "pending" THEN Waiting \cup {t} ELSE Waiting \ {t}
  BY <1>1, <1>3, WriteSeen
<1>5. task' = [task EXCEPT ![t].status = s]
  BY <1>1 DEF CoreInv, TypeOK
<1>6. Waiting' = IF s = "pending" THEN Waiting \cup {t} ELSE Waiting
  BY <1>4
<1> QED
  BY <1>1, <1>3, <1>4, <1>5, <1>6

LEMMA CommitIsOutcome ==
    ASSUME CoreInv, SteadyInv, AllUntouched, NEW a \in Loops, Complete(a) \/ Fail(a)
    PROVE  \E t \in Tasks : Memory!Complete(t) \/ Memory!Fail(t)
<1>1. CASE Complete(a)
  <2>1. PICK x : x = loop[a] /\ x.pc = "commit"
    BY <1>1 DEF Complete, At
  <2>2. Commits(x, "completed") /\ "completed" \in Status /\ UNCHANGED idem
    BY <1>1, <2>1 DEF Complete, Commits, Acknowledge, Status
  <2>3. PICK t \in Tasks, d \in TaskDoc :
             /\ task[t] = d /\ d.status = "running"
             /\ task' = [task EXCEPT ![t].status = "completed"] /\ Index' = Index
             /\ Waiting' = Waiting
    BY <2>1, <2>2, CommitIsSeen
  <2>4. d # None
    BY NoneIsNoDoc
  <2>5. Memory!Complete(t)
    BY <2>3, <2>4 DEF Memory!Complete, Index
  <2> QED
    BY <2>5
<1>2. CASE Fail(a)
  <2>1. PICK x : x = loop[a] /\ x.pc = "commit"
    BY <1>2 DEF Fail, At
  <2>2. PICK s \in Status : s = IF x.copy.attempts >= MaxAttempts THEN "dead_letter" ELSE "pending"
    BY DEF Status
  <2>3. Commits(x, s) /\ UNCHANGED idem
    BY <1>2, <2>1, <2>2 DEF Fail, Commits, Acknowledge
  <2>4. PICK t \in Tasks, d \in TaskDoc :
             /\ task[t] = d /\ x.copy = d /\ d.status = "running"
             /\ task' = [task EXCEPT ![t].status = s] /\ Index' = Index
             /\ Waiting' = IF s = "pending" THEN Waiting \cup {t} ELSE Waiting
    BY <2>1, <2>3, CommitIsSeen
  <2>5. d # None
    BY NoneIsNoDoc
  <2>6. IF task[t].attempts >= MaxAttempts
        THEN task' = [task EXCEPT ![t].status = "dead_letter"] /\ Waiting' = Waiting
        ELSE task' = [task EXCEPT ![t].status = "pending"] /\ Waiting' = Waiting \cup {t}
    BY <2>2, <2>4
  <2>7. Memory!Fail(t)
    BY <2>4, <2>5, <2>6 DEF Memory!Fail, Index
  <2> QED
    BY <2>7
<1> QED
  BY <1>1, <1>2

LEMMA CreateIsEnqueue ==
    ASSUME CoreInv, NEW h \in Handlers, EnqueueCreate(h)
    PROVE  \E t \in Tasks, k \in Keys \cup {None}, i \in Intents : Memory!Enqueue(t, k, i)
<1>1. PICK t \in Tasks, i \in Intents :
             /\ t = api[h].task /\ i = api[h].intent
             /\ task[t] = None /\ task' = [task EXCEPT ![t] = New(i)]
             /\ task'[t] = New(i)
             /\ \A u \in Tasks : u # t => task'[u] = task[u]
  BY CreateEffect
<1>2. PICK k \in Keys \cup {None} : k = api[h].key
  BY DEF CoreInv, TypeOK, ApiState
<1>3. /\ k # None => idem[k] = t
      /\ \A l \in Keys : idem[l] = t => l = k
  BY <1>1, <1>2 DEF CoreInv, KeysKept, EnqueueCreate
<1>4. /\ UNCHANGED idem /\ New(i) # None /\ New(i).status = "pending"
      /\ t # None /\ None \notin Keys /\ \A l \in Keys : idem[l] \in Tasks \cup {None}
  BY NewDoc, OperationalAssumption DEF EnqueueCreate, CoreInv, TypeOK
<1>5. k # None => Index[k] = None
  BY <1>1, <1>3, <1>4 DEF Index
<1>6. Index' = IF k = None THEN Index ELSE [Index EXCEPT ![k] = t]
  <2>1. \A l \in Keys : l # k => Index'[l] = Index[l]
    BY <1>1, <1>3, <1>4 DEF Index
  <2>2. k # None => Index'[k] = t
    BY <1>1, <1>3, <1>4 DEF Index
  <2>3. Index = [l \in Keys |-> Index[l]] /\ Index' = [l \in Keys |-> Index'[l]]
    BY DEF Index
  <2> QED
    BY <1>4, <2>1, <2>2, <2>3
<1>7. Waiting' = Waiting \cup {t}
  <2>1. t \in Waiting'
    BY <1>1, <1>4 DEF Waiting
  <2>2. \A u : u # t => (u \in Waiting' <=> u \in Waiting)
    BY <1>1 DEF Waiting
  <2> QED
    BY <2>1, <2>2
<1>8. Memory!Enqueue(t, k, i)
  BY <1>1, <1>5, <1>6, <1>7 DEF Memory!Enqueue, Index, New
<1> QED
  BY <1>8

\* Steps that the contract does not see.
LEMMA Unseen ==
    ASSUME CoreInv, UNCHANGED task,
           \A k \in Keys : idem'[k] = idem[k]
                           \/ (idem[k] = None /\ idem'[k] \in Tasks /\ task[idem'[k]] = None)
    PROVE  UNCHANGED Memory!vars
<1>1. Index' = Index
  BY DEF Index
<1>2. Waiting' = Waiting
  BY DEF Waiting
<1> QED
  BY <1>1, <1>2 DEF Memory!vars, Index

LEMMA EnqueueUnseen ==
    ASSUME CoreInv, NEW h \in Handlers, NEW t \in Tasks, NEW r \in Requests,
           Enqueue(h, t, r[1], r[2])
    PROVE  UNCHANGED Memory!vars
<1>1. PICK k : k = r[1]
  OBVIOUS
<1>2. /\ UNCHANGED task /\ task[t] = None
      /\ idem' = IF (k = None \/ idem[k] = None) /\ k # None THEN [idem EXCEPT ![k] = t] ELSE idem
  BY <1>1 DEF Enqueue, Fresh
<1>3. \A l \in Keys : idem'[l] = idem[l]
                      \/ (idem[l] = None /\ idem'[l] \in Tasks /\ task[idem'[l]] = None)
  BY <1>2 DEF CoreInv, TypeOK
<1> QED
  BY <1>2, <1>3, Unseen

LEMMA MemoryStep ==
    ASSUME CoreInv, SteadyInv, AllUntouched, \A kind : ~Fault(kind), [Next]_vars
    PROVE  Memory!Next \/ UNCHANGED Memory!vars
<1>1. CASE UNCHANGED vars
  BY <1>1, Unseen DEF vars, redis
<1>2. ASSUME NEW h \in Handlers,
             \/ ApiStep(h) \/ ApiCrash(h)
             \/ \E t \in Tasks, r \in Requests : Enqueue(h, t, r[1], r[2])
      PROVE  Memory!Next \/ UNCHANGED Memory!vars
  <2>1. CASE EnqueueCreate(h)
    BY <2>1, CreateIsEnqueue DEF Memory!Next
  <2>2. CASE EnqueueExisting(h)
    BY <2>2, Unseen DEF EnqueueExisting, redis
  <2> QED
    BY <1>2, <2>1, <2>2, EnqueueUnseen DEF ApiStep, ApiCrash
<1>3. ASSUME NEW p \in Runtimes, Start(p) \/ Crash(p)
      PROVE  UNCHANGED Memory!vars
  BY <1>3, Unseen DEF Start, Crash, redis
<1>4. ASSUME NEW a \in Loops,
             \/ Work(a) \/ CommandError(a) \/ ReplyLost(a)
             \/ \E t \in Tasks : PromoteZrem(a, t)
             \/ \E m \in pel : ClaimSlow(a, m)
      PROVE  Memory!Next \/ UNCHANGED Memory!vars
  <2>1. CASE DequeueMark(a)
    BY <2>1, MarkIsDequeue DEF Memory!Next
  <2>2. CASE Complete(a) \/ Fail(a)
    BY <2>2, CommitIsOutcome DEF Memory!Next
  <2>3. CASE ~DequeueMark(a) /\ ~Complete(a) /\ ~Fail(a)
    <3>1. UNCHANGED <<task, idem>>
      BY <1>4, <2>3 DEF Work, CommandError, ReplyLost, PromoteZrem, ClaimSlow, PromoteXadd,
         Xreadgroup, DequeueGet, Xautoclaim, Execute, GetTask, MessageId, ClaimedNext, redis
    <3> QED
      BY <3>1, Unseen
  <2> QED
    BY <2>1, <2>2, <2>3
<1> QED
  BY <1>1, <1>2, <1>3, <1>4 DEF Next

FaultlessInv == LayeredInv /\ (NoFault => AllUntouched)

\* Up to the first fault, the durable provider implements the contract of the
\* in-memory one: although its dequeue, complete and fail are several commands
\* each, and loops and requests interleave between any two of them, nobody who
\* looks at the tasks and the keys can tell it from a provider that holds one
\* lock (operational_queue.py enqueue, dequeue, complete, fail).
THEOREM DurableRefinesMemory == Spec => MemorySpec
<1>1. Init => FaultlessInv
  BY InitLayered, InitUntouched DEF FaultlessInv
<1>2. FaultlessInv /\ [Next]_vars => FaultlessInv'
  <2> SUFFICES ASSUME FaultlessInv, [Next]_vars
               PROVE  FaultlessInv'
    OBVIOUS
  <2>1. LayeredInv' /\ CoreInv /\ CoreInv'
    BY LayeredStep DEF FaultlessInv, LayeredInv
  <2>2. ASSUME NoFault'
        PROVE  AllUntouched'
    <3>1. NoFault /\ NoSlow
      BY <2>1, <2>2, NoFaultStep DEF CoreInv
    <3> QED
      BY <2>1, <2>2, <3>1, UntouchedStep DEF FaultlessInv, LayeredInv
  <2> QED
    BY <2>1, <2>2 DEF FaultlessInv
<1>3. Init => Memory!Init
  <2> SUFFICES ASSUME Init
               PROVE  Memory!Init
    OBVIOUS
  <2>1. task = [t \in Tasks |-> None] /\ idem = [k \in Keys |-> None]
    BY DEF Init
  <2>2. Waiting = {} /\ Index = [k \in Keys |-> None]
    BY <2>1 DEF Waiting, Index
  <2> QED
    BY <2>1, <2>2 DEF Memory!Init, Index
<1>4. FaultlessInv /\ FaultlessInv' /\ [Next]_vars => [FaultCount' = 0 => Memory!Next]_(Memory!vars)
  <2> SUFFICES ASSUME FaultlessInv, FaultlessInv', [Next]_vars, FaultCount' = 0
               PROVE  Memory!Next \/ UNCHANGED Memory!vars
    OBVIOUS
  <2>1. NoFault'
    BY DEF NoFault
  <2>2. NoFault /\ NoSlow /\ \A kind : ~Fault(kind)
    BY <2>1, NoFaultStep DEF FaultlessInv, LayeredInv, CoreInv
  <2> QED
    BY <2>2, MemoryStep DEF FaultlessInv, LayeredInv
<1> QED
  BY <1>1, <1>2, <1>3, <1>4, PTL DEF Spec, MemorySpec
=============================================================================
