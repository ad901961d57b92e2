---------------------------- MODULE RuntimeJobs ----------------------------
(***************************************************************************)
(* The asynchronous jobs of the runtime: JobService, the Redis queue, the  *)
(* Redis repository and the worker loop (runtime/app).  A job is a         *)
(* document and, separately, entries of its id in the queue's lists.  One  *)
(* action is one command, script or transaction sent to Redis, which is    *)
(* atomic; whatever a worker or a request handler remembers between two    *)
(* commands is in its program counter and its local copy.                  *)
(*                                                                         *)
(* Time is left open: a delayed entry may be due, and the lease of a       *)
(* worker that does not renew it may expire, at any moment.  Metrics are   *)
(* left out (they are best-effort writes nothing reads back here), and so  *)
(* is the expiry of documents, which live much longer than any lease.      *)
(***************************************************************************)
EXTENDS Integers, Sequences, FiniteSets

CONSTANTS
    Jobs,           \* job ids; an event_id determines its job_id
    Workers,        \* worker processes, each with a queue gateway of its own
    Handlers,       \* API requests in progress at the same time
    MaxTentativas,  \* settings.max_tentativas
    MaxQueueSize,   \* settings.max_queue_size
    Faults,         \* the faults of an instance: see FaultKinds
    MaxFaults,      \* bound: faults in one behaviour
    MaxRequests,    \* bound: API requests in one behaviour
    Dead,           \* the token of a process that is gone
    None

FaultKinds == {"crash", "interrupt", "lapse"}

ASSUME JobsAssumption ==
    /\ None \notin Jobs /\ None \notin Workers
    /\ Dead \notin Workers /\ Dead # None
    /\ Faults \subseteq FaultKinds /\ IsFiniteSet(Workers)
ASSUME JobsBoundAssumption ==
    /\ MaxTentativas \in Nat \ {0} /\ MaxQueueSize \in Nat
    /\ MaxFaults \in Nat /\ MaxRequests \in Nat

VARIABLES
    doc,        \* the repository: status and tentativas of each job
    ready,      \* the main list; the next entry to consume is its head
    delayed,    \* the sorted set of retries
    processing, \* the processing list, as the number of entries of each job
    dlq,        \* the dead-letter list, which holds an id once
    lease,      \* the token under each lease key
    wk,         \* the worker processes
    api,        \* the API requests
    accepted,   \* history: jobs answered with 202
    contested,  \* history: jobs replayed while their creation was undecided
    severed,    \* history: jobs withdrawn, or met by a fault between two commands
    robbed,     \* history: jobs of which a starting worker took a live one's entry
    faults,     \* history: number of faults of each kind
    requests    \* history: number of API requests

redis == <<ready, delayed, processing, dlq, lease>>
past  == <<accepted, contested, severed, robbed, faults, requests>>
vars  == <<doc, redis, wk, api, past>>

-----------------------------------------------------------------------------
Status   == {"QUEUED", "PROCESSING", "RETRYING", "COMPLETED", "DEAD_LETTER"}
Terminal == {"COMPLETED", "DEAD_LETTER"}
JobDoc   == [status : Status, tentativas : Nat]
\* The mark for a document that is not there is no document.
ASSUME NoneIsNoDoc == None \notin JobDoc
NewJob   == [status |-> "QUEUED", tentativas |-> 0]

\* Where a worker is: in recuperar_jobs_orfaos, in recuperar_jobs_pendentes,
\* in consumir, in processar_job, in confirmar.
InService == {"obter", "begin", "execute", "completed", "failed",
              "retry", "overflow", "quarantine"}
WorkerPc  == {"off", "sweep", "sweep_lrem", "sweep_push", "pending", "idle",
              "popped", "contended", "repush", "confirm", "release"}
                 \cup InService
NoJobs    == [j \in Jobs |-> 0]
Off       == [pc |-> "off", job |-> None, copy |-> NewJob, todo |-> NoJobs]
NoRequest == [pc |-> "none", job |-> None]

Init ==
    /\ doc = [j \in Jobs |-> None]
    /\ ready = <<>> /\ delayed = {} /\ processing = NoJobs /\ dlq = {}
    /\ lease = [j \in Jobs |-> None]
    /\ wk = [w \in Workers |-> Off]
    /\ api = [h \in Handlers |-> NoRequest]
    /\ accepted = {} /\ contested = {} /\ severed = {} /\ robbed = {} /\ requests = 0
    /\ faults = [f \in FaultKinds |-> 0]

FaultCount   == faults["crash"] + faults["interrupt"] + faults["lapse"]
At(w, pc)    == wk[w].pc = pc
Goto(w, pc)  == wk' = [wk EXCEPT ![w].pc = pc]
Full         == Len(ready) + Cardinality(delayed) >= MaxQueueSize
Salvar(j, d) == doc' = [doc EXCEPT ![j] = d]
Lrem(j)      == processing' = [processing EXCEPT ![j] = IF @ > 0 THEN @ - 1 ELSE 0]

-----------------------------------------------------------------------------
(***************************************************************************)
(* API requests.  criar_todo_evento creates the document if it is absent   *)
(* and publishes; a replay publishes again while the job is QUEUED.        *)
(* criar_job is the same with an id nobody else knows.                     *)
(***************************************************************************)
\* The request that creates the job has not been accepted nor refused yet.
Creating(h, j) == api[h].job = j /\ api[h].pc \in {"publish", "remove"}

\* A request is handled where there is room; which place it takes is nothing to it.
FreeHandler(h) == api[h].pc = "none" /\ h = CHOOSE g \in Handlers : api[g].pc = "none"

CriarTodoEvento(h, j) ==
    /\ FreeHandler(h) /\ requests < MaxRequests
    /\ requests' = requests + 1
    /\ IF doc[j] = None
       THEN /\ Salvar(j, NewJob)
            /\ api' = [api EXCEPT ![h] = [pc |-> "publish", job |-> j]]
            /\ UNCHANGED contested
       ELSE /\ contested' = IF \E g \in Handlers : Creating(g, j)
                            THEN contested \cup {j} ELSE contested
            /\ api' = [api EXCEPT ![h] = [pc |-> "existing", job |-> j]]
            /\ doc' = doc
    /\ UNCHANGED <<redis, wk, accepted, severed, robbed, faults>>

\* The document is read after the script found it; it may be gone again.
ReplayObter(h) ==
    LET j == api[h].job IN
    /\ api[h].pc = "existing"
    /\ IF doc[j] # None /\ doc[j].status = "QUEUED"
       THEN api' = [api EXCEPT ![h].pc = "republish"] /\ UNCHANGED accepted
       ELSE /\ api' = [api EXCEPT ![h] = NoRequest]
            /\ accepted' = IF doc[j] = None THEN accepted ELSE accepted \cup {j}
    /\ UNCHANGED <<doc, redis, wk, severed, contested, robbed, faults, requests>>

Publicar(h) ==
    LET j == api[h].job IN
    /\ api[h].pc \in {"publish", "republish"}
    /\ IF Full THEN UNCHANGED ready ELSE ready' = Append(ready, j)
    /\ IF Full /\ api[h].pc = "publish"
       THEN api' = [api EXCEPT ![h].pc = "remove"] /\ UNCHANGED accepted
       ELSE api' = [api EXCEPT ![h] = NoRequest] /\ accepted' = accepted \cup {j}
    /\ UNCHANGED <<doc, delayed, processing, dlq, lease, wk, severed, contested, robbed, faults,
                   requests>>

Remover(h) ==
    /\ api[h].pc = "remove"
    /\ Salvar(api[h].job, None)
    /\ api' = [api EXCEPT ![h] = NoRequest]
    /\ severed' = severed \cup {api[h].job}
    /\ UNCHANGED <<redis, wk, accepted, contested, robbed, faults, requests>>

-----------------------------------------------------------------------------
(***************************************************************************)
(* A worker starts: recuperar_jobs_orfaos lists the processing list once   *)
(* and treats its entries one by one, then recuperar_jobs_pendentes        *)
(* publishes the QUEUED jobs it listed, until the queue is full.           *)
(***************************************************************************)
Iniciar(w) ==
    /\ At(w, "off")
    /\ wk' = [wk EXCEPT ![w] = [Off EXCEPT !.pc = "sweep", !.todo = processing]]
    /\ UNCHANGED <<doc, redis, api, past>>

SweepExists(w, j) ==
    /\ At(w, "sweep") /\ wk[w].todo[j] > 0
    /\ wk' = [wk EXCEPT ![w].todo[j] = @ - 1,
                        ![w].pc  = IF lease[j] = None THEN "sweep_lrem" ELSE @,
                        ![w].job = IF lease[j] = None THEN j ELSE None]
    /\ UNCHANGED <<doc, redis, api, past>>

\* The workers whose entry of the job is in the processing list, as they know.
Holders(j) ==
    {w \in Workers : wk[w].job = j
                     /\ wk[w].pc \in InService \cup {"popped", "contended", "confirm"}}

\* The entry may be one that a worker has popped and not yet leased.
SweepLrem(w) ==
    LET j == wk[w].job IN
    /\ At(w, "sweep_lrem")
    /\ Lrem(j)
    /\ robbed' = IF processing[j] > Cardinality(Holders(j)) THEN robbed ELSE robbed \cup {j}
    /\ wk' = [wk EXCEPT ![w].pc  = IF processing[j] > 0 THEN "sweep_push" ELSE "sweep",
                        ![w].job = IF processing[j] > 0 THEN j ELSE None]
    /\ UNCHANGED <<doc, ready, delayed, dlq, lease, api, accepted, severed, contested, faults, requests>>

SweepPush(w) ==
    /\ At(w, "sweep_push")
    /\ ready' = Append(ready, wk[w].job)
    /\ wk' = [wk EXCEPT ![w].pc = "sweep", ![w].job = None]
    /\ UNCHANGED <<doc, delayed, processing, dlq, lease, api, past>>

Listar(w) ==
    /\ At(w, "sweep") /\ wk[w].todo = NoJobs
    /\ wk' = [wk EXCEPT ![w].pc = "pending",
                        ![w].todo = [j \in Jobs |->
                            IF doc[j] # None /\ doc[j].status = "QUEUED" THEN 1 ELSE 0]]
    /\ UNCHANGED <<doc, redis, api, past>>

PublicarPendente(w, j) ==
    /\ At(w, "pending") /\ wk[w].todo[j] > 0
    /\ ready' = IF Full THEN ready ELSE Append(ready, j)
    /\ wk' = [wk EXCEPT ![w].todo = IF Full THEN NoJobs ELSE [@ EXCEPT ![j] = 0]]
    /\ UNCHANGED <<doc, delayed, processing, dlq, lease, api, past>>

WorkerIniciado(w) ==
    /\ At(w, "pending") /\ wk[w].todo = NoJobs
    /\ Goto(w, "idle")
    /\ UNCHANGED <<doc, redis, api, past>>

-----------------------------------------------------------------------------
(***************************************************************************)
(* consumir.  The script that promotes due entries moves any number of     *)
(* them: here one per step, since any of them may be the only one due.     *)
(***************************************************************************)
PromoverAtrasados(w, j) ==
    /\ At(w, "idle") /\ j \in delayed
    /\ delayed' = delayed \ {j}
    /\ ready' = Append(ready, j)
    /\ UNCHANGED <<doc, processing, dlq, lease, wk, api, past>>

\* Variant: BRPOP, without a copy in the processing list.
BrpopOnly(w) ==
    /\ At(w, "idle") /\ ready # <<>>
    /\ ready' = Tail(ready)
    /\ wk' = [wk EXCEPT ![w].pc = "popped", ![w].job = Head(ready)]
    /\ UNCHANGED <<doc, delayed, processing, dlq, lease, api, past>>

Brpoplpush(w) ==
    /\ At(w, "idle") /\ ready # <<>>
    /\ ready' = Tail(ready)
    /\ processing' = [processing EXCEPT ![Head(ready)] = @ + 1]
    /\ wk' = [wk EXCEPT ![w].pc = "popped", ![w].job = Head(ready)]
    /\ UNCHANGED <<doc, delayed, dlq, lease, api, past>>

\* Variant: SET without NX.
SetLeaseAlways(w) ==
    /\ At(w, "popped")
    /\ lease' = [lease EXCEPT ![wk[w].job] = w]
    /\ Goto(w, "obter")
    /\ UNCHANGED <<doc, ready, delayed, processing, dlq, api, past>>

SetLease(w) ==
    LET j == wk[w].job IN
    /\ At(w, "popped")
    /\ lease' = IF lease[j] = None THEN [lease EXCEPT ![j] = w] ELSE lease
    /\ Goto(w, IF lease[j] = None THEN "obter" ELSE "contended")
    /\ UNCHANGED <<doc, ready, delayed, processing, dlq, api, past>>

ContendedLrem(w) ==
    /\ At(w, "contended")
    /\ Lrem(wk[w].job)
    /\ Goto(w, "repush")
    /\ UNCHANGED <<doc, ready, delayed, dlq, lease, api, past>>

\* Variant: an entry that another worker holds is dropped as a duplicate.
ContendedDrop(w) ==
    /\ At(w, "repush")
    /\ wk' = [wk EXCEPT ![w].pc = "idle", ![w].job = None]
    /\ UNCHANGED <<doc, redis, api, past>>

ContendedLpush(w) ==
    /\ At(w, "repush")
    /\ ready' = Append(ready, wk[w].job)
    /\ wk' = [wk EXCEPT ![w].pc = "idle", ![w].job = None]
    /\ UNCHANGED <<doc, delayed, processing, dlq, lease, api, past>>

-----------------------------------------------------------------------------
(***************************************************************************)
(* processar_job works on its own copy of the document and writes it back  *)
(* whole.                                                                  *)
(***************************************************************************)
\* Variant: the status of the document is not looked at.
ObterAnyStatus(w) ==
    LET d == doc[wk[w].job] IN
    /\ At(w, "obter")
    /\ IF d = None
       THEN Goto(w, "confirm")
       ELSE wk' = [wk EXCEPT ![w].pc = "begin",
                             ![w].copy = [status |-> "PROCESSING",
                                          tentativas |-> d.tentativas + 1]]
    /\ UNCHANGED <<doc, redis, api, past>>

Obter(w) ==
    LET d == doc[wk[w].job] IN
    /\ At(w, "obter")
    /\ IF d = None \/ (d # None /\ d.status \in Terminal)
       THEN Goto(w, "confirm")
       ELSE wk' = [wk EXCEPT ![w].pc = "begin",
                             ![w].copy = [status |-> "PROCESSING",
                                          tentativas |-> d.tentativas + 1]]
    /\ UNCHANGED <<doc, redis, api, past>>

SalvarProcessing(w) ==
    /\ At(w, "begin")
    /\ Salvar(wk[w].job, wk[w].copy)
    /\ Goto(w, "execute")
    /\ UNCHANGED <<redis, api, past>>

\* The call to the destination succeeds or raises an error that is handled.
ExecutarOperacao(w) ==
    /\ At(w, "execute")
    /\ \E outcome \in {"completed", "failed"} : Goto(w, outcome)
    /\ UNCHANGED <<doc, redis, api, past>>

SalvarCompleted(w) ==
    /\ At(w, "completed")
    /\ Salvar(wk[w].job, [wk[w].copy EXCEPT !.status = "COMPLETED"])
    /\ Goto(w, "confirm")
    /\ UNCHANGED <<redis, api, past>>

\* Variant: one attempt too many.
RegistrarFalhaLate(w) ==
    LET last == wk[w].copy.tentativas > MaxTentativas IN
    /\ At(w, "failed")
    /\ Salvar(wk[w].job, [wk[w].copy EXCEPT
                              !.status = IF last THEN "DEAD_LETTER" ELSE "RETRYING"])
    /\ Goto(w, IF last THEN "quarantine" ELSE "retry")
    /\ UNCHANGED <<redis, api, past>>

RegistrarFalha(w) ==
    LET last == wk[w].copy.tentativas >= MaxTentativas IN
    /\ At(w, "failed")
    /\ Salvar(wk[w].job, [wk[w].copy EXCEPT
                              !.status = IF last THEN "DEAD_LETTER" ELSE "RETRYING"])
    /\ Goto(w, IF last THEN "quarantine" ELSE "retry")
    /\ UNCHANGED <<redis, api, past>>

PublicarRetry(w) ==
    /\ At(w, "retry")
    /\ delayed' = IF Full THEN delayed ELSE delayed \cup {wk[w].job}
    /\ Goto(w, IF Full THEN "overflow" ELSE "confirm")
    /\ UNCHANGED <<doc, ready, processing, dlq, lease, api, past>>

MoverParaDlq(w) ==
    /\ At(w, "overflow")
    /\ Salvar(wk[w].job, [wk[w].copy EXCEPT !.status = "DEAD_LETTER"])
    /\ Goto(w, "quarantine")
    /\ UNCHANGED <<redis, api, past>>

Quarentenar(w) ==
    /\ At(w, "quarantine")
    /\ Lrem(wk[w].job)
    /\ dlq' = dlq \cup {wk[w].job}
    /\ Goto(w, "confirm")
    /\ UNCHANGED <<doc, ready, delayed, lease, api, past>>

\* confirmar removes an entry of the job, then the lease if it is its own.
ConfirmarLrem(w) ==
    /\ At(w, "confirm")
    /\ Lrem(wk[w].job)
    /\ Goto(w, "release")
    /\ UNCHANGED <<doc, ready, delayed, dlq, lease, api, past>>

ReleaseLease(w) ==
    LET j == wk[w].job IN
    /\ At(w, "release")
    /\ lease' = IF lease[j] = w THEN [lease EXCEPT ![j] = None] ELSE lease
    /\ wk' = [wk EXCEPT ![w] = [Off EXCEPT !.pc = "idle"]]
    /\ UNCHANGED <<doc, ready, delayed, processing, dlq, api, past>>

-----------------------------------------------------------------------------
(***************************************************************************)
(* Faults.  severed remembers the jobs for which two commands that belong  *)
(* together were separated: an entry removed and not yet pushed again, a   *)
(* DEAD_LETTER document not yet quarantined, a confirmation of a job whose *)
(* processing was interrupted.                                             *)
(***************************************************************************)
Fault(kind) ==
    /\ kind \in Faults /\ FaultCount < MaxFaults
    /\ faults' = [faults EXCEPT ![kind] = @ + 1]

\* The process ends.  Its leases stay under a token no process knows.
Crash(w) ==
    /\ Fault("crash") /\ ~At(w, "off")
    /\ lease' = [j \in Jobs |-> IF lease[j] = w THEN Dead ELSE lease[j]]
    /\ severed' = IF wk[w].pc \in {"sweep_push", "repush", "quarantine"}
                  THEN severed \cup {wk[w].job} ELSE severed
    /\ wk' = [wk EXCEPT ![w] = Off]
    /\ UNCHANGED <<doc, ready, delayed, processing, dlq, api, accepted, contested, robbed, requests>>

\* processar_job ends by an exception it does not handle, or by the
\* cancellation of its task at shutdown: the finally clause confirms the job.
Interrupt(w) ==
    /\ Fault("interrupt") /\ wk[w].pc \in InService
    /\ Goto(w, "confirm")
    /\ severed' = severed \cup {wk[w].job}
    /\ UNCHANGED <<doc, redis, api, accepted, contested, robbed, requests>>

\* A request handler ends between two commands: nobody gets an answer.
HandlerCrash(h) ==
    /\ Fault("crash") /\ api[h].pc # "none"
    /\ api' = [api EXCEPT ![h] = NoRequest]
    /\ UNCHANGED <<doc, redis, wk, accepted, severed, contested, robbed, requests>>

\* The lease of a process that is gone expires.
LeaseExpires(j) ==
    /\ lease[j] = Dead
    /\ lease' = [lease EXCEPT ![j] = None]
    /\ UNCHANGED <<doc, ready, delayed, processing, dlq, wk, api, past>>

\* The lease of a worker expires although it is at work: a renewal was late
\* or failed.  The renewal task stops, the job goes on.
LeaseLapses(j) ==
    /\ Fault("lapse") /\ lease[j] \in Workers
    /\ lease' = [lease EXCEPT ![j] = None]
    /\ UNCHANGED <<doc, ready, delayed, processing, dlq, wk, api, accepted,
                   severed, contested, robbed, requests>>

-----------------------------------------------------------------------------
Startup(w) ==
    \/ Iniciar(w) \/ SweepLrem(w) \/ SweepPush(w) \/ Listar(w) \/ WorkerIniciado(w)
    \/ \E j \in Jobs : SweepExists(w, j) \/ PublicarPendente(w, j)

Consumir(w) ==
    \/ Brpoplpush(w) \/ SetLease(w) \/ ContendedLrem(w) \/ ContendedLpush(w)

ProcessarJob(w) ==
    \/ Obter(w) \/ SalvarProcessing(w) \/ ExecutarOperacao(w) \/ SalvarCompleted(w)
    \/ RegistrarFalha(w) \/ PublicarRetry(w) \/ MoverParaDlq(w) \/ Quarentenar(w)

Confirmar(w)  == ConfirmarLrem(w) \/ ReleaseLease(w)
WorkerStep(w) == Startup(w) \/ Consumir(w) \/ ProcessarJob(w) \/ Confirmar(w)
ApiStep(h)    == ReplayObter(h) \/ Publicar(h) \/ Remover(h)

Next ==
    \/ \E w \in Workers : \/ WorkerStep(w) \/ Crash(w) \/ Interrupt(w)
                          \/ \E j \in Jobs : PromoverAtrasados(w, j)
    \/ \E h \in Handlers : \/ ApiStep(h) \/ HandlerCrash(h)
                           \/ \E j \in Jobs : CriarTodoEvento(h, j)
    \/ \E j \in Jobs : LeaseExpires(j) \/ LeaseLapses(j)

Spec == Init /\ [][Next]_vars

(***************************************************************************)
(* Fairness.  The worker loop and the handlers never stop on their own,    *)
(* Redis expires every lease nobody renews, and a retry is due in the end. *)
(* A promotion needs an idle worker, which is seldom enough idle for ever. *)
(***************************************************************************)
Fairness ==
    /\ \A w \in Workers : WF_vars(WorkerStep(w))
    /\ \A h \in Handlers : WF_vars(ApiStep(h))
    /\ \A j \in Jobs : WF_vars(LeaseExpires(j))
    /\ \A j \in Jobs : SF_vars(\E w \in Workers : PromoverAtrasados(w, j))

FairSpec == Spec /\ Fairness

=============================================================================
