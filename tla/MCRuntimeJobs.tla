--------------------------- MODULE MCRuntimeJobs ---------------------------
(***************************************************************************)
(* What the runtime's asynchronous jobs are checked for, and the instances *)
(* that TLC runs.                                                          *)
(***************************************************************************)
EXTENDS RuntimeJobs, TLC

\* Somebody can still take the job up: an entry in a list, or a worker that
\* has it in hand.
Reachable(j) ==
    \/ j \in delayed \/ processing[j] > 0
    \/ \E i \in DOMAIN ready : ready[i] = j
    \/ \E w \in Workers :
           /\ wk[w].job = j
           /\ wk[w].pc \in InService \cup {"popped", "contended", "repush", "sweep_push"}

InFlight(j) == doc[j] # None /\ doc[j].status \in {"PROCESSING", "RETRYING"}

\* A started job that is not finished can still be taken up (redis_queue.py
\* consumir, recuperar_jobs_orfaos, job_service.py _registrar_falha).  A job
\* is exempt when a process ended and, as well, a lease expired under a worker,
\* which then confirms the entry of the one that replaced it, or a worker that
\* started took the entry of one that had popped it and not yet set the lease.
StartedIsReachable ==
    \A j \in Jobs \ severed :
        InFlight(j) /\ (faults["crash"] = 0 \/ (faults["lapse"] = 0 /\ j \notin robbed))
            => Reachable(j)

\* A dead-lettered job is in the dead-letter list (job_service.py
\* _mover_para_dlq, redis_queue.py quarentenar), up to the step in between.
DeadLetterQuarantined ==
    \A j \in Jobs \ severed :
        (doc[j] # None /\ doc[j].status = "DEAD_LETTER") =>
            \/ j \in dlq
            \/ \E w \in Workers : At(w, "quarantine") /\ wk[w].job = j

\* An accepted event stays persisted (job_service.py criar_todo_evento): the
\* removal after a refusal takes away nothing that somebody was promised, unless
\* the event was replayed while the request that created it was undecided.  That
\* replay is answered on the strength of a document that may yet be removed.
AcceptedIsPersisted == \A j \in accepted \ contested : doc[j] # None

\* No promise of the queue is lost, wherever a worker stops and however requests
\* for one event overlap: what was accepted stays persisted, but for a replay
\* that overtook the creation, what was started stays where somebody takes it up, what
\* was given up is in quarantine (redis_queue.py, job_service.py).  The last two
\* hold as long as no fault separated the two commands that move the entry, and
\* except for a job withdrawn after a worker start had published it: entries
\* left of its first life are confirmed in the second.
NeverLost == AcceptedIsPersisted /\ StartedIsReachable /\ DeadLetterQuarantined

\* The lease admits one worker to a job at a time (redis_queue.py consumir),
\* whatever duplicates replays and recoveries have queued and whatever
\* processes end, unless it expires under a worker.
OneExecution ==
    faults["lapse"] = 0 => \A v, w \in Workers :
        (v # w /\ wk[v].pc \in InService /\ wk[w].pc \in InService) => wk[v].job # wk[w].job

\* A job that is COMPLETED or DEAD_LETTER is never written again (job_service.py
\* processar_job), whatever duplicates of it are delivered, as long as no
\* worker outlives its lease; only a creation that is refused for lack of
\* capacity may still withdraw it.
TerminalIsFinal ==
    [][\A j \in Jobs :
          (doc[j] # None /\ doc[j].status \in Terminal /\ faults'["lapse"] = 0)
              => doc'[j] \in {doc[j], None}]_vars

\* Attempts are counted once per execution (job_service.py processar_job): a
\* job gets one beyond max_tentativas at most for each fault it met, unless a
\* lease expires under its worker.
AttemptsPerFault ==
    faults["lapse"] = 0 => \A j \in Jobs : doc[j] # None => doc[j].tentativas <= MaxTentativas + FaultCount

\* Every accepted job ends COMPLETED or DEAD_LETTER when no fault happens, or is
\* withdrawn under a replay that overtook its creation (job_service.py
\* criar_todo_evento, redis_queue.py consumir).  A worker looks for orphans when
\* it starts, so one that ends may strand its job until another start.
AcceptedSettles ==
    [](FaultCount = 0) =>
        \A j \in Jobs :
            j \in accepted ~> \/ doc[j] # None /\ doc[j].status \in Terminal
                              \/ j \in contested /\ doc[j] = None
=============================================================================
