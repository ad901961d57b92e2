--------------------------- MODULE PentahoBatches ---------------------------
(***************************************************************************)
(* The batches that Pentaho sends to the backend                           *)
(* (backend/app/services/pentaho_integration.py and its worker).  The      *)
(* table is the queue; the background task of an API request and the       *)
(* independent worker are executors that compete for its rows.  One action *)
(* is one transaction, or one read whose result a later transaction uses.  *)
(*                                                                         *)
(* A row is named by its idempotency key, which the table keeps unique.    *)
(* Time is a flag per row: old says that atualizado_em is past the limit   *)
(* after which a batch being processed counts as abandoned.                *)
(***************************************************************************)
EXTENDS Naturals, FiniteSets

CONSTANTS
    Keys,           \* idempotency keys
    Payloads,       \* contents of a batch
    Usable,         \* the payloads with at least one usable record
    Handlers,       \* API requests in progress at the same time
    Executors,      \* background tasks and workers
    MaxTentativas,  \* REQSYS_PENTAHO_MAX_TENTATIVAS
    Faults,         \* the faults of an instance: see FaultKinds
    MaxFaults,      \* bound: faults in one behaviour
    MaxRequeues,    \* bound: reprocessing requests of one batch
    None

FaultKinds == {"crash", "db", "slow"}

ASSUME PentahoAssumption ==
    /\ None \notin Keys \cup Payloads
    /\ Usable \subseteq Payloads /\ Faults \subseteq FaultKinds
    /\ MaxTentativas \in Nat \ {0} /\ MaxFaults \in Nat /\ MaxRequeues \in Nat

VARIABLES
    lote,      \* the rows of pentaho_integration_batches
    ex,        \* the executors
    api,       \* the API requests
    answers,   \* history: the requests answered with 202, as <<key, payload>>
    requeues,  \* history: reprocessing requests accepted for each batch
    late,      \* history: the batches of which an execution outlived the timeout
    faults     \* history: number of faults

vars == <<lote, ex, api, answers, requeues, late, faults>>

-----------------------------------------------------------------------------
Status == {"PENDENTE", "PROCESSANDO", "CONCLUIDO", "QUARENTENA"}
Lote   == [payload : Payloads, status : Status, tentativas : Nat,
           old : BOOLEAN, rev : Nat]

\* The mark for a row that is not there is no row.
ASSUME NoneIsNoRow == None \notin Lote

\* An executor: the batch in hand, or the rows recovery has listed, each with
\* the tentativas and the revision it had then.
ExecutorPc == {"idle", "working", "failing", "recovering"}
Resting    == [pc |-> "idle", key |-> None, seen |-> [k \in {} |-> None]]
NoRequest  == [pc |-> "none", key |-> None, payload |-> None]

Init ==
    /\ lote = [k \in Keys |-> None]
    /\ ex = [e \in Executors |-> Resting]
    /\ api = [h \in Handlers |-> NoRequest]
    /\ answers = {} /\ requeues = [k \in Keys |-> 0]
    /\ late = {} /\ faults = 0

Stored(k)    == lote[k] # None
Is(k, s)     == Stored(k) /\ lote[k].status = s
\* Every write of a row sets its status and makes atualizado_em current.
Written(k, s) == [lote[k] EXCEPT !.status = s, !.old = FALSE, !.rev = @ + 1]
Gravar(k, s)  == lote' = [lote EXCEPT ![k] = Written(k, s)]

-----------------------------------------------------------------------------
(***************************************************************************)
(* criar_ou_obter_lote: look the key up, insert, and look it up again when *)
(* the unique key refuses the insertion.  Another payload under a known    *)
(* key is refused with 409.                                                *)
(***************************************************************************)
ReusoValido(k, p) == lote[k].payload = p
Answer(h) ==
    LET k == api[h].key IN
    answers' = answers \cup {<<k, api[h].payload>>}

BuscarLote(h, k, p) ==
    /\ api[h].pc = "none"
    /\ IF Stored(k)
       THEN /\ answers' = IF ReusoValido(k, p) THEN answers \cup {<<k, p>>} ELSE answers
            /\ UNCHANGED api
       ELSE /\ api' = [api EXCEPT ![h] = [pc |-> "insert", key |-> k, payload |-> p]]
            /\ UNCHANGED answers
    /\ UNCHANGED <<lote, ex, requeues, late, faults>>

\* Variant: the key is not unique in the table, and the last row is found.
InserirSemChaveUnica(h) ==
    LET k == api[h].key IN
    /\ api[h].pc = "insert"
    /\ lote' = [lote EXCEPT ![k] = [payload |-> api[h].payload, status |-> "PENDENTE",
                                    tentativas |-> 0, old |-> FALSE, rev |-> 0]]
    /\ Answer(h)
    /\ api' = [api EXCEPT ![h] = NoRequest]
    /\ UNCHANGED <<ex, requeues, late, faults>>

InserirLote(h) ==
    LET k == api[h].key
        p == api[h].payload IN
    /\ api[h].pc = "insert"
    /\ IF Stored(k)
       THEN /\ answers' = IF ReusoValido(k, p) THEN answers \cup {<<k, p>>} ELSE answers
            /\ UNCHANGED lote
       ELSE /\ lote' = [lote EXCEPT ![k] = [payload |-> p, status |-> "PENDENTE",
                                            tentativas |-> 0, old |-> FALSE, rev |-> 0]]
            /\ Answer(h)
    /\ api' = [api EXCEPT ![h] = NoRequest]
    /\ UNCHANGED <<ex, requeues, late, faults>>

-----------------------------------------------------------------------------
(***************************************************************************)
(* reivindicar_lote and _executar_lote_reivindicado.  Which of the pending *)
(* rows is tried depends on who tries; the conditional UPDATE decides.     *)
(***************************************************************************)
Reivindicar(e, k) ==
    /\ ex[e].pc = "idle" /\ Is(k, "PENDENTE")
    /\ lote' = [lote EXCEPT ![k] = [Written(k, "PROCESSANDO") EXCEPT !.tentativas = @ + 1]]
    /\ ex' = [ex EXCEPT ![e] = [Resting EXCEPT !.pc = "working", !.key = k]]
    /\ UNCHANGED <<api, answers, requeues, late, faults>>

\* The batch has a usable record.  The row is written whatever its status.
Concluir(e) ==
    LET k == ex[e].key IN
    /\ ex[e].pc = "working" /\ lote[k].payload \in Usable
    /\ Gravar(k, "CONCLUIDO")
    /\ ex' = [ex EXCEPT ![e] = Resting]
    /\ UNCHANGED <<api, answers, requeues, late, faults>>

\* The exception handler, which reads the row again and writes it.
Quarentenar(e) ==
    LET k == ex[e].key IN
    /\ \/ ex[e].pc = "failing"
       \/ ex[e].pc = "working" /\ lote[k].payload \notin Usable
    /\ Gravar(k, "QUARENTENA")
    /\ ex' = [ex EXCEPT ![e] = Resting]
    /\ UNCHANGED <<api, answers, requeues, late, faults>>

-----------------------------------------------------------------------------
(***************************************************************************)
(* recuperar_lotes_abandonados: the rows are listed first and updated in   *)
(* one transaction.  The UPDATE repeats the condition on atualizado_em     *)
(* with the limit of the listing, so it matches a row nobody wrote since.  *)
(***************************************************************************)
Abandonados == {k \in Keys : Is(k, "PROCESSANDO") /\ lote[k].old}

\* Variant: a batch at its limit of attempts is left out of the listing.
ListarSoComTentativas(e) ==
    LET found == {k \in Abandonados : lote[k].tentativas < MaxTentativas} IN
    /\ ex[e].pc = "idle" /\ found # {}
    /\ ex' = [ex EXCEPT ![e] = [pc |-> "recovering", key |-> None,
                 seen |-> [k \in found |->
                              [tentativas |-> lote[k].tentativas, rev |-> lote[k].rev]]]]
    /\ UNCHANGED <<lote, api, answers, requeues, late, faults>>

ListarAbandonados(e) ==
    /\ ex[e].pc = "idle" /\ Abandonados # {}
    /\ ex' = [ex EXCEPT ![e] = [pc |-> "recovering", key |-> None,
                 seen |-> [k \in Abandonados |->
                              [tentativas |-> lote[k].tentativas, rev |-> lote[k].rev]]]]
    /\ UNCHANGED <<lote, api, answers, requeues, late, faults>>

Untouched(e) == {k \in DOMAIN ex[e].seen : lote[k].rev = ex[e].seen[k].rev}
\* Variant: the listed rows are updated as they are.
RecuperarSemCondicao(e) ==
    /\ ex[e].pc = "recovering"
    /\ lote' = [k \in Keys |->
                   IF k \notin DOMAIN ex[e].seen THEN lote[k]
                   ELSE Written(k, IF ex[e].seen[k].tentativas >= MaxTentativas
                                   THEN "QUARENTENA" ELSE "PENDENTE")]
    /\ ex' = [ex EXCEPT ![e] = Resting]
    /\ UNCHANGED <<api, answers, requeues, late, faults>>

Recuperar(e) ==
    /\ ex[e].pc = "recovering"
    /\ lote' = [k \in Keys |->
                   IF k \notin Untouched(e) THEN lote[k]
                   ELSE Written(k, IF ex[e].seen[k].tentativas >= MaxTentativas
                                   THEN "QUARENTENA" ELSE "PENDENTE")]
    /\ ex' = [ex EXCEPT ![e] = Resting]
    /\ UNCHANGED <<api, answers, requeues, late, faults>>

-----------------------------------------------------------------------------
(***************************************************************************)
(* preparar_reprocessamento reads the status and, in a later transaction,  *)
(* writes the row without a condition.                                     *)
(***************************************************************************)
LerQuarentena(h, k) ==
    /\ api[h].pc = "none" /\ Is(k, "QUARENTENA") /\ requeues[k] < MaxRequeues
    /\ api' = [api EXCEPT ![h] = [pc |-> "requeue", key |-> k, payload |-> None]]
    /\ requeues' = [requeues EXCEPT ![k] = @ + 1]
    /\ UNCHANGED <<lote, ex, answers, late, faults>>

Reprocessar(h) ==
    /\ api[h].pc = "requeue"
    /\ Gravar(api[h].key, "PENDENTE")
    /\ api' = [api EXCEPT ![h] = NoRequest]
    /\ UNCHANGED <<ex, answers, requeues, late, faults>>

-----------------------------------------------------------------------------
\* Time passes for a batch that nobody is working on.
Working(k) == \E e \in Executors : ex[e].key = k
Envelhecer(k) ==
    /\ Is(k, "PROCESSANDO") /\ ~lote[k].old /\ ~Working(k)
    /\ lote' = [lote EXCEPT ![k].old = TRUE]
    /\ UNCHANGED <<ex, api, answers, requeues, late, faults>>

Fault(kind) == kind \in Faults /\ faults < MaxFaults /\ faults' = faults + 1

\* An execution takes longer than the processing timeout.
Demorar(k) ==
    /\ Fault("slow") /\ Is(k, "PROCESSANDO") /\ ~lote[k].old /\ Working(k)
    /\ lote' = [lote EXCEPT ![k].old = TRUE]
    /\ late' = late \cup {k}
    /\ UNCHANGED <<ex, api, answers, requeues>>

\* The process of an executor ends; open transactions are rolled back.
Crash(e) ==
    /\ Fault("crash") /\ ex[e].pc # "idle"
    /\ ex' = [ex EXCEPT ![e] = Resting]
    /\ UNCHANGED <<lote, api, answers, requeues, late>>

\* A transaction of the execution fails: the handler takes over; when its own
\* transaction fails, the cycle ends and the row stays as it is.
ErroDeBanco(e) ==
    /\ Fault("db") /\ ex[e].pc \in {"working", "failing"}
    /\ ex' = [ex EXCEPT ![e] = IF ex[e].pc = "working" THEN [@ EXCEPT !.pc = "failing"]
                               ELSE Resting]
    /\ UNCHANGED <<lote, api, answers, requeues, late>>

-----------------------------------------------------------------------------
Executar(e)   == Concluir(e) \/ Quarentenar(e) \/ ListarAbandonados(e) \/ Recuperar(e)
Responder(h)  == InserirLote(h) \/ Reprocessar(h)

Next ==
    \/ \E h \in Handlers, k \in Keys :
           LerQuarentena(h, k) \/ \E p \in Payloads : BuscarLote(h, k, p)
    \/ \E h \in Handlers : Responder(h)
    \/ \E e \in Executors : \/ Executar(e) \/ Crash(e) \/ ErroDeBanco(e)
                            \/ \E k \in Keys : Reivindicar(e, k)
    \/ \E k \in Keys : Envelhecer(k) \/ Demorar(k)

Spec == Init /\ [][Next]_vars

(***************************************************************************)
(* Fairness.  Requests are answered, the supervised worker goes through    *)
(* its cycle for ever (recovery first, then the oldest pending rows), and  *)
(* time passes.  A pending row is reached in the end because the rows are  *)
(* taken by age, hence the strong fairness per row.                        *)
(***************************************************************************)
Fairness ==
    /\ \A h \in Handlers : WF_vars(Responder(h))
    /\ \A e \in Executors : WF_vars(Executar(e))
    /\ \A k \in Keys : /\ SF_vars(\E e \in Executors : Reivindicar(e, k))
                       /\ WF_vars(Envelhecer(k))

FairSpec == Spec /\ Fairness
=============================================================================
