----------------------------- MODULE EmailQueue -----------------------------
(***************************************************************************)
(* The mail queue of the daily report (backend/app/services/               *)
(* movimento_email): the job that queues a report, the consumers that      *)
(* reserve a lot and send it, and the circuit breaker each consumer keeps  *)
(* in its process.  An endpoint call runs to its end before its process    *)
(* takes the next one, so calls overlap across processes only.             *)
(*                                                                         *)
(* A row is read into the session and written back by commit, which sends  *)
(* the columns that were changed (Flush).  Time is the mark a reservation  *)
(* carries: fresh, or old once it is past the timeout.  The text of the    *)
(* mail and the audit rows are left out; a failed audit commit is not.     *)
(***************************************************************************)
EXTENDS Circuit, FiniteSets

CONSTANTS
    Items,        \* ids of movimento_email_dispatch
    Consumers,    \* processes that serve POST /fila/consumir
    LoteMax,      \* lote_max
    MaxRetries,   \* max_retries of a row
    Faults,       \* the faults of an instance: see FaultKinds
    MaxFaults,    \* bound: faults in one behaviour
    None

FaultKinds == {"crash", "db", "lost", "slow", "overlap"}

ASSUME EmailAssumption ==
    /\ None \notin Items /\ Faults \subseteq FaultKinds
    /\ LoteMax \in Nat \ {0} /\ MaxRetries \in Nat \ {0}
    /\ MaxFaults \in Nat /\ IsFiniteSet(Consumers)

VARIABLES
    fila,      \* the rows of movimento_email_dispatch
    consumer,  \* the calls of consumir_fila_email_movimento
    circuit,   \* the circuit breaker of each process
    mails,     \* history: mails the provider accepted for each row
    sends,     \* history: calls of sender.enviar that reached the provider
    opened,    \* history: calls that ended because the circuit was open
    faults     \* history: number of faults, and of calls that overlap another

vars == <<fila, consumer, circuit, mails, sends, opened, faults>>

-----------------------------------------------------------------------------
Status == {"PENDING", "PROCESSING", "SENT", "ERROR"}
\* Counters of effects stop at the first value no property allows.
CountLimit == MaxRetries + MaxFaults + 1
CountOne(f, i) == [f EXCEPT ![i] = IF @ < CountLimit THEN @ + 1 ELSE @]

\* retry_count stops one above max_retries: it is only compared with it.
RetryLimit == MaxRetries + 1
OneMore(n) == IF n < RetryLimit THEN n + 1 ELSE n

Row == [status : Status, retry : 0..RetryLimit, reserved : {"no", "fresh", "old"}]
ASSUME NoneIsNoRow == None \notin Row

\* A call: the rows its session has loaded, those still to do, the one in hand.
Nothing == [i \in {} |-> None]
Resting == [pc |-> "idle", rows |-> Nothing, lote |-> {}, item |-> None, attempt |-> 0]
ConsumerPc == {"idle", "release", "list", "reserve", "batch", "send", "try",
               "sent", "failed", "audit"}

Init ==
    /\ fila = [i \in Items |-> None]
    /\ consumer = [c \in Consumers |-> Resting]
    /\ circuit = [c \in Consumers |-> NewCircuit]
    /\ mails = [i \in Items |-> 0] /\ sends = [i \in Items |-> 0]
    /\ opened = FALSE /\ faults = 0

At(c, pc)   == consumer[c].pc = pc
Goto(c, pc) == consumer' = [consumer EXCEPT ![c].pc = pc]
Is(i, s)    == fila[i] # None /\ fila[i].status = s
Load(S)     == [i \in S |-> fila[i]]

Fault(kind) == kind \in Faults /\ faults < MaxFaults /\ faults' = faults + 1

\* A call starts: alone, or while another process is in one.
Comecar(c) ==
    \/ (\A b \in Consumers : At(b, "idle")) /\ UNCHANGED faults
    \/ (\E b \in Consumers \ {c} : ~At(b, "idle")) /\ Fault("overlap")

\* After a commit nothing in the session is loaded.
Committed(c, pc) == consumer' = [consumer EXCEPT ![c] = [@ EXCEPT !.pc = pc, !.rows = Nothing]]

\* commit writes the columns whose value differs from the one loaded.
Flush(loaded, changed) ==
    [i \in Items |->
        IF i \in DOMAIN loaded
        THEN [f \in DOMAIN fila[i] |-> IF changed[i][f] # loaded[i][f]
                                       THEN changed[i][f] ELSE fila[i][f]]
        ELSE fila[i]]

-----------------------------------------------------------------------------
\* executar_job_diario: a row for each call, whatever the day has already.
Enfileirar(i) ==
    /\ fila[i] = None
    /\ fila' = [fila EXCEPT ![i] = [status |-> "PENDING", retry |-> 0, reserved |-> "no"]]
    /\ UNCHANGED <<consumer, circuit, mails, sends, opened, faults>>

(***************************************************************************)
(* limpar_reservas_travadas and reservar_lote: rows are read, changed in   *)
(* the session and written by one commit, which looks at nothing.          *)
(***************************************************************************)
LerTravadas(c) ==
    LET stuck == {i \in Items : Is(i, "PROCESSING") /\ fila[i].reserved = "old"} IN
    /\ At(c, "idle") /\ Comecar(c)
    /\ consumer' = [consumer EXCEPT ![c] =
           [Resting EXCEPT !.pc = "release", !.rows = Load(stuck)]]
    /\ UNCHANGED <<fila, circuit, mails, sends, opened>>

\* Variant: the reservation mark is cleared, the status is not.
LiberarSoMarca(c) ==
    LET rows == consumer[c].rows IN
    /\ At(c, "release")
    /\ fila' = Flush(rows, [i \in DOMAIN rows |-> [rows[i] EXCEPT !.reserved = "no"]])
    /\ Committed(c, "list")
    /\ UNCHANGED <<circuit, mails, sends, opened, faults>>

Liberar(c) ==
    LET rows == consumer[c].rows IN
    /\ At(c, "release")
    /\ fila' = Flush(rows, [i \in DOMAIN rows |->
                   [rows[i] EXCEPT !.status = "PENDING", !.reserved = "no"]])
    /\ Committed(c, "list")
    /\ UNCHANGED <<circuit, mails, sends, opened, faults>>

\* Up to lote_max pending rows (the oldest, an order left open here).
LerPendentes(c) ==
    LET pending == {i \in Items : Is(i, "PENDING")} IN
    /\ At(c, "list")
    /\ \E lot \in SUBSET pending :
           /\ Cardinality(lot) <= LoteMax
           /\ lot # pending => Cardinality(lot) = LoteMax
           /\ consumer' = [consumer EXCEPT ![c] =
                  [Resting EXCEPT !.pc = "reserve", !.rows = Load(lot), !.lote = lot]]
    /\ UNCHANGED <<fila, circuit, mails, sends, opened, faults>>

Reservar(c) ==
    LET rows == consumer[c].rows IN
    /\ At(c, "reserve")
    /\ fila' = Flush(rows, [i \in DOMAIN rows |->
                   [rows[i] EXCEPT !.status = "PROCESSING", !.reserved = "fresh"]])
    /\ Committed(c, "batch")
    /\ UNCHANGED <<circuit, mails, sends, opened, faults>>

-----------------------------------------------------------------------------
\* The next row is loaded again: every commit expired the session.  Its mail
\* is built and sent, unless the circuit is open: then the error is none of
\* those the call handles, and the call ends.
Preparar(c, i) ==
    /\ At(c, "batch") /\ i \in consumer[c].lote
    /\ consumer' = [consumer EXCEPT ![c] =
           [@ EXCEPT !.pc = "send", !.rows = Load({i}), !.item = i]]
    /\ UNCHANGED <<fila, circuit, mails, sends, opened, faults>>

Guard(c) ==
    /\ At(c, "send")
    /\ IF IsOpen(circuit[c])
       THEN /\ consumer' = [consumer EXCEPT ![c] = Resting]
            /\ opened' = TRUE
            /\ UNCHANGED sends
       ELSE /\ consumer' = [consumer EXCEPT ![c] = [@ EXCEPT !.pc = "try", !.attempt = 1]]
            /\ sends' = CountOne(sends, consumer[c].item)
            /\ UNCHANGED opened
    /\ UNCHANGED <<fila, circuit, mails, faults>>

\* An attempt fails for a while: the next one, or EnvioEmailError.
FalharTentativa(c) ==
    /\ At(c, "try")
    /\ IF consumer[c].attempt < MaxAttempts
       THEN /\ consumer' = [consumer EXCEPT ![c].attempt = @ + 1]
            /\ UNCHANGED circuit
       ELSE /\ Goto(c, "failed")
            /\ circuit' = [circuit EXCEPT ![c] = RecordFailure(@)]

Falhar(c) ==
    /\ FalharTentativa(c)
    /\ UNCHANGED <<fila, mails, sends, opened, faults>>

\* The provider accepts the mail.
Enviar(c) ==
    /\ At(c, "try")
    /\ mails' = CountOne(mails, consumer[c].item)
    /\ circuit' = [circuit EXCEPT ![c] = RecordSuccess(@)]
    /\ Goto(c, "sent")
    /\ UNCHANGED <<fila, sends, opened, faults>>

\* The provider refuses the mail for good: EnvioEmailError, and no record.
Recusar(c) ==
    /\ At(c, "try")
    /\ Goto(c, "failed")
    /\ UNCHANGED <<fila, circuit, mails, sends, opened, faults>>

MarcarEnviado(c) ==
    LET rows == consumer[c].rows IN
    /\ At(c, "sent")
    /\ fila' = Flush(rows, [i \in DOMAIN rows |-> [rows[i] EXCEPT !.status = "SENT"]])
    /\ Committed(c, "audit")
    /\ UNCHANGED <<circuit, mails, sends, opened, faults>>

\* Variants: given up one send early; the failure is not counted.
MarcarErroCedo(c) ==
    LET rows == consumer[c].rows IN
    /\ At(c, "failed")
    /\ fila' = Flush(rows, [i \in DOMAIN rows |->
                   [rows[i] EXCEPT !.retry = OneMore(@), !.reserved = "no",
                       !.status = IF rows[i].retry + 2 >= MaxRetries THEN "ERROR" ELSE "PENDING"]])
    /\ Committed(c, "audit")
    /\ UNCHANGED <<circuit, mails, sends, opened, faults>>

MarcarErroSemContar(c) ==
    LET rows == consumer[c].rows IN
    /\ At(c, "failed")
    /\ fila' = Flush(rows, [i \in DOMAIN rows |->
                   [rows[i] EXCEPT !.reserved = "no", !.status = "PENDING"]])
    /\ Committed(c, "audit")
    /\ UNCHANGED <<circuit, mails, sends, opened, faults>>

MarcarErro(c) ==
    LET rows == consumer[c].rows IN
    /\ At(c, "failed")
    /\ fila' = Flush(rows, [i \in DOMAIN rows |->
                   [rows[i] EXCEPT !.retry = OneMore(@), !.reserved = "no",
                       !.status = IF rows[i].retry + 1 >= MaxRetries THEN "ERROR" ELSE "PENDING"]])
    /\ Committed(c, "audit")
    /\ UNCHANGED <<circuit, mails, sends, opened, faults>>

\* registrar_evento, and on to the rest of the lot.
NextRow(r) == [r EXCEPT !.pc = "batch", !.item = None, !.lote = @ \ {r.item}, !.attempt = 0]
Auditar(c) ==
    /\ At(c, "audit")
    /\ consumer' = [consumer EXCEPT ![c] = NextRow(consumer[c])]
    /\ UNCHANGED <<fila, circuit, mails, sends, opened, faults>>

Terminar(c) ==
    /\ At(c, "batch") /\ consumer[c].lote = {}
    /\ consumer' = [consumer EXCEPT ![c] = Resting]
    /\ UNCHANGED <<fila, circuit, mails, sends, opened, faults>>

-----------------------------------------------------------------------------
\* Time: a reservation no call holds gets old, a cooldown passes.
Held(i) == \E c \in Consumers : i \in consumer[c].lote
Envelhecer(i) ==
    /\ Is(i, "PROCESSING") /\ fila[i].reserved = "fresh" /\ ~Held(i)
    /\ fila' = [fila EXCEPT ![i].reserved = "old"]
    /\ UNCHANGED <<consumer, circuit, mails, sends, opened, faults>>

Esfriar(c) ==
    /\ IsOpen(circuit[c])
    /\ circuit' = [circuit EXCEPT ![c] = Older(@)]
    /\ UNCHANGED <<fila, consumer, mails, sends, opened, faults>>

\* A lot takes longer than the timeout of its reservations.
Demorar(i) ==
    /\ Fault("slow") /\ Is(i, "PROCESSING") /\ fila[i].reserved = "fresh" /\ Held(i)
    /\ fila' = [fila EXCEPT ![i].reserved = "old"]
    /\ UNCHANGED <<consumer, circuit, mails, sends, opened>>

\* The provider accepted the mail but its answer is lost: a failed attempt.
RespostaPerdida(c) ==
    /\ Fault("lost") /\ FalharTentativa(c)
    /\ mails' = CountOne(mails, consumer[c].item)
    /\ UNCHANGED <<fila, sends, opened>>

\* A query or a commit fails: nothing is written and the call ends.
ErroBanco(c) ==
    /\ Fault("db") /\ consumer[c].pc \notin {"idle", "send", "try"}
    /\ consumer' = [consumer EXCEPT ![c] = Resting]
    /\ UNCHANGED <<fila, circuit, mails, sends, opened>>

\* The process dies; its circuit breaker dies with it.
Crash(c) ==
    /\ Fault("crash") /\ ~At(c, "idle")
    /\ consumer' = [consumer EXCEPT ![c] = Resting]
    /\ circuit' = [circuit EXCEPT ![c] = NewCircuit]
    /\ UNCHANGED <<fila, mails, sends, opened>>

-----------------------------------------------------------------------------
Consumir(c) ==
    \/ LerTravadas(c) \/ Liberar(c) \/ LerPendentes(c) \/ Reservar(c)
    \/ Guard(c) \/ Falhar(c) \/ Enviar(c) \/ Recusar(c)
    \/ MarcarEnviado(c) \/ MarcarErro(c) \/ Auditar(c) \/ Terminar(c)
    \/ \E i \in Items : Preparar(c, i)

Next ==
    \/ \E i \in Items : Enfileirar(i) \/ Envelhecer(i) \/ Demorar(i)
    \/ \E c \in Consumers : \/ Consumir(c) \/ Esfriar(c)
                            \/ RespostaPerdida(c) \/ ErroBanco(c) \/ Crash(c)

Spec == Init /\ [][Next]_vars

\* Fairness: the queue keeps being consumed, and time passes.
Fairness ==
    /\ \A c \in Consumers : WF_vars(Consumir(c)) /\ WF_vars(Esfriar(c))
    /\ \A i \in Items : WF_vars(Envelhecer(i))

FairSpec == Spec /\ Fairness
=============================================================================
