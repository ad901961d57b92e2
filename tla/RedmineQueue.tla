---------------------------- MODULE RedmineQueue ----------------------------
(***************************************************************************)
(* The worker of the Redmine synchronisation queue                         *)
(* (backend/app/services/redmine_sync_queue.py).  The queue is a Dataverse *)
(* table that a Power Automate flow fills; a scheduler calls the endpoint  *)
(* that processes a lot, and two calls may overlap.  One action is one     *)
(* request to Dataverse, or one attempt at Redmine (criar_issue_generica), *)
(* which may be several requests or none.                                  *)
(*                                                                         *)
(* Time is a flag per row: old says that cr85a_reservedat is past the      *)
(* timeout of reservations.  The audit log and the optional issue id of a  *)
(* row are left out: both are best effort and never read back.             *)
(***************************************************************************)
EXTENDS Naturals, FiniteSets

CONSTANTS
    Items,          \* rows of cr85a_redminequeue
    AgileRows,      \* rows of cr85a_agilesync, the planner's table
    Links,          \* the rows of the planner that the correlation ids of the
                    \* items may find, None where there is no id or no row
    Runs,           \* calls of processar_fila_redmine in progress
    MaxTentativas,  \* REDMINE_SYNC_MAX_TENTATIVAS
    LoteMax,        \* REDMINE_SYNC_LOTE_MAX
    Faults,         \* the faults of an instance: see FaultKinds
    MaxFaults,      \* bound: faults in one behaviour
    None

FaultKinds == {"dataverse", "crash", "lost", "slow", "overlap"}

ASSUME RedmineAssumption ==
    /\ None \notin Items \cup AgileRows /\ Links \subseteq [Items -> AgileRows \cup {None}]
    /\ Faults \subseteq FaultKinds
    /\ MaxTentativas \in Nat \ {0} /\ LoteMax \in Nat \ {0} /\ MaxFaults \in Nat
    /\ IsFiniteSet(Runs)

VARIABLES
    fila,    \* the rows of the queue
    agile,   \* cr85a_agilesync: the row that the correlation id of each item
             \* finds, and the cr85a_plannerstatus of each row
    issues,  \* issues that exist in Redmine for each item
    run,     \* the calls in progress
    attempts, \* history: calls of criar_issue_generica for each item
    faults   \* history: number of faults, and of calls that overlap another

vars == <<fila, agile, issues, run, attempts, faults>>

-----------------------------------------------------------------------------
Status == {"PENDING", "PROCESSING", "SENT", "ERROR"}
Row    == [status : Status, retry : Nat, old : BOOLEAN]
ASSUME NoneIsNoRow == None \notin Row
\* Counters of effects stop at the first value no property allows.
CountLimit == MaxTentativas + MaxFaults + 1
CountOne(f, i) == [f EXCEPT ![i] = IF @ < CountLimit THEN @ + 1 ELSE @]

\* A call: the stuck rows to release, the lot with each item's retrycount as
\* listed, the item in hand.
RunPc   == {"idle", "release", "batch", "create", "created", "failed",
            "fallback", "synced", "unsynced"}
EmptyLot == [i \in {} |-> 0]
Resting  == [pc |-> "idle", stuck |-> {}, lote |-> EmptyLot, item |-> None]

Init ==
    /\ fila = [i \in Items |-> None]
    /\ agile \in [row : Links, status : {[c \in AgileRows |-> "-"]}]
    /\ issues = [i \in Items |-> 0] /\ attempts = [i \in Items |-> 0]
    /\ run = [w \in Runs |-> Resting]
    /\ faults = 0

At(w, pc)   == run[w].pc = pc
Goto(w, pc) == run' = [run EXCEPT ![w].pc = pc]
Is(i, s)    == fila[i] # None /\ fila[i].status = s
Without(f, i) == [j \in DOMAIN f \ {i} |-> f[j]]

Fault(kind) == kind \in Faults /\ faults < MaxFaults /\ faults' = faults + 1

\* A call starts: alone, or while another one is in progress.
Comecar(w) ==
    \/ (\A v \in Runs : At(v, "idle")) /\ UNCHANGED faults
    \/ (\E v \in Runs \ {w} : ~At(v, "idle")) /\ Fault("overlap")

-----------------------------------------------------------------------------
\* The flow adds a row.
Enfileirar(i) ==
    /\ fila[i] = None
    /\ fila' = [fila EXCEPT ![i] = [status |-> "PENDING", retry |-> 0, old |-> FALSE]]
    /\ UNCHANGED <<agile, issues, run, attempts, faults>>

(***************************************************************************)
(* limpar_reservas_travadas: the stuck rows are listed, then each is put   *)
(* back, whatever has become of it.                                        *)
(***************************************************************************)
\* Variant: reservations are never released.
ListarNenhuma(w) ==
    /\ At(w, "idle") /\ Comecar(w)
    /\ run' = [run EXCEPT ![w] = [Resting EXCEPT !.pc = "release"]]
    /\ UNCHANGED <<fila, agile, issues, attempts>>

ListarTravadas(w) ==
    /\ At(w, "idle") /\ Comecar(w)
    /\ run' = [run EXCEPT ![w] = [Resting EXCEPT !.pc = "release",
                  !.stuck = {i \in Items : Is(i, "PROCESSING") /\ fila[i].old}]]
    /\ UNCHANGED <<fila, agile, issues, attempts>>

LiberarReserva(w, i) ==
    /\ At(w, "release") /\ i \in run[w].stuck
    /\ fila' = [fila EXCEPT ![i].status = "PENDING", ![i].old = FALSE]
    /\ run' = [run EXCEPT ![w].stuck = @ \ {i}]
    /\ UNCHANGED <<agile, issues, attempts, faults>>

\* The lot: up to LoteMax pending rows (the oldest, an order left open here).
ListarPendentes(w) ==
    LET pending == {i \in Items : Is(i, "PENDING")} IN
    /\ At(w, "release") /\ run[w].stuck = {}
    /\ \E lot \in SUBSET pending :
           /\ Cardinality(lot) <= LoteMax
           /\ lot # pending => Cardinality(lot) = LoteMax
           /\ run' = [run EXCEPT ![w] = [Resting EXCEPT !.pc = "batch",
                         !.lote = [i \in lot |-> fila[i].retry]]]
    /\ UNCHANGED <<fila, agile, issues, attempts, faults>>

\* The reservation is a PATCH without a condition on the status.
Reservar(w, i) ==
    /\ At(w, "batch") /\ i \in DOMAIN run[w].lote
    /\ fila' = [fila EXCEPT ![i].status = "PROCESSING", ![i].old = FALSE]
    /\ run' = [run EXCEPT ![w].pc = "create", ![w].item = i]
    /\ UNCHANGED <<agile, issues, attempts, faults>>

(***************************************************************************)
(* criar_issue_generica, through call_with_retry.  A try that cannot reach *)
(* Redmine (URLError) creates nothing and is repeated, so an attempt is    *)
(* one issue at most.  It ends in an IntegracaoError without any request   *)
(* when Redmine is not configured or the circuit is open, and after        *)
(* requests when an HTTP status refuses it or no try reaches Redmine.      *)
(* Either way the item has had an attempt.                                 *)
(***************************************************************************)
IssueCriada(w)   == Goto(w, "created") /\ issues' = CountOne(issues, run[w].item)
IssueRecusada(w) == Goto(w, "failed") /\ UNCHANGED issues

CriarIssue(w) ==
    /\ At(w, "create")
    /\ IssueCriada(w) \/ IssueRecusada(w)
    /\ attempts' = CountOne(attempts, run[w].item)
    /\ UNCHANGED <<fila, agile, faults>>

\* Variant: only the issue id is stored.
MarcarSoIssue(w) ==
    /\ At(w, "created")
    /\ Goto(w, "synced")
    /\ UNCHANGED <<fila, agile, issues, attempts, faults>>

MarcarEnviado(w) ==
    /\ At(w, "created")
    /\ fila' = [fila EXCEPT ![run[w].item].status = "SENT"]
    /\ Goto(w, "synced")
    /\ UNCHANGED <<agile, issues, attempts, faults>>

\* Variant: one attempt too few.
MarcarFalhaCedo(w) ==
    LET i == run[w].item
        n == run[w].lote[i] + 1 IN
    /\ At(w, "failed")
    /\ fila' = [fila EXCEPT ![i].status = IF n + 1 >= MaxTentativas THEN "ERROR" ELSE "PENDING",
                            ![i].retry = n]
    /\ Goto(w, "unsynced")
    /\ UNCHANGED <<agile, issues, attempts, faults>>

MarcarFalha(w) ==
    LET i == run[w].item
        n == run[w].lote[i] + 1 IN
    /\ At(w, "failed")
    /\ fila' = [fila EXCEPT ![i].status = IF n >= MaxTentativas THEN "ERROR" ELSE "PENDING",
                            ![i].retry = n]
    /\ Goto(w, "unsynced")
    /\ UNCHANGED <<agile, issues, attempts, faults>>

\* The full update was refused: the status alone is written, not the count.
MarcarSoStatus(w) ==
    LET i == run[w].item
        n == run[w].lote[i] + 1 IN
    /\ At(w, "fallback")
    /\ fila' = [fila EXCEPT ![i].status = IF n >= MaxTentativas THEN "ERROR" ELSE "PENDING"]
    /\ Goto(w, "unsynced")
    /\ UNCHANGED <<agile, issues, attempts, faults>>

\* The item is done: the call goes on with its lot.
NextItem(w) == [run[w] EXCEPT !.pc = "batch", !.item = None,
                              !.lote = Without(@, run[w].item)]

\* The row of the planner is looked up by the correlation id, which items may
\* share.  An item without one, or whose id finds no row, updates nothing.
AtualizarAgilesync(w) ==
    LET c == agile.row[run[w].item] IN
    /\ run[w].pc \in {"synced", "unsynced"}
    /\ \/ c = None /\ UNCHANGED agile
       \/ /\ c # None
          /\ agile' = [agile EXCEPT !.status[c] = IF At(w, "synced") THEN "SYNCED" ELSE "ERROR"]
    /\ run' = [run EXCEPT ![w] = NextItem(w)]
    /\ UNCHANGED <<fila, issues, attempts, faults>>

Terminar(w) ==
    /\ At(w, "batch") /\ run[w].lote = EmptyLot
    /\ run' = [run EXCEPT ![w] = Resting]
    /\ UNCHANGED <<fila, agile, issues, attempts, faults>>

-----------------------------------------------------------------------------
\* Time passes for a reservation that no call is working on.
Held(i) == \E w \in Runs : run[w].item = i
Envelhecer(i) ==
    /\ Is(i, "PROCESSING") /\ ~fila[i].old /\ ~Held(i)
    /\ fila' = [fila EXCEPT ![i].old = TRUE]
    /\ UNCHANGED <<agile, issues, run, attempts, faults>>

\* The reservation of an item outlives its timeout while it is at work.
Demorar(i) ==
    /\ Fault("slow") /\ Is(i, "PROCESSING") /\ ~fila[i].old /\ Held(i)
    /\ fila' = [fila EXCEPT ![i].old = TRUE]
    /\ UNCHANGED <<agile, issues, run, attempts>>

\* Dataverse refuses a request.  A release or a reservation is skipped, the
\* update of the planner is best effort, the update after a failure falls
\* back to the status alone; anywhere else the error ends the call.
ErroDataverse(w) ==
    /\ Fault("dataverse")
    /\ \/ /\ At(w, "failed")
          /\ Goto(w, "fallback")
       \/ /\ run[w].pc \in {"synced", "unsynced"}
          /\ run' = [run EXCEPT ![w] = NextItem(w)]
       \/ /\ \/ At(w, "release") /\ run[w].stuck = {}
             \/ run[w].pc \in {"created", "fallback"}
          /\ run' = [run EXCEPT ![w] = Resting]
    /\ UNCHANGED <<fila, agile, issues, attempts>>

ErroDataverseItem(w, i) ==
    /\ Fault("dataverse")
    /\ \/ At(w, "release") /\ i \in run[w].stuck
          /\ run' = [run EXCEPT ![w].stuck = @ \ {i}]
       \/ At(w, "batch") /\ i \in DOMAIN run[w].lote
          /\ run' = [run EXCEPT ![w].lote = Without(@, i)]
    /\ UNCHANGED <<fila, agile, issues, attempts>>

\* The answer of Redmine is lost, and whether the issue exists is unknown.  A
\* timeout while it is read is none of the errors handled, so the call ends; an
\* error status from a gateway is taken for a refusal.
RespostaPerdida(w) ==
    LET i == run[w].item IN
    /\ Fault("lost") /\ At(w, "create")
    /\ issues' \in {issues, CountOne(issues, i)}
    /\ attempts' = CountOne(attempts, i)
    /\ run' = [run EXCEPT ![w] = Resting] \/ Goto(w, "failed")
    /\ UNCHANGED <<fila, agile>>

Crash(w) ==
    /\ Fault("crash") /\ ~At(w, "idle")
    /\ run' = [run EXCEPT ![w] = Resting]
    /\ UNCHANGED <<fila, agile, issues, attempts>>

-----------------------------------------------------------------------------
Processar(w) ==
    \/ ListarTravadas(w) \/ ListarPendentes(w) \/ CriarIssue(w) \/ MarcarEnviado(w)
    \/ MarcarFalha(w) \/ MarcarSoStatus(w) \/ AtualizarAgilesync(w) \/ Terminar(w)
    \/ \E i \in Items : LiberarReserva(w, i) \/ Reservar(w, i)

Next ==
    \/ \E i \in Items : Enfileirar(i) \/ Envelhecer(i) \/ Demorar(i)
    \/ \E w \in Runs : \/ Processar(w) \/ ErroDataverse(w) \/ RespostaPerdida(w) \/ Crash(w)
                       \/ \E i \in Items : ErroDataverseItem(w, i)

Spec == Init /\ [][Next]_vars

\* Fairness: the scheduler keeps calling the endpoint, and time passes.
Fairness ==
    /\ \A w \in Runs : WF_vars(Processar(w))
    /\ \A i \in Items : WF_vars(Envelhecer(i))

FairSpec == Spec /\ Fairness
=============================================================================
