------------------------------ MODULE Central ------------------------------
(***************************************************************************)
(* The control plane of the runtime, "Central": work requests admitted by  *)
(* root cause, executed by workers and concluded on evidence               *)
(* (runtime/app/application/services/central_service.py, central_worker.py,*)
(* domain/central, infrastructure/repositories/central_store.py).          *)
(*                                                                         *)
(* The store is shared by replicas.  A read, a SET NX, an SADD and a       *)
(* compare-and-set that succeeds are one action each; what a replica keeps *)
(* between them is in its record.  A compare-and-set that loses is tried   *)
(* again on the new value; when five tries lose, or the process ends, the  *)
(* operation stops where it is: Abort.                                     *)
(*                                                                         *)
(* Whoever applies the plan is a replica: the loop of a worker, a cycle    *)
(* asked for with POST /worker/cycle, and GET /admission-plan and GET      *)
(* /next, which take the steps of a cycle up to the plan or the choice of  *)
(* an item and then stop, as Abort does.                                   *)
(*                                                                         *)
(* Left open: in which order one pass updates the requests of its plan,    *)
(* and which admitted request is picked first.  Taken as one step: listar, *)
(* which reads the index and then the requests.                            *)
(***************************************************************************)
EXTENDS Integers, FiniteSets, FiniteSetsExt

CONSTANTS
    Requests,      \* request ids: correlation id, project and title
    CauseOf,       \* the root cause of each request
    Priority,      \* the priority of each request, smaller is first
    CauseRank,     \* the alphabetical place of each root cause
    HumanGate,     \* requests the router sends to a person
    Unconfigured,  \* requests whose executor has no adapter
    Limite,        \* max_active_root_causes
    Checks,        \* REQUIRED_CHECKS
    Shas,
    Declared,      \* the SHAs, or None, each request may be registered with
    Reports,       \* the sets of check results an execution or a call may report
    Replicas,      \* who runs cycles, or the part of one that applies the plan
    Users,         \* clients that register, move and report, one call at a time
    UserMoves,     \* statuses a client may ask for
    UserReports,   \* whether clients record evidence
    MaxCalls,      \* bound: client calls but registrations
    MaxAborts,     \* bound: operations that stop half-way
    None

Results == {"PASS", "FAIL", "PENDING"}
Report  == UNION {[C -> Results] : C \in SUBSET Checks \ {{}}}
Status  == {"RECEIVED", "QUEUED", "ADMITTED", "EXECUTING", "AWAITING_EVIDENCE",
            "EVIDENCED", "BLOCKED", "CANCELLED"}
ACTIVE_STATUSES == {"ADMITTED", "EXECUTING", "AWAITING_EVIDENCE"}
WorkRequest == [status : Status, sha : Shas \cup {None}, born : Nat]

ASSUME CentralAssumption ==
    /\ Limite \in Nat \ {0} /\ MaxCalls \in Nat /\ MaxAborts \in Nat
    /\ IsFiniteSet(Requests)
    /\ Priority \in [Requests -> Nat]
    /\ \A r \in Requests : CauseRank[CauseOf[r]] \in Nat
    /\ \A r, s \in Requests : CauseRank[CauseOf[r]] = CauseRank[CauseOf[s]]
                                => CauseOf[r] = CauseOf[s]
    /\ HumanGate \subseteq Requests /\ Unconfigured \subseteq Requests
    /\ Reports \subseteq Report /\ UserReports \in BOOLEAN
    /\ UserMoves \subseteq Status
    /\ Declared \in [Requests -> SUBSET (Shas \cup {None})]
    /\ None \notin Shas /\ None \notin Requests /\ None \notin Status /\ None \notin WorkRequest
    /\ Replicas \cap Users = {}

VARIABLES
    req,     \* the stored requests: status, sha and order of creation
    index,   \* the set of ids that listar reads
    evid,    \* the current evidence record: sha and checks
    act,     \* the operation each replica and client is in
    passed,  \* history: the checks that were ever recorded as passed
    admit,   \* history: who has planned or admitted anything
    reopen,  \* history: requests a client put back, took for executed or recorded evidence for
    calls,   \* history: number of client calls but registrations
    aborts   \* history: number of operations stopped half-way

past == <<passed, admit, reopen, calls, aborts>>
vars == <<req, index, evid, act, past>>

Actors == Replicas \cup Users
Idle   == [pc |-> "idle", req |-> None, sha |-> None, report |-> None,
           est |-> None, goal |-> None, adm |-> {}, que |-> {}]

Init ==
    /\ req = [r \in Requests |-> None]
    /\ index = {}
    /\ evid = [r \in Requests |-> None]
    /\ act = [a \in Actors |-> Idle]
    /\ passed = {} /\ admit = {} /\ reopen = {} /\ calls = 0 /\ aborts = 0

At(a, pc) == act[a].pc = pc
Done(a)   == act' = [act EXCEPT ![a] = Idle]
St(r)     == IF req[r] = None THEN None ELSE req[r].status

-----------------------------------------------------------------------------
(***************************************************************************)
(* Evidence.  A check that is absent counts as pending.                    *)
(***************************************************************************)
DerivarStatus(checks) ==
    LET aprovadas == {c \in DOMAIN checks : checks[c] = "PASS"} IN
    CASE \E c \in DOMAIN checks : checks[c] = "FAIL" -> "BLOCKED"
      [] Checks \subseteq aprovadas                  -> "EVIDENCED"
      [] aprovadas # {} /\ ~(Checks \subseteq aprovadas) -> "PARTIAL"
      [] OTHER                                       -> "NOT_VALIDATED"

\* The same SHA accumulates results, the latest first; another SHA supersedes.
AplicarEvidencia(anterior, sha, checks) ==
    [sha |-> sha,
     checks |-> IF anterior = None \/ (anterior # None /\ anterior.sha # sha) THEN checks
                ELSE [c \in DOMAIN checks \cup DOMAIN anterior.checks |->
                         IF c \in DOMAIN checks THEN checks[c] ELSE anterior.checks[c]]]

StatusValidoParaSha(registro, sha) ==
    CASE registro = None -> "NOT_VALIDATED"
      [] registro # None /\ sha # None /\ registro.sha # sha -> "NOT_VALIDATED"
      [] OTHER -> DerivarStatus(registro.checks)

-----------------------------------------------------------------------------
(***************************************************************************)
(* The admission plan: causes with active work keep their place, the free  *)
(* places go to the first other causes by priority, age and name.          *)
(***************************************************************************)
Elegiveis == {r \in index : St(r) \in ACTIVE_STATUSES \cup {"RECEIVED", "QUEUED"}}
Ativas    == {CauseOf[r] : r \in {s \in index : St(s) \in ACTIVE_STATUSES}}

Ordem(c) ==
    LET itens == {r \in Elegiveis : CauseOf[r] = c} IN
    <<Min({Priority[r] : r \in itens}), Min({req[r].born : r \in itens}), CauseRank[c]>>

Antes(c, d) ==
    LET x == Ordem(c)
        y == Ordem(d)
    IN \/ x[1] < y[1]
       \/ x[1] = y[1] /\ x[2] < y[2]
       \/ x[1] = y[1] /\ x[2] = y[2] /\ x[3] < y[3]

\* Variant: the places in use are not subtracted.
CausasAdmitidasPorPasso ==
    LET candidatas == {CauseOf[r] : r \in Elegiveis} \ Ativas IN
    Ativas \cup {c \in candidatas : Cardinality({d \in candidatas : Antes(d, c)}) < Limite}

CausasAdmitidas ==
    LET candidatas == {CauseOf[r] : r \in Elegiveis} \ Ativas
        vagas      == Max({Limite - Cardinality(Ativas), 0})
    IN Ativas \cup {c \in candidatas : Cardinality({d \in candidatas : Antes(d, c)}) < vagas}

-----------------------------------------------------------------------------
(***************************************************************************)
(* The permitted transitions, and the operations on one request.           *)
(***************************************************************************)
Transicoes ==
    [RECEIVED          |-> {"QUEUED", "ADMITTED", "BLOCKED", "CANCELLED"},
     QUEUED            |-> {"ADMITTED", "BLOCKED", "CANCELLED"},
     ADMITTED          |-> {"EXECUTING", "QUEUED", "BLOCKED", "CANCELLED"},
     EXECUTING         |-> {"AWAITING_EVIDENCE", "BLOCKED", "CANCELLED"},
     AWAITING_EVIDENCE |-> {"EVIDENCED", "EXECUTING", "BLOCKED", "CANCELLED"},
     BLOCKED           |-> {"QUEUED", "ADMITTED", "CANCELLED"},
     EVIDENCED         |-> {},
     CANCELLED         |-> {}]

Permitted(r, s) == req[r] # None /\ s \in Transicoes[St(r)]

\* The compare-and-set of transicionar: refused, it writes nothing.
Transicionar(r, s) ==
    req' = IF Permitted(r, s) THEN [req EXCEPT ![r].status = s] ELSE req

\* Conclusion: read the request's SHA, look the evidence up, compare-and-set.
GateRead(a) ==
    /\ At(a, "gate_read")
    /\ IF req[act[a].req] = None THEN Done(a)
       ELSE act' = [act EXCEPT ![a].pc = "gate_check", ![a].sha = req[act[a].req].sha]
    /\ UNCHANGED <<req, index, evid, past>>

\* Variant: the evidence is not looked up.
GateUnchecked(a) ==
    /\ At(a, "gate_check")
    /\ act' = [act EXCEPT ![a].pc = "gate_cas"]
    /\ UNCHANGED <<req, index, evid, past>>

GateCheck(a) ==
    /\ At(a, "gate_check")
    /\ IF StatusValidoParaSha(evid[act[a].req], act[a].sha) = "EVIDENCED"
       THEN act' = [act EXCEPT ![a].pc = "gate_cas"]
       ELSE Done(a)
    /\ UNCHANGED <<req, index, evid, past>>

GateCas(a) ==
    /\ At(a, "gate_cas")
    /\ Transicionar(act[a].req, "EVIDENCED")
    /\ Done(a)
    /\ UNCHANGED <<index, evid, past>>

\* registrar_evidencia: the ledger first, then the request.
EvidenceWrite(a) ==
    LET r == act[a].req
        registro == AplicarEvidencia(evid[r], act[a].sha, act[a].report)
    IN /\ At(a, "ev_write")
       /\ evid' = [evid EXCEPT ![r] = registro]
       /\ act' = [act EXCEPT ![a].pc = "ev_align",
                             ![a].est = DerivarStatus(registro.checks)]
       /\ passed' = passed \cup {<<r, act[a].sha, c>> :
                                    c \in {k \in DOMAIN act[a].report : act[a].report[k] = "PASS"}}
       /\ UNCHANGED <<req, index, admit, reopen, calls, aborts>>

EvidenceAlign(a) ==
    LET r == act[a].req IN
    /\ At(a, "ev_align")
    /\ req' = [req EXCEPT ![r].sha = act[a].sha,
                          ![r].status = IF @ \in ACTIVE_STATUSES /\ act[a].est # "BLOCKED"
                                        THEN "AWAITING_EVIDENCE" ELSE @]
    /\ CASE act[a].goal = "conclude" /\ act[a].est = "EVIDENCED" ->
              act' = [act EXCEPT ![a].pc = "gate_read"]
         [] act[a].goal = "block" -> act' = [act EXCEPT ![a].pc = "block"]
         [] OTHER -> Done(a)
    /\ reopen' = IF a \in Users THEN reopen \cup {r} ELSE reopen
    /\ UNCHANGED <<index, evid, passed, admit, calls, aborts>>

-----------------------------------------------------------------------------
(***************************************************************************)
(* One cycle of a worker.                                                  *)
(***************************************************************************)
Planejar(a) ==
    /\ At(a, "idle") /\ index # {}
    /\ LET adm == {r \in Elegiveis : CauseOf[r] \in CausasAdmitidas} IN
       act' = [act EXCEPT ![a].pc = "apply", ![a].adm = adm, ![a].que = Elegiveis \ adm]
    /\ admit' = admit \cup {a}
    /\ UNCHANGED <<req, index, evid, passed, reopen, calls, aborts>>

\* Variant: only new requests are admitted, queued ones are forgotten.
PromoverOnlyNew(a, r) ==
    /\ At(a, "apply")
    /\ r \in IF act[a].adm # {} THEN act[a].adm ELSE act[a].que
    /\ req' = [req EXCEPT ![r].status =
                  IF @ # "RECEIVED" THEN @
                  ELSE IF r \in act[a].adm THEN "ADMITTED" ELSE "QUEUED"]
    /\ act' = [act EXCEPT ![a].adm = @ \ {r}, ![a].que = @ \ {r}]
    /\ UNCHANGED <<index, evid, past>>

\* _promover: the decision of the plan, without touching what has started.
Promover(a, r) ==
    /\ At(a, "apply")
    /\ r \in IF act[a].adm # {} THEN act[a].adm ELSE act[a].que
    /\ req' = [req EXCEPT ![r].status =
                  IF r \in act[a].adm
                  THEN IF @ \in {"RECEIVED", "QUEUED"} THEN "ADMITTED" ELSE @
                  ELSE IF @ = "RECEIVED" THEN "QUEUED" ELSE @]
    /\ act' = [act EXCEPT ![a].adm = @ \ {r}, ![a].que = @ \ {r}]
    /\ UNCHANGED <<index, evid, past>>

ProximoItem(a) ==
    LET candidatos == {r \in index : St(r) = "ADMITTED"} \ HumanGate IN
    /\ At(a, "apply") /\ act[a].adm = {} /\ act[a].que = {}
    /\ IF candidatos = {} THEN Done(a)
       ELSE \E r \in candidatos :
                act' = [act EXCEPT ![a].req = r,
                            ![a].pc = IF r \in Unconfigured THEN "block" ELSE "picked"]
    /\ UNCHANGED <<req, index, evid, past>>

\* Variant: a refused transition does not stop the cycle.
AssumirAnyway(a) ==
    LET r == act[a].req IN
    /\ At(a, "picked")
    /\ Transicionar(r, "EXECUTING")
    /\ act' = [act EXCEPT ![a].pc = "executing", ![a].sha = req[r].sha]
    /\ UNCHANGED <<index, evid, past>>

Assumir(a) ==
    LET r == act[a].req IN
    /\ At(a, "picked")
    /\ Transicionar(r, "EXECUTING")
    /\ IF Permitted(r, "EXECUTING")
       THEN act' = [act EXCEPT ![a].pc = "executing", ![a].sha = req[r].sha]
       ELSE Done(a)
    /\ UNCHANGED <<index, evid, past>>

\* The executor proves something, fails a check, or fails without a check.
\* A request without SHA is refused by the executor.
Executar(a) ==
    /\ At(a, "executing")
    /\ \/ act' = [act EXCEPT ![a].pc = "block"]
       \/ /\ act[a].sha # None
          /\ \E checks \in Reports :
                act' = [act EXCEPT ![a].pc = "ev_write", ![a].report = checks,
                            ![a].goal = IF DerivarStatus(checks) = "BLOCKED"
                                        THEN "block" ELSE "conclude"]
    /\ UNCHANGED <<req, index, evid, past>>

Bloquear(a) ==
    /\ At(a, "block")
    /\ Transicionar(act[a].req, "BLOCKED")
    /\ Done(a)
    /\ UNCHANGED <<index, evid, past>>

-----------------------------------------------------------------------------
(***************************************************************************)
(* Calls of the API.                                                       *)
(***************************************************************************)
\* A registration is not counted: it changes something once.
Call(u) == At(u, "idle") /\ calls < MaxCalls /\ calls' = calls + 1

Registrar(u, r) ==
    /\ At(u, "idle")
    /\ IF req[r] = None
       THEN /\ \E sha \in Declared[r] :
                 req' = [req EXCEPT ![r] =
                           [status |-> IF r \in HumanGate THEN "BLOCKED" ELSE "RECEIVED",
                            sha    |-> sha,
                            born   |-> Cardinality({s \in Requests : req[s] # None})]]
            /\ act' = [act EXCEPT ![u].pc = "sadd", ![u].req = r]
       ELSE UNCHANGED <<req, act>>
    /\ UNCHANGED <<index, evid, past>>

Sadd(u) ==
    /\ At(u, "sadd")
    /\ index' = index \cup {act[u].req}
    /\ Done(u)
    /\ UNCHANGED <<req, evid, past>>

PostTransition(u, r, s) ==
    /\ Call(u) /\ req[r] # None /\ s \in UserMoves
    /\ IF s = "EVIDENCED"
       THEN /\ act' = [act EXCEPT ![u].pc = "gate_read", ![u].req = r]
            /\ UNCHANGED req
       ELSE Transicionar(r, s) /\ UNCHANGED act
    /\ admit' = IF s = "ADMITTED" THEN admit \cup {u} ELSE admit
    /\ reopen' = IF \/ St(r) = "BLOCKED" /\ s \in {"QUEUED", "ADMITTED"}
                    \/ s = "AWAITING_EVIDENCE"
                 THEN reopen \cup {r} ELSE reopen
    /\ UNCHANGED <<index, evid, passed, aborts>>

PostEvidence(u, r) ==
    /\ Call(u) /\ UserReports /\ req[r] # None
    /\ \E sha \in Shas, checks \in Reports :
          act' = [act EXCEPT ![u].pc = "ev_write", ![u].req = r,
                             ![u].sha = sha, ![u].report = checks]
    /\ UNCHANGED <<req, index, evid, passed, admit, reopen, aborts>>

Abort(a) ==
    /\ ~At(a, "idle") /\ aborts < MaxAborts
    /\ aborts' = aborts + 1
    /\ Done(a)
    /\ UNCHANGED <<req, index, evid, passed, admit, reopen, calls>>

-----------------------------------------------------------------------------
Operation(a) == GateRead(a) \/ GateCheck(a) \/ GateCas(a) \/ EvidenceWrite(a) \/ EvidenceAlign(a)

Cycle(a) ==
    \/ Planejar(a) \/ ProximoItem(a) \/ Assumir(a) \/ Executar(a) \/ Bloquear(a)
    \/ \E r \in Requests : Promover(a, r)

Next ==
    \/ \E a \in Actors : Operation(a) \/ Abort(a)
    \/ \E a \in Replicas : Cycle(a)
    \/ \E u \in Users : \/ Sadd(u)
                        \/ \E r \in Requests : \/ Registrar(u, r) \/ PostEvidence(u, r)
                                               \/ \E s \in Status : PostTransition(u, r, s)

Spec == Init /\ [][Next]_vars

\* The worker loop never ends on its own, nor does a call once begun.  An
\* execution that may go either way is not required to go one way.
FairSpec ==
    /\ Spec
    /\ \A a \in Replicas : WF_vars(Operation(a) \/ Cycle(a))
    /\ \A u \in Users : WF_vars(Operation(u) \/ Sadd(u))

=============================================================================
