----------------------------- MODULE MCCentral -----------------------------
(***************************************************************************)
(* What the Central is checked for, and the instance that TLC runs: two    *)
(* requests of two root causes, of which the second is the more urgent and *)
(* has no executor.                                                        *)
(***************************************************************************)
EXTENDS Central, TLC

CONSTANTS r1, r2, c1, c2, k1, k2, s1

MCCauseOf   == (r1 :> c1) @@ (r2 :> c2)
MCPriority  == (r1 :> 2) @@ (r2 :> 0)
MCCauseRank == (c1 :> 1) @@ (c2 :> 2)
MCDeclared  == (r1 :> {s1, None}) @@ (r2 :> {None})
MCReports   == {[c \in {k1, k2} |-> "PASS"], k1 :> "PASS", k2 :> "FAIL"}

ReplicaSymmetry == Permutations(Replicas)

\* At most Limite root causes have active work (wip_policy.py plan,
\* central_service.py aplicar_admissao), although the plan and each admission
\* are separate steps between which people register, block and cancel, as long
\* as one replica plans: two plans together may admit more, and a GET of the
\* plan beside the worker is a second one.
WipLimit ==
    (\E a \in Replicas : admit \subseteq {a}) => Cardinality(Ativas) <= Limite

\* Every required check of r was once recorded as passed for the SHA.
ProvenFor(r, sha) ==
    \A c \in Checks : \E k \in Shas : (k = sha \/ sha = None) /\ <<r, k, c>> \in passed

\* A request is concluded only if every required check had passed for the SHA
\* it had when its conclusion was asked for (central_service.py transicionar),
\* whatever was recorded for other SHAs meanwhile, and a conclusion or a
\* cancellation stays (_TRANSICOES): no late worker, late evidence or replay
\* undoes it.
ConcludedOnEvidence ==
    [][\A r \in Requests :
          /\ (St(r) # "EVIDENCED" /\ St(r)' = "EVIDENCED")
                 => \E a \in Actors : At(a, "gate_cas") /\ act[a].req = r
                                       /\ ProvenFor(r, act[a].sha)
          /\ St(r) \in {"EVIDENCED", "CANCELLED"} => St(r)' = St(r)]_vars

\* No two workers execute one request at the same time (central_worker.py
\* executar_um_ciclo), unless a client reopened it, took it for executed or
\* recorded evidence for it while it was executed.
OneExecutor ==
    \A a, b \in Replicas :
        (a # b /\ At(a, "executing") /\ At(b, "executing") /\ act[a].req \notin reopen)
            => act[a].req # act[b].req

\* An execution never ends in silence (central_worker.py): a request that is
\* EXECUTING gets evidence, a block or a person's decision, unless the
\* operation stops half-way, as nothing takes it up again, or a client recorded
\* evidence for the request or reopened it: a check that failed for the same
\* SHA before, and is not repeated, makes the new record BLOCKED, and neither
\* registrar_evidencia nor _concluir then moves the request.
NoSilence ==
    \A r \in Requests :
        St(r) = "EXECUTING" ~> (St(r) # "EXECUTING" \/ aborts > 0 \/ r \in reopen)

\* No cause starves: every listed request that a machine can execute is in
\* the end concluded, blocked or cancelled, unless some request waits for
\* evidence or is left EXECUTING as above (wip_policy.py plan).
NoStarvation ==
    \A r \in Requests \ HumanGate :
        r \in index ~> \/ St(r) \in {"EVIDENCED", "BLOCKED", "CANCELLED"}
                      \/ aborts > 0 \/ reopen # {}
                      \/ \E q \in Requests : St(q) = "AWAITING_EVIDENCE"

\* Every request that a machine can execute is taken up and decided, and no
\* execution of any request ends in silence (wip_policy.py, central_worker.py).
Decided == NoStarvation /\ NoSilence
=============================================================================
