-------------------------- MODULE MCPentahoBatches --------------------------
(***************************************************************************)
(* What the Pentaho batches are checked for, and the instances TLC runs.   *)
(***************************************************************************)
EXTENDS PentahoBatches, TLC

\* Whoever was answered 202 finds that very payload stored under the key,
\* whatever requests raced for it (pentaho_integration.py criar_ou_obter_lote).
AnswerIsStored ==
    \A a \in answers : Stored(a[1]) /\ lote[a[1]].payload = a[2]

\* No execution of the batch outlived the timeout after which it counts as
\* abandoned, and no two operators asked for it again.
Undisturbed(k) == k \notin late /\ requeues[k] <= 1

\* API and worker never work on one batch at the same time, although
\* abandoned batches are put back (pentaho_integration.py reivindicar_lote).
OneAtATime ==
    \A d, e \in Executors :
        (d # e /\ ex[d].key # None /\ Undisturbed(ex[d].key)) => ex[d].key # ex[e].key

\* A batch being worked on is PROCESSANDO: nobody has put it back or closed it
\* (pentaho_integration.py recuperar_lotes_abandonados).
WorkIsMarked ==
    \A e \in Executors :
        (ex[e].key # None /\ Undisturbed(ex[e].key)) => Is(ex[e].key, "PROCESSANDO")

\* Interruptions do not repeat for ever: a batch is claimed max_tentativas
\* times, and once more for each time an operator requeues it
\* (pentaho_integration.py recuperar_lotes_abandonados).
AttemptsBounded ==
    \A k \in Keys : Stored(k) => lote[k].tentativas <= MaxTentativas + requeues[k]

\* The claim is an exclusive and limited right to the batch, although
\* processes end, updates fail and abandoned batches are put back
\* (pentaho_integration.py reivindicar_lote, recuperar_lotes_abandonados).
OneClaimant == OneAtATime /\ WorkIsMarked /\ AttemptsBounded

\* Every stored batch is concluded or quarantined in the end, although
\* processes end and transactions fail.
BatchSettles ==
    \A k \in Keys :
        Stored(k) ~> (Is(k, "CONCLUIDO") \/ Is(k, "QUARENTENA"))
=============================================================================
