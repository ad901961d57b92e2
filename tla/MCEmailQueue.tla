---------------------------- MODULE MCEmailQueue ----------------------------
(***************************************************************************)
(* What the mail queue is checked for, and the instances TLC runs.         *)
(***************************************************************************)
EXTENDS EmailQueue, TLC

\* A row that says SENT was accepted by the provider, whatever processes
\* overlap and whatever fails (consumer.py, queue_repository.py marcar_enviado).
SentWasAccepted == \A i \in Items : Is(i, "SENT") => mails[i] > 0

\* A row is given up only after max_retries sends, although processes overwrite
\* each other's count (queue_repository.py marcar_erro).
ErrorIsExhausted == \A i \in Items : Is(i, "ERROR") => sends[i] >= MaxRetries

\* A row is left reserved by a call that ended only after a fault or because
\* the circuit was open (consumer.py consumir_fila_email_movimento).
StrandedHasCause ==
    \A i \in Items : (Is(i, "PROCESSING") /\ ~Held(i)) => (faults > 0 \/ opened)

\* What a row says is true (consumer.py, queue_repository.py), in every order in
\* which two processes reserve, send and write, and after every fault.
MailStatusIsTrue == SentWasAccepted /\ ErrorIsExhausted /\ StrandedHasCause

\* A second copy of a mail takes a fault for each: a call that ended between
\* the mail and its row, an answer that was lost, or a call that overlapped
\* another and reserved the same row (consumer.py, queue_repository.py).
MailsPerFault == \A i \in Items : mails[i] <= 1 + faults

\* A send beyond max_retries takes a fault for each, circuit open or not
\* (queue_repository.py marcar_erro).
SendsLimited == \A i \in Items : sends[i] <= MaxRetries + faults

\* Nothing is sent twice, or beyond the limit, without a fault to account for it
\* (consumer.py, queue_repository.py).
SendsPerFault == MailsPerFault /\ SendsLimited

\* Every queued mail is sent or given up in the end, although calls end
\* anywhere and the circuit opens (consumer.py, resilience.py).
MailSettles ==
    \A i \in Items : fila[i] # None ~> (Is(i, "SENT") \/ Is(i, "ERROR"))
=============================================================================
