--------------------------- MODULE MCRedmineQueue ---------------------------
(***************************************************************************)
(* What the Redmine queue is checked for, and the instances TLC runs.      *)
(***************************************************************************)
EXTENDS RedmineQueue, TLC

CONSTANTS i1, i2, c1

\* Two items whose correlation id is the same, or one that finds a row of the
\* planner and one that finds none.
MCLinks == {(i1 :> c1 @@ i2 :> c1), (i1 :> c1 @@ i2 :> None)}

\* A row that says SENT has an issue in Redmine, whatever calls overlap and
\* whatever fails (redmine_sync_queue.py processar_fila_redmine).
SentHasIssue == \A i \in Items : Is(i, "SENT") => issues[i] > 0

\* A row that says ERROR has had its attempts, and no call gives an item up
\* earlier, whatever overlaps or fails (redmine_sync_queue.py).  An attempt that
\* met an open circuit or no configuration counts, though no request was made.
ErrorIsExhausted == \A i \in Items : Is(i, "ERROR") => attempts[i] >= MaxTentativas

\* A row of the planner shows what became of an item that finds it: SYNCED that
\* one was sent, ERROR that one has failed and was not sent since, and neither
\* that none of them is sent or given up.
PlannerShows(c) ==
    LET of == {i \in Items : agile.row[i] = c} IN
    /\ agile.status[c] = "SYNCED" => \E i \in of : Is(i, "SENT")
    /\ agile.status[c] = "ERROR" =>
           \E i \in of : fila[i] # None /\ fila[i].retry > 0 /\ ~Is(i, "SENT")
    /\ agile.status[c] = "-" => \A i \in of : ~Is(i, "SENT") /\ ~Is(i, "ERROR")

\* Between calls and without faults the planner shows what the queue says, of
\* the items whose correlation id finds a row there (redmine_sync_queue.py
\* _atualizar_agilesync).  An item that is alone with its row reads SYNCED when
\* it was sent and ERROR when it was given up.
PlannerAgrees ==
    (faults = 0 /\ \A w \in Runs : At(w, "idle")) => \A c \in AgileRows : PlannerShows(c)

\* What the queue and the planner say of an item is true (redmine_sync_queue.py
\* processar_fila_redmine), in every order in which two calls reserve, send and
\* update, and after every fault.
IssueStatusIsTrue == SentHasIssue /\ ErrorIsExhausted /\ PlannerAgrees

\* A second issue for an item takes a fault for each: a call that ended
\* between the issue and its row, a lost answer, or a call that overlapped
\* another and was confirmed the same reservation (redmine_sync_queue.py
\* processar_fila_redmine).
IssuesPerFault == \A i \in Items : issues[i] <= 1 + faults

\* The retry count bounds the attempts for an item, but for one more with each
\* fault: an update that fell back to the status, a call that ended, or one
\* whose count another overwrote (redmine_sync_queue.py).
AttemptsPerFault == \A i \in Items : attempts[i] <= MaxTentativas + faults

\* Nothing is done twice without a fault to account for it: neither an issue nor
\* an attempt beyond the limit (redmine_sync_queue.py).
EffectsPerFault == IssuesPerFault /\ AttemptsPerFault

\* Every row is sent or given up in the end, although calls end anywhere
\* (redmine_sync_queue.py limpar_reservas_travadas).
ItemSettles ==
    \A i \in Items : fila[i] # None ~> (Is(i, "SENT") \/ Is(i, "ERROR"))
=============================================================================
