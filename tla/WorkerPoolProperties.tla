------------------------ MODULE WorkerPoolProperties ------------------------
(***************************************************************************)
(* What must hold of the worker pool.                                      *)
(***************************************************************************)
EXTENDS WorkerPool

\* A row of the tasks table: an identity nobody has enqueued has no history,
\* and every other one has an intent.
WellFormed(row) ==
    /\ row \in TaskRow
    /\ IF row.state = "absent" THEN row = AbsentTask ELSE row.intent # None

\* Type invariant of the five tables.
TypeOK ==
    /\ worker \in [Workers -> WorkerRow]
    /\ beats \subseteq Beat
    /\ lane \in [Repos -> LaneRow]
    /\ affinity \in [Workers -> SUBSET Repos]
    /\ task \in [Tasks -> TaskRow]
    /\ \A t \in Tasks : WellFormed(task[t])

\* No worker ever holds two active tasks: the readiness test of claim_task is
\* enough on its own, and the unique index idx_worker_active never has to
\* refuse a row (an IntegrityError no caller handles).
OneActivePerWorker ==
    \A t, u \in Tasks :
        /\ Active(task[t])
        /\ Active(task[u])
        /\ task[t].leased_by = task[u].leased_by
        /\ task[t].leased_by # None
        => t = u

WholeLease(row) ==
    /\ row.leased_by = None => row.lease = "none" /\ row.lease_token = 0
    /\ row.leased_by # None => /\ row.lease # "none"
                               /\ row.lease_token = row.attempt_count
                               /\ Active(row)
    /\ row.state \in {"leased", "running"} => row.leased_by # None

\* A lease is whole or absent: holder, token and deadline are set and cleared
\* together by all nine operations that touch them, a task somebody works on
\* is leased, one that waits or has ended is not (a blocked task frees its
\* worker), and the token that is accepted is always the one of the last claim.
LeaseIsWhole == \A t \in Tasks : WholeLease(task[t])

QuarantineRows(row) == row.quarantined = IF row.state = "failed" THEN 1 ELSE 0

\* A failed task has exactly one quarantine row and no other task has any,
\* although three operations write quarantine rows and two of them may meet
\* the same task in one claim_task transaction.
QuarantinedOnce == \A t \in Tasks : QuarantineRows(task[t])

HandoffMatches(row) ==
    /\ row.state \in {"validating", "completed"} => row.produced_sha # 0
    /\ row.state \in {"absent", "queued", "leased", "running"}
         => row.produced_sha = 0
    /\ row.produced_sha # 0 => row.builder_worker_id # None

\* A task is in a validation state exactly when its work was handed over,
\* wherever recovery, failure, blocking and requeueing have sent it, and the
\* work that was handed over has an author.
HandoffSurvives == \A t \in Tasks : HandoffMatches(task[t])

Independent(row) ==
    /\ row.state = "validating" /\ row.leased_by # None
         => /\ row.leased_by # row.builder_worker_id
            /\ row.leased_by = row.validator_worker_id
    /\ row.state = "completed"
         => /\ row.validator_worker_id # None
            /\ row.validator_worker_id # row.builder_worker_id

\* The one who validates a task, or has completed it, is not the one who built
\* it, even when the builder has since registered again as a validator.
IndependentValidation == \A t \in Tasks : Independent(task[t])

\* How far past max_attempts the claims of a task may be: a queued task has at
\* least one claim left, and only a validation may use one claim too many.
Overdraft(row) ==
    CASE row.state = "queued" -> -1
      [] row.state \in {"leased", "running"} -> 0
      [] row.state = "validating" -> IF row.leased_by = None THEN 0 ELSE 1
      [] row.state = "blocked" -> IF row.produced_sha = 0 THEN 0 ELSE 1
      [] OTHER -> 1

WithinBudget(row) ==
    row.state # "absent" =>
        row.attempt_count
            <= MaxAttempts[row.intent] + row.requeues + Overdraft(row)

\* Attempts are limited.  Builders and validators draw on one budget of
\* max_attempts claims, the validation may take one more, and each manual
\* requeue of a blocked task may add one.
AttemptBudget == \A t \in Tasks : WithinBudget(task[t])

\* Every row of the tasks table is sound: its columns agree on who holds the
\* task, whether its work was handed over, who may validate it, whether it is
\* quarantined and how often it was claimed, although fifteen operations of
\* store.py, late calls among them, each write some of the columns.
RowsSound ==
    /\ LeaseIsWhole
    /\ QuarantinedOnce
    /\ HandoffSurvives
    /\ IndependentValidation
    /\ AttemptBudget

\* The largest limit any lane can be given in this instance.
LargestLimit ==
    LET limits == {1} \cup {c.max_in_flight : c \in LaneConfigs}
    IN  CHOOSE m \in limits : \A n \in limits : n <= m

\* Work that no operator has requeued never exceeds the limit of its lane,
\* whatever recoveries and requeues put back in flight around it.
NewWorkFitsLane ==
    \A r \in Repos :
        Cardinality({t \in InFlight(task, r) : task[t].requeues = 0})
            <= LargestLimit

-----------------------------------------------------------------------------
(***************************************************************************)
(* Action properties.                                                      *)
(***************************************************************************)

\* The SHA that is handed over is published once, under the last lease granted
\* on the task, by the worker that started it: a late answer from an earlier
\* lease of the same worker never becomes the handed-over work.
HandoffFenced ==
    [][\A t \in Tasks :
        task'[t].produced_sha # task[t].produced_sha =>
            /\ task[t].produced_sha = 0
            /\ task'[t].produced_sha = task[t].attempt_count
            /\ task[t].state = "running"
            /\ task'[t].builder_worker_id = task[t].leased_by]_vars

\* An accepted task keeps its intent, and one that has ended keeps everything:
\* replays of the enqueue, late calls and recoveries all leave it alone.
AcceptedWorkIsKept ==
    [][\A t \in Tasks :
        /\ task[t].state # "absent" =>
             /\ task'[t].state # "absent"
             /\ task'[t].intent = task[t].intent
        /\ task[t].state \in {"completed", "failed"} =>
             task'[t] = task[t]]_vars

\* The role that has to take over a task.
RoleFor(row) == IF row.produced_sha # 0 THEN "validator" ELSE "builder"

\* Whatever order the watchdog meets the stalled tasks in, it blocks one only
\* when every eligible worker other than its holder was busy before the pass.
\* (Of the two ways to block, only block_task restarts the progress clock.)
BlockedForCause ==
    [][\A t \in Tasks :
        /\ task[t].state # "blocked"
        /\ task'[t].state = "blocked"
        /\ task'[t].stalled
        => \A w \in Workers \ {task[t].leased_by} :
             Eligible(w, RoleFor(task[t])) /\ Serves(w, RepoOf[t])
               => Busy(task, w)]_vars

\* A task is given to a worker whose last declared profile is ESTUDO only when
\* a heartbeat that names no profile undid the declaration: heartbeat_worker
\* reads the profile before its transaction, so one that had read NORMAL and
\* was still to write when ESTUDO was declared writes NORMAL back.  Without such
\* an overlap, or once ESTUDO is declared again without one, no claim succeeds.
NoWorkInStudy ==
    [][\A t \in Tasks, w \in Workers :
        /\ task'[t].leased_by = w
        /\ task'[t].attempt_count # task[t].attempt_count
        => worker[w].declared = "NORMAL" \/ worker[w].overtaken]_vars

-----------------------------------------------------------------------------
(***************************************************************************)
(* The contract of a task.  Phases follow the state column; a blocked task *)
(* is open or built depending on whether its work was handed over.         *)
(***************************************************************************)

PhaseOf(row) ==
    CASE row.state = "absent" -> "absent"
      [] row.state \in {"queued", "leased", "running"} -> "open"
      [] row.state = "validating" -> "built"
      [] row.state = "blocked" ->
            IF row.produced_sha # 0 THEN "built" ELSE "open"
      [] row.state = "completed" -> "approved"
      [] row.state = "failed" -> "abandoned"

AuthorOf(row) == IF row.produced_sha # 0 THEN row.builder_worker_id ELSE None

ApproverOf(row) ==
    IF row.state = "completed" THEN row.validator_worker_id ELSE None

Contract == INSTANCE TaskContract WITH
    phase    <- [t \in Tasks |-> PhaseOf(task[t])],
    author   <- [t \in Tasks |-> AuthorOf(task[t])],
    approver <- [t \in Tasks |-> ApproverOf(task[t])]

\* The pool implements the contract: every transaction moves each task by at
\* most one step of TaskContract.
ImplementsContract == Contract!Spec

-----------------------------------------------------------------------------
(***************************************************************************)
(* Liveness, under FairSpec.                                               *)
(***************************************************************************)

\* Every accepted task ends or is blocked for an operator to see, whatever the
\* workers that lease it do or fail to do.
Settles ==
    \A t \in Tasks :
        task[t].state # "absent"
            ~> task[t].state \in {"completed", "failed", "blocked"}
=============================================================================
