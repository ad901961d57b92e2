-------------------------- MODULE WorkerPoolProofs --------------------------
(***************************************************************************)
(* Proofs about the worker pool.  All invariants but one speak of a single *)
(* row of the tasks table, so the work is done on rows: each lemma of the  *)
(* first part says that one way of writing a row keeps RowInv.  The second *)
(* part follows what a transaction does to a task, up to the contract, the *)
(* third the lanes, the watchdog and study mode.  The last part is about   *)
(* the two clocks a lease is judged by, the module LeaseClock.             *)
(***************************************************************************)
EXTENDS WorkerPoolProperties, LeaseClock, FiniteSetTheorems, WellFoundedInduction, TLAPS

\* The inductive invariant of one row.
RowInv(row) ==
    /\ WellFormed(row)
    /\ WholeLease(row)
    /\ QuarantineRows(row)
    /\ HandoffMatches(row)
    /\ Independent(row)
    /\ WithinBudget(row)

USE NullAssumption, IntentAssumption

\* What the row invariant says of a task in flight.
LEMMA ActiveRow ==
    ASSUME NEW row, RowInv(row), Active(row)
    PROVE  /\ row \in TaskRow
           /\ row.intent \in Intents
           /\ row.quarantined = 0
           /\ MaxAttempts[row.intent] \in Nat
           /\ row.produced_sha = 0 <=> row.state \in {"leased", "running"}
BY DEF RowInv, WellFormed, Active, ACTIVE, AbsentTask, QuarantineRows,
       HandoffMatches, TaskRow

\* A task in flight that is sent back or blocked, with attempts left.
LEMMA ReleaseKeepsRow ==
    ASSUME NEW row, RowInv(row), Active(row), ~Exhausted(row),
           NEW state \in {Resume(row), "blocked"}
    PROVE  RowInv(Released(row, state))
<1>1. /\ row \in TaskRow
      /\ row.intent \in Intents
      /\ row.quarantined = 0
      /\ MaxAttempts[row.intent] \in Nat
  BY ActiveRow
<1>2. row.attempt_count < MaxAttempts[row.intent]
  BY <1>1 DEF Exhausted, TaskRow
<1> DEFINE new == Released(row, state)
<1>3. /\ new \in TaskRow
      /\ new.state = state
      /\ new.leased_by = None
      /\ new.lease_token = 0
      /\ new.lease = "none"
      /\ new.intent = row.intent
      /\ new.attempt_count = row.attempt_count
      /\ new.produced_sha = row.produced_sha
      /\ new.builder_worker_id = row.builder_worker_id
      /\ new.quarantined = row.quarantined
      /\ new.requeues = row.requeues
  BY <1>1 DEF Released, TaskRow, Resume, States
<1>4. state # "absent" /\ state \notin {"leased", "running", "failed", "completed"}
  BY DEF Resume
<1> HIDE DEF new
<1>5. WellFormed(new) /\ WholeLease(new) /\ QuarantineRows(new) /\ Independent(new)
  BY <1>1, <1>3, <1>4
  DEF WellFormed, WholeLease, QuarantineRows, Independent
<1>6. HandoffMatches(new)
  BY <1>3, <1>4 DEF HandoffMatches, Resume, RowInv
<1>7. WithinBudget(new)
  BY <1>1, <1>2, <1>3, <1>4 DEF WithinBudget, Overdraft, Resume, TaskRow
<1> QED
  BY <1>5, <1>6, <1>7 DEF RowInv, new

\* A task in flight that fails for good.
LEMMA FailureKeepsRow ==
    ASSUME NEW row, RowInv(row), Active(row)
    PROVE  /\ RowInv(Quarantine(Released(row, "failed")))
           /\ Quarantine(Released(row, "failed")).leased_by = None
<1>1. /\ row \in TaskRow
      /\ row.intent \in Intents
      /\ row.quarantined = 0
      /\ MaxAttempts[row.intent] \in Nat
  BY ActiveRow
<1> DEFINE mid == Released(row, "failed")
           new == Quarantine(mid)
<1>1a. /\ mid \in TaskRow
      /\ mid.state = "failed"
      /\ mid.leased_by = None
      /\ mid.lease_token = 0
      /\ mid.lease = "none"
      /\ mid.intent = row.intent
      /\ mid.attempt_count = row.attempt_count
      /\ mid.produced_sha = row.produced_sha
      /\ mid.builder_worker_id = row.builder_worker_id
      /\ mid.quarantined = 0
      /\ mid.requeues = row.requeues
  BY <1>1 DEF Released, TaskRow, States
<1> HIDE DEF mid
<1>2. /\ new \in TaskRow
      /\ new.state = "failed"
      /\ new.leased_by = None
      /\ new.lease_token = 0
      /\ new.lease = "none"
      /\ new.intent = row.intent
      /\ new.attempt_count = row.attempt_count
      /\ new.produced_sha = row.produced_sha
      /\ new.builder_worker_id = row.builder_worker_id
      /\ new.quarantined = 1
      /\ new.requeues = row.requeues
  BY <1>1a DEF Quarantine, TaskRow
<1> HIDE DEF new
<1>3. WellFormed(new) /\ WholeLease(new) /\ QuarantineRows(new) /\ Independent(new)
  BY <1>1, <1>2 DEF WellFormed, WholeLease, QuarantineRows, Independent
<1>4. HandoffMatches(new)
  BY <1>2 DEF HandoffMatches, RowInv
<1>5. WithinBudget(new)
  <2>1. row.attempt_count <= MaxAttempts[row.intent] + row.requeues + 1
    BY <1>1 DEF RowInv, WithinBudget, Overdraft, TaskRow, Active, ACTIVE
  <2> QED
    BY <1>2, <2>1 DEF WithinBudget, Overdraft
<1> QED
  BY <1>2, <1>3, <1>4, <1>5 DEF RowInv, new, mid

\* The end of an unsuccessful attempt: fail_task and _recover.
LEMMA RetryKeepsRow ==
    ASSUME NEW row, RowInv(row), Active(row)
    PROVE  RowInv(Retry(row)) /\ Retry(row).leased_by = None
<1>1. CASE Exhausted(row)
  BY <1>1, FailureKeepsRow DEF Retry
<1>2. CASE ~Exhausted(row)
  <2>1. RowInv(Released(row, Resume(row)))
    BY <1>2, ReleaseKeepsRow
  <2>2. Released(row, Resume(row)).leased_by = None
    BY ActiveRow DEF Released, TaskRow
  <2> QED
    BY <1>2, <2>1, <2>2 DEF Retry
<1> QED
  BY <1>1, <1>2

\* One round of the watchdog's loop.
LEMMA RerouteKeepsRow ==
    ASSUME NEW tab, NEW done, NEW t, RowInv(tab[t]), Active(tab[t])
    PROVE  /\ RowInv(Rerouted(tab, done, t))
           /\ Rerouted(tab, done, t).leased_by = None
<1> DEFINE row == tab[t]
<1>1. CASE Exhausted(row)
  BY <1>1, FailureKeepsRow DEF Rerouted
<1>2. CASE ~Exhausted(row)
  <2>1. /\ RowInv(Released(row, Resume(row)))
        /\ RowInv(Released(row, "blocked"))
    BY <1>2, ReleaseKeepsRow
  <2>2. /\ Released(row, Resume(row)).leased_by = None
        /\ Released(row, "blocked").leased_by = None
    BY ActiveRow DEF Released, TaskRow
  <2> QED
    BY <1>2, <2>1, <2>2 DEF Rerouted
<1> QED
  BY <1>1, <1>2

-----------------------------------------------------------------------------
(***************************************************************************)
(* Tables.  Exclusive is OneActivePerWorker without mention of the states, *)
(* which a whole lease makes redundant.                                    *)
(***************************************************************************)

Exclusive(tab) ==
    \A t, u \in Tasks :
        tab[t].leased_by = tab[u].leased_by /\ tab[t].leased_by # None => t = u

TableInv(tab) ==
    /\ tab \in [Tasks -> TaskRow]
    /\ \A t \in Tasks : RowInv(tab[t])
    /\ Exclusive(tab)

\* A recovery that keeps rows or replaces them by released ones.
LEMMA SweepKeepsTable ==
    ASSUME NEW tab, TableInv(tab), NEW new, DOMAIN new = Tasks,
           new = [t \in Tasks |-> new[t]],
           \A t \in Tasks :
               new[t] = tab[t] \/ (RowInv(new[t]) /\ new[t].leased_by = None)
    PROVE  TableInv(new)
<1>1. \A t \in Tasks : RowInv(new[t])
  BY DEF TableInv
<1>2. \A t \in Tasks : new[t] \in TaskRow
  BY <1>1 DEF RowInv, WellFormed
<1>3. Exclusive(new)
  BY DEF TableInv, Exclusive
<1> QED
  BY <1>1, <1>2, <1>3 DEF TableInv

\* _recover releases only rows that satisfy RowInv and are active, so it keeps
\* the table's invariant.
LEMMA RecoverKeepsTable ==
    ASSUME NEW tab, TableInv(tab)
    PROVE  TableInv(Recover(tab))
<1>1. ASSUME NEW t \in Tasks
      PROVE  \/ Recover(tab)[t] = tab[t]
             \/ RowInv(Recover(tab)[t]) /\ Recover(tab)[t].leased_by = None
  <2>1. CASE Expired(tab[t])
    <3>1. RowInv(Retry(tab[t])) /\ Retry(tab[t]).leased_by = None
      BY <2>1, RetryKeepsRow DEF Expired, TableInv
    <3> QED
      BY <2>1, <3>1 DEF Recover
  <2>2. CASE ~Expired(tab[t])
    BY <2>2 DEF Recover
  <2> QED
    BY <2>1, <2>2
<1>2. /\ DOMAIN Recover(tab) = Tasks
      /\ Recover(tab) = [t \in Tasks |-> Recover(tab)[t]]
  BY DEF Recover
<1> HIDE DEF Recover
<1> QED
  BY <1>1, <1>2, SweepKeepsTable

\* So does _recover_stalled, whatever order pos its loop follows.
LEMMA RecoverStalledKeepsTable ==
    ASSUME NEW tab, TableInv(tab), NEW pos
    PROVE  TableInv(RecoverStalled(tab, pos))
<1> DEFINE new == RecoverStalled(tab, pos)
<1>1. ASSUME NEW t \in Tasks
      PROVE  new[t] = tab[t] \/ (RowInv(new[t]) /\ new[t].leased_by = None)
  <2> DEFINE done == {u \in StalledRows(tab) : pos[u] < pos[t]}
  <2>1. CASE t \in StalledRows(tab)
    <3>1. RowInv(tab[t]) /\ Active(tab[t])
      BY <2>1 DEF StalledRows, TableInv
    <3>2. new[t] = Rerouted(tab, done, t)
      BY <2>1 DEF RecoverStalled
    <3> QED
      BY <3>1, <3>2, RerouteKeepsRow
  <2>2. CASE t \notin StalledRows(tab)
    BY <2>2 DEF RecoverStalled
  <2> QED
    BY <2>1, <2>2
<1>2. DOMAIN new = Tasks /\ new = [t \in Tasks |-> new[t]]
  BY DEF RecoverStalled
<1> HIDE DEF new
<1>3. TableInv(new)
  BY <1>1, <1>2, SweepKeepsTable
<1> QED
  BY <1>3 DEF new

\* Writing one row, whose holder is the old one, nobody, or a free worker.
LEMMA WriteKeepsTable ==
    ASSUME NEW tab, TableInv(tab), NEW t \in Tasks, NEW row, RowInv(row),
           \/ row.leased_by \in {tab[t].leased_by, None}
           \/ \A u \in Tasks : tab[u].leased_by # row.leased_by
    PROVE  TableInv([tab EXCEPT ![t] = row])
<1> DEFINE new == [tab EXCEPT ![t] = row]
<1>1. row \in TaskRow
  BY DEF RowInv, WellFormed
<1>2. new \in [Tasks -> TaskRow]
  BY <1>1 DEF TableInv
<1>3. \A u \in Tasks : new[u] = IF u = t THEN row ELSE tab[u]
  BY DEF TableInv
<1> HIDE DEF new
<1>4. \A u \in Tasks : RowInv(new[u])
  BY <1>3 DEF TableInv
<1>5. Exclusive(new)
  BY <1>3 DEF TableInv, Exclusive
<1>6. TableInv(new)
  BY <1>2, <1>4, <1>5 DEF TableInv
<1> QED
  BY <1>6 DEF new

-----------------------------------------------------------------------------
(***************************************************************************)
(* The rows written by the operations.                                     *)
(***************************************************************************)

\* claim_task, on a row that a claim may select.
LEMMA ClaimKeepsRow ==
    ASSUME NEW tab, TableInv(tab), NEW w \in Workers, NEW role \in Roles,
           NEW t \in Claimable(tab, w, role)
    PROVE  /\ t \in Tasks
           /\ RowInv(Claimed(tab[t], w, role))
           /\ Claimed(tab[t], w, role).leased_by = w
<1> DEFINE row == tab[t]
           new == Claimed(row, w, role)
<1>1. /\ t \in Tasks
      /\ role = "builder" => row.state = "queued"
      /\ role = "validator" => /\ row.state = "validating"
                               /\ row.leased_by = None
                               /\ row.produced_sha # 0
                               /\ row.builder_worker_id # w
  BY DEF Claimable, Roles
<1>2. RowInv(row) /\ row \in TaskRow
  BY <1>1 DEF TableInv
<1>3. row.intent \in Intents /\ MaxAttempts[row.intent] \in Nat
  BY <1>1, <1>2 DEF RowInv, WellFormed, TaskRow, Roles
<1> DEFINE n == row.attempt_count + 1
           state == IF role = "builder" THEN "leased" ELSE "validating"
           v == IF role = "validator" THEN w ELSE row.validator_worker_id
<1>3a. /\ n \in Nat
       /\ state \in States
       /\ v \in Workers \cup {None}
  BY <1>2 DEF TaskRow, States
<1>3b. new = [row EXCEPT !.state = state, !.leased_by = w,
                         !.attempt_count = n, !.lease_token = n,
                         !.lease = "live", !.validator_worker_id = v,
                         !.stalled = FALSE]
  BY DEF Claimed
<1> HIDE DEF n, state, v, new
<1>4a. /\ new \in TaskRow
       /\ new.state = state
       /\ new.leased_by = w
       /\ new.attempt_count = n
       /\ new.lease_token = n
       /\ new.lease = "live"
       /\ new.validator_worker_id = v
       /\ new.intent = row.intent
       /\ new.produced_sha = row.produced_sha
       /\ new.builder_worker_id = row.builder_worker_id
       /\ new.quarantined = row.quarantined
       /\ new.requeues = row.requeues
  BY <1>2, <1>3a, <1>3b DEF TaskRow
<1>4. /\ new \in TaskRow
      /\ new.state = IF role = "builder" THEN "leased" ELSE "validating"
      /\ new.leased_by = w
      /\ new.attempt_count = row.attempt_count + 1
      /\ new.lease_token = row.attempt_count + 1
      /\ new.lease = "live"
      /\ role = "validator" => new.validator_worker_id = w
      /\ new.intent = row.intent
      /\ new.produced_sha = row.produced_sha
      /\ new.builder_worker_id = row.builder_worker_id
      /\ new.quarantined = row.quarantined
      /\ new.requeues = row.requeues
  BY <1>4a DEF n, state, v
<1>5. WellFormed(new) /\ WholeLease(new) /\ Independent(new)
  BY <1>1, <1>3, <1>4
  DEF WellFormed, WholeLease, Independent, Active, ACTIVE, Roles
<1>6. QuarantineRows(new) /\ HandoffMatches(new)
  BY <1>1, <1>2, <1>4 DEF QuarantineRows, HandoffMatches, RowInv, Roles
<1>7. WithinBudget(new)
  BY <1>1, <1>2, <1>3, <1>4 DEF WithinBudget, Overdraft, RowInv, TaskRow, Roles
<1> QED
  BY <1>1, <1>4, <1>5, <1>6, <1>7 DEF RowInv, new

\* start_task.
LEMMA StartKeepsRow ==
    ASSUME NEW row, RowInv(row), row.state = "leased", NEW w \in Workers
    PROVE  LET new == [row EXCEPT !.state = "running",
                                  !.builder_worker_id = w, !.stalled = FALSE]
           IN  RowInv(new) /\ new.leased_by = row.leased_by
<1> DEFINE new == [row EXCEPT !.state = "running",
                              !.builder_worker_id = w, !.stalled = FALSE]
<1>1. row \in TaskRow /\ row.intent # None
  BY DEF RowInv, WellFormed
<1>2. /\ new \in TaskRow
      /\ new.state = "running"
      /\ new.leased_by = row.leased_by
      /\ new.attempt_count = row.attempt_count
      /\ new.lease_token = row.lease_token
      /\ new.lease = row.lease
      /\ new.intent = row.intent
      /\ new.produced_sha = row.produced_sha
      /\ new.builder_worker_id = w
      /\ new.quarantined = row.quarantined
      /\ new.requeues = row.requeues
  BY <1>1 DEF TaskRow, States
<1> HIDE DEF new
<1>3. RowInv(new)
  BY <1>1, <1>2 DEF RowInv, WellFormed, WholeLease, QuarantineRows,
       HandoffMatches, Independent, WithinBudget, Overdraft, Active, ACTIVE
<1> QED
  BY <1>2, <1>3 DEF new

\* submit_for_validation.
LEMMA SubmitKeepsRow ==
    ASSUME NEW row, RowInv(row), row.state = "running",
           row.builder_worker_id # None, NEW tok \in Nat \ {0}
    PROVE  LET new == [Released(row, "validating") EXCEPT
                          !.produced_sha = tok, !.stalled = FALSE]
           IN  RowInv(new) /\ new.leased_by = None
<1> DEFINE new == [Released(row, "validating") EXCEPT
                      !.produced_sha = tok, !.stalled = FALSE]
<1>1. row \in TaskRow /\ row.intent # None
  BY DEF RowInv, WellFormed
<1>2. /\ new \in TaskRow
      /\ new.state = "validating"
      /\ new.leased_by = None
      /\ new.attempt_count = row.attempt_count
      /\ new.lease_token = 0
      /\ new.lease = "none"
      /\ new.intent = row.intent
      /\ new.produced_sha = tok
      /\ new.builder_worker_id = row.builder_worker_id
      /\ new.quarantined = row.quarantined
      /\ new.requeues = row.requeues
  BY <1>1 DEF Released, TaskRow, States
<1> HIDE DEF new
<1>3. RowInv(new)
  BY <1>1, <1>2 DEF RowInv, WellFormed, WholeLease, QuarantineRows,
       HandoffMatches, Independent, WithinBudget, Overdraft, Active, ACTIVE
<1> QED
  BY <1>2, <1>3 DEF new

\* complete_task and block_task: the row is released, the handoff is kept.
LEMMA EndKeepsRow ==
    ASSUME NEW row, RowInv(row), Active(row),
           NEW state \in {"completed", "blocked"},
           state = "completed" => /\ row.state = "validating"
                                  /\ row.leased_by # None
    PROVE  LET new == [Released(row, state) EXCEPT !.stalled = FALSE]
           IN  RowInv(new) /\ new.leased_by = None
<1> DEFINE new == [Released(row, state) EXCEPT !.stalled = FALSE]
<1>1. /\ row \in TaskRow
      /\ row.intent \in Intents
      /\ row.intent # None
      /\ MaxAttempts[row.intent] \in Nat
  BY ActiveRow DEF RowInv, WellFormed
<1>2. /\ new \in TaskRow
      /\ new.state = state
      /\ new.leased_by = None
      /\ new.attempt_count = row.attempt_count
      /\ new.lease_token = 0
      /\ new.lease = "none"
      /\ new.intent = row.intent
      /\ new.produced_sha = row.produced_sha
      /\ new.builder_worker_id = row.builder_worker_id
      /\ new.validator_worker_id = row.validator_worker_id
      /\ new.quarantined = row.quarantined
      /\ new.requeues = row.requeues
  BY <1>1 DEF Released, TaskRow, States
<1> HIDE DEF new
<1>3. WellFormed(new) /\ WholeLease(new) /\ QuarantineRows(new)
  BY <1>1, <1>2 DEF RowInv, WellFormed, WholeLease, QuarantineRows, Active, ACTIVE
<1>4. HandoffMatches(new) /\ Independent(new)
  BY <1>1, <1>2 DEF RowInv, HandoffMatches, Independent
<1>5. WithinBudget(new)
  BY <1>1, <1>2
  DEF RowInv, HandoffMatches, WithinBudget, Overdraft, Active, ACTIVE, TaskRow
<1> QED
  BY <1>2, <1>3, <1>4, <1>5 DEF RowInv, new

\* requeue_blocked.
LEMMA RequeueKeepsRow ==
    ASSUME NEW row, RowInv(row), row.state = "blocked"
    PROVE  LET new == [row EXCEPT !.state = Resume(row), !.stalled = FALSE,
                                  !.requeues = @ + 1]
           IN  RowInv(new) /\ new.leased_by = row.leased_by
<1> DEFINE new == [row EXCEPT !.state = Resume(row), !.stalled = FALSE,
                              !.requeues = @ + 1]
<1>1. /\ row \in TaskRow
      /\ row.intent \in Intents
      /\ row.intent # None
      /\ MaxAttempts[row.intent] \in Nat
  BY DEF RowInv, WellFormed, TaskRow
<1> DEFINE n == row.requeues + 1
           state == Resume(row)
<1>1a. n \in Nat /\ state \in States
  BY <1>1 DEF TaskRow, States, Resume
<1>1b. new = [row EXCEPT !.state = state, !.stalled = FALSE, !.requeues = n]
  OBVIOUS
<1> HIDE DEF n, state, new
<1>2. /\ new \in TaskRow
      /\ new.state = state
      /\ new.leased_by = row.leased_by
      /\ new.attempt_count = row.attempt_count
      /\ new.lease_token = row.lease_token
      /\ new.lease = row.lease
      /\ new.intent = row.intent
      /\ new.produced_sha = row.produced_sha
      /\ new.builder_worker_id = row.builder_worker_id
      /\ new.quarantined = row.quarantined
      /\ new.requeues = n
  BY <1>1, <1>1a, <1>1b DEF TaskRow
<1>3. row.leased_by = None
  BY DEF RowInv, WholeLease, Active, ACTIVE
<1>4. /\ state = IF row.produced_sha # 0 THEN "validating" ELSE "queued"
      /\ n = row.requeues + 1
  BY DEF Resume, state, n
<1>5. WellFormed(new) /\ WholeLease(new) /\ QuarantineRows(new)
  BY <1>1, <1>2, <1>3, <1>4
  DEF RowInv, WellFormed, WholeLease, QuarantineRows
<1>6. HandoffMatches(new) /\ Independent(new)
  BY <1>2, <1>3, <1>4 DEF RowInv, HandoffMatches, Independent
<1>7. WithinBudget(new)
  BY <1>1, <1>2, <1>3, <1>4 DEF RowInv, WithinBudget, Overdraft, TaskRow
<1> QED
  BY <1>2, <1>5, <1>6, <1>7 DEF RowInv, new

\* The clocks, and renew_lease, write only the two flags.
LEMMA ClockKeepsRow ==
    ASSUME NEW row, RowInv(row), row.state # "absent",
           NEW lease \in {"live", "expired"}, NEW stalled \in BOOLEAN
    PROVE  /\ row.leased_by # None => RowInv([row EXCEPT !.lease = lease])
           /\ RowInv([row EXCEPT !.stalled = stalled])
           /\ [row EXCEPT !.lease = lease].leased_by = row.leased_by
           /\ [row EXCEPT !.stalled = stalled].leased_by = row.leased_by
<1>1. row \in TaskRow
  BY DEF RowInv, WellFormed
<1>2. ASSUME NEW new \in TaskRow,
             \A f \in DOMAIN row \ {"lease", "stalled"} : new[f] = row[f],
             new.lease = row.lease \/ (row.leased_by # None /\ new.lease = lease)
      PROVE  RowInv(new)
  <2>1. /\ new.state = row.state
        /\ new.leased_by = row.leased_by
        /\ new.attempt_count = row.attempt_count
        /\ new.lease_token = row.lease_token
        /\ new.intent = row.intent
        /\ new.produced_sha = row.produced_sha
        /\ new.builder_worker_id = row.builder_worker_id
        /\ new.validator_worker_id = row.validator_worker_id
        /\ new.quarantined = row.quarantined
        /\ new.requeues = row.requeues
    BY <1>1, <1>2 DEF TaskRow
  <2>2. Overdraft(new) = Overdraft(row)
    BY <2>1 DEF Overdraft
  <2> QED
    BY <1>2, <2>1, <2>2 DEF RowInv, WellFormed, WholeLease, QuarantineRows,
         HandoffMatches, Independent, WithinBudget, Active
<1>3. /\ [row EXCEPT !.lease = lease] \in TaskRow
      /\ [row EXCEPT !.stalled = stalled] \in TaskRow
  BY <1>1 DEF TaskRow
<1> QED
  BY <1>1, <1>2, <1>3 DEF TaskRow

\* enqueue_task, for a new identity.
LEMMA EnqueueKeepsRow ==
    ASSUME NEW row, RowInv(row), row.state = "absent", NEW i \in Intents
    PROVE  LET new == [row EXCEPT !.state = "queued", !.intent = i]
           IN  RowInv(new) /\ new.leased_by = None
<1> DEFINE new == [row EXCEPT !.state = "queued", !.intent = i]
<1>1. row = AbsentTask /\ row \in TaskRow
  BY DEF RowInv, WellFormed
<1>2. /\ new \in TaskRow
      /\ new.state = "queued"
      /\ new.leased_by = None
      /\ new.attempt_count = 0
      /\ new.lease_token = 0
      /\ new.lease = "none"
      /\ new.intent = i
      /\ new.produced_sha = 0
      /\ new.quarantined = 0
      /\ new.requeues = 0
  BY <1>1 DEF TaskRow, States, AbsentTask
<1> HIDE DEF new
<1>3. MaxAttempts[i] \in Nat \ {0}
  OBVIOUS
<1>4. WellFormed(new) /\ WholeLease(new) /\ QuarantineRows(new)
  BY <1>2 DEF WellFormed, WholeLease, QuarantineRows
<1>5. HandoffMatches(new) /\ Independent(new)
  BY <1>2 DEF HandoffMatches, Independent
<1>6. WithinBudget(new)
  BY <1>2, <1>3 DEF WithinBudget, Overdraft
<1> QED
  BY <1>2, <1>4, <1>5, <1>6 DEF RowInv, new

-----------------------------------------------------------------------------
(***************************************************************************)
(* The inductive invariant of the pool.                                    *)
(***************************************************************************)

OtherTables ==
    /\ worker \in [Workers -> WorkerRow]
    /\ beats \subseteq Beat
    /\ lane \in [Repos -> LaneRow]
    /\ affinity \in [Workers -> SUBSET Repos]

PoolInv == OtherTables /\ TableInv(task)

\* The empty database of _init satisfies the invariant.
LEMMA InitEstablishesInv == Init => PoolInv
<1> SUFFICES ASSUME Init PROVE PoolInv
  OBVIOUS
<1>1. OtherTables
  BY DEF Init, OtherTables, Unregistered, WorkerRow, DefaultLane, LaneRow,
         Profiles, Roles, Beat
<1>2. AbsentTask \in TaskRow
  BY DEF AbsentTask, TaskRow
<1>3. RowInv(AbsentTask)
  BY <1>2 DEF RowInv, WellFormed, WholeLease, QuarantineRows, HandoffMatches,
              Independent, WithinBudget, AbsentTask
<1>4. TableInv(task)
  BY <1>2, <1>3 DEF Init, TableInv, Exclusive, AbsentTask
<1> QED
  BY <1>1, <1>4 DEF PoolInv

\* The calls and the clock that leave the tasks alone.
LEMMA OtherTablesStep ==
    ASSUME PoolInv,
           \/ \E w \in Workers : \/ RegisterWorker(w)
                                 \/ HeartbeatRead(w)
                                 \/ ReplaceWorkerAffinities(w)
                                 \/ HeartbeatLapses(w)
           \/ \E b \in beats : HeartbeatWrite(b)
           \/ \E r \in Repos : ConfigureRepository(r)
    PROVE  PoolInv'
<1> USE RequestAssumption
<1>1. task' = task
  BY DEF RegisterWorker, HeartbeatRead, ReplaceWorkerAffinities,
         HeartbeatLapses, HeartbeatWrite, ConfigureRepository
<1>2. TableInv(task)'
  BY <1>1 DEF PoolInv
<1>3. ASSUME NEW w \in Workers, RegisterWorker(w)
      PROVE  OtherTables'
  <2>1. PICK r \in Registrations[w] :
          worker' = [worker EXCEPT ![w] =
             [role |-> r.role, profile |-> r.profile, governed |-> r.governed,
              rules |-> r.rules, fresh |-> TRUE, declared |-> r.profile,
              overtaken |-> Overtaken(w, r.profile)]]
    BY <1>3 DEF RegisterWorker
  <2>2. PICK o \in BOOLEAN : o = Overtaken(w, r.profile)
    BY DEF Overtaken
  <2>3. [role |-> r.role, profile |-> r.profile, governed |-> r.governed,
         rules |-> r.rules, fresh |-> TRUE, declared |-> r.profile,
         overtaken |-> o] \in WorkerRow
    BY <2>2 DEF Registration, WorkerRow
  <2> QED
    BY <1>3, <2>1, <2>2, <2>3 DEF RegisterWorker, PoolInv, OtherTables
<1>4. ASSUME NEW w \in Workers, HeartbeatRead(w)
      PROVE  OtherTables'
  <2>1. worker[w] \in WorkerRow
    BY DEF PoolInv, OtherTables
  <2>2. ASSUME NEW h \in Reports[w], NEW n \in 1..MaxBeats
        PROVE  [thread   |-> n,
                worker   |-> w,
                profile  |-> IF h.profile = None
                             THEN worker[w].profile ELSE h.profile,
                governed |-> IF h.governed = None
                             THEN worker[w].governed ELSE h.governed,
                names    |-> h.profile] \in Beat
    BY <2>1 DEF Report, WorkerRow, Beat
  <2>3. beats' \subseteq Beat
    BY <1>4, <2>2 DEF HeartbeatRead, PoolInv, OtherTables
  <2> QED
    BY <1>4, <2>3 DEF HeartbeatRead, PoolInv, OtherTables
<1>5. ASSUME NEW w \in Workers, ReplaceWorkerAffinities(w)
      PROVE  OtherTables'
  BY <1>5 DEF ReplaceWorkerAffinities, PoolInv, OtherTables
<1>6. ASSUME NEW w \in Workers, HeartbeatLapses(w)
      PROVE  OtherTables'
  <2>1. worker[w] \in WorkerRow
    BY DEF PoolInv, OtherTables
  <2>2. [worker[w] EXCEPT !.fresh = FALSE] \in WorkerRow
    BY <2>1 DEF WorkerRow
  <2>3. worker' = [worker EXCEPT ![w] = [worker[w] EXCEPT !.fresh = FALSE]]
    BY <1>6 DEF HeartbeatLapses
  <2>4. worker' \in [Workers -> WorkerRow]
    BY <2>2, <2>3 DEF PoolInv, OtherTables
  <2> QED
    BY <1>6, <2>4 DEF HeartbeatLapses, PoolInv, OtherTables
<1>7. ASSUME NEW b \in beats, HeartbeatWrite(b)
      PROVE  OtherTables'
  <2> DEFINE v == b.worker
             old == worker[v]
             name == IF b.names = None THEN old.declared ELSE b.names
             late == IF b.names = None THEN old.overtaken
                     ELSE Overtaken(v, b.names)
             row == [old EXCEPT !.profile = b.profile,
                                !.governed = b.governed,
                                !.fresh = TRUE, !.declared = name,
                                !.overtaken = late]
  <2>1. b \in Beat
    BY DEF PoolInv, OtherTables
  <2>2. v \in Workers /\ b.profile \in Profiles /\ b.governed \in BOOLEAN
    BY <2>1 DEF Beat
  <2>3. old \in WorkerRow
    BY <2>2 DEF PoolInv, OtherTables
  <2>4. name \in Profiles
    BY <2>1, <2>3 DEF Beat, WorkerRow
  <2>8. late \in BOOLEAN
    BY <2>3 DEF WorkerRow, Overtaken
  <2>5. worker' = [worker EXCEPT ![v] = row]
    BY <1>7, <2>2 DEF HeartbeatWrite, PoolInv, OtherTables
  <2> HIDE DEF v, old, name, late
  <2>6. row \in WorkerRow
    BY <2>2, <2>3, <2>4, <2>8 DEF WorkerRow
  <2> HIDE DEF row
  <2>7. worker' \in [Workers -> WorkerRow]
    BY <2>2, <2>5, <2>6 DEF PoolInv, OtherTables
  <2> QED
    BY <1>7, <2>7 DEF HeartbeatWrite, PoolInv, OtherTables
<1>8. ASSUME NEW r \in Repos, ConfigureRepository(r)
      PROVE  OtherTables'
  <2>1. lane[r] \in LaneRow
    BY DEF PoolInv, OtherTables
  <2>2. PICK c \in LaneConfigs :
          lane' = [lane EXCEPT ![r].enabled       = c.enabled,
                               ![r].max_in_flight = c.max_in_flight]
    BY <1>8 DEF ConfigureRepository
  <2> DEFINE row == [lane[r] EXCEPT !.enabled = c.enabled,
                                    !.max_in_flight = c.max_in_flight]
  <2>3. row \in LaneRow
    BY <2>1 DEF LaneConfig, LaneRow
  <2>4. lane' = [lane EXCEPT ![r] = row]
    BY <2>2 DEF PoolInv, OtherTables
  <2> HIDE DEF row
  <2>5. lane' \in [Repos -> LaneRow]
    BY <2>3, <2>4 DEF PoolInv, OtherTables
  <2> QED
    BY <1>8, <2>5 DEF ConfigureRepository, PoolInv, OtherTables
<1> QED
  BY <1>2, <1>3, <1>4, <1>5, <1>6, <1>7, <1>8 DEF PoolInv

\* claim_task: both recoveries keep the table's invariant, and the worker that
\* is given a task was tested after them, so it holds no other task.
LEMMA ClaimStep ==
    ASSUME PoolInv, NEW w \in Workers, NEW role \in Roles, ClaimTask(w, role)
    PROVE  PoolInv'
<1>1. PICK pos \in LoopOrders(StalledRows(Recover(task))) :
        LET tab == RecoverStalled(Recover(task), pos)
            C   == Claimable(tab, w, role)
        IN  /\ Ready(tab, w, role)
            /\ \/ /\ C = {}
                  /\ task' = tab
                  /\ UNCHANGED lane
               \/ \E t \in First(C, tab, role) :
                  /\ task' = [tab EXCEPT ![t] = Claimed(tab[t], w, role)]
                  /\ lane' = [lane EXCEPT ![RepoOf[t]].claims[role] = @ + 1]
  BY DEF ClaimTask
<1> DEFINE tab == RecoverStalled(Recover(task), pos)
<1>2. TableInv(tab)
  BY RecoverKeepsTable, RecoverStalledKeepsTable DEF PoolInv
<1>3. Ready(tab, w, role)
  BY <1>1
<1>4. UNCHANGED <<worker, beats, affinity>>
  BY DEF ClaimTask
<1> HIDE DEF tab
<1>5. CASE task' = tab /\ UNCHANGED lane
  <2>1. TableInv(task)'
    BY <1>2, <1>5
  <2> QED
    BY <1>4, <1>5, <2>1 DEF PoolInv, OtherTables
<1>6. ASSUME NEW t \in First(Claimable(tab, w, role), tab, role),
             task' = [tab EXCEPT ![t] = Claimed(tab[t], w, role)],
             lane' = [lane EXCEPT ![RepoOf[t]].claims[role] = @ + 1]
      PROVE  PoolInv'
  <2>1. t \in Claimable(tab, w, role)
    BY DEF First
  <2>2. /\ t \in Tasks
        /\ RowInv(Claimed(tab[t], w, role))
        /\ Claimed(tab[t], w, role).leased_by = w
    BY <1>2, <2>1, ClaimKeepsRow
  <2>3. \A u \in Tasks : tab[u].leased_by # w
    BY <1>2, <1>3 DEF Ready, Busy, TableInv, RowInv, WholeLease
  <2>4. TableInv([tab EXCEPT ![t] = Claimed(tab[t], w, role)])
    BY <1>2, <2>2, <2>3, WriteKeepsTable
  <2>5. TableInv(task)'
    BY <1>6, <2>4
  <2>6. lane' \in [Repos -> LaneRow]
    <3>1. RepoOf[t] \in Repos
      BY <2>2
    <3>2. lane[RepoOf[t]] \in LaneRow
      BY <3>1 DEF PoolInv, OtherTables
    <3>3. [lane[RepoOf[t]] EXCEPT !.claims[role] = @ + 1] \in LaneRow
      BY <3>2 DEF LaneRow
    <3> QED
      BY <1>6, <3>1, <3>3 DEF PoolInv, OtherTables
  <2> QED
    BY <1>4, <2>5, <2>6 DEF PoolInv, OtherTables
<1> QED
  BY <1>1, <1>5, <1>6 DEF tab

\* A single-row write through Put.
LEMMA PutStep ==
    ASSUME PoolInv, NEW t \in Tasks, NEW row, Put(t, row), RowInv(row),
           row.leased_by \in {task[t].leased_by, None}
    PROVE  PoolInv'
<1>1. TableInv([task EXCEPT ![t] = row])
  BY WriteKeepsTable DEF PoolInv
<1>2. TableInv(task)'
  BY <1>1 DEF Put
<1> QED
  BY <1>2 DEF Put, PoolInv, OtherTables

\* The six calls under a lease write one row and never change its holder except
\* to clear it.
LEMMA LeaseCallStep ==
    ASSUME PoolInv, NEW t \in Tasks, NEW w \in Workers,
           NEW tok \in 1..task[t].attempt_count, LeaseCall(t, w, tok)
    PROVE  PoolInv'
<1>1. RowInv(task[t]) /\ task[t] \in TaskRow
  BY DEF PoolInv, TableInv
<1>2. tok \in Nat \ {0}
  BY <1>1 DEF TaskRow
<1>3. CASE RenewLease(t, w, tok)
  <2>1. /\ task[t].leased_by # None
        /\ task[t].state # "absent"
    BY <1>3 DEF RenewLease, HoldsLease, ACTIVE
  <2> QED
    BY <1>1, <1>3, <2>1, ClockKeepsRow, PutStep DEF RenewLease
<1>4. CASE StartTask(t, w, tok)
  <2>1. task[t].state = "leased"
    BY <1>4 DEF StartTask, HoldsLease
  <2> QED
    BY <1>1, <1>4, <2>1, StartKeepsRow, PutStep DEF StartTask
<1>5. CASE SubmitForValidation(t, w, tok)
  <2>1. task[t].state = "running" /\ task[t].builder_worker_id # None
    BY <1>5 DEF SubmitForValidation, HoldsLease
  <2> QED
    BY <1>1, <1>2, <1>5, <2>1, SubmitKeepsRow, PutStep DEF SubmitForValidation
<1>6. CASE CompleteTask(t, w, tok)
  <2>1. /\ Active(task[t])
        /\ task[t].state = "validating"
        /\ task[t].leased_by # None
    BY <1>6 DEF CompleteTask, HoldsLease, Active, ACTIVE
  <2> QED
    BY <1>1, <1>6, <2>1, EndKeepsRow, PutStep DEF CompleteTask
<1>7. CASE FailTask(t, w, tok)
  <2>1. Active(task[t])
    BY <1>7 DEF FailTask, HoldsLease, Active
  <2> QED
    BY <1>1, <1>7, <2>1, RetryKeepsRow, PutStep DEF FailTask
<1>8. CASE BlockTask(t, w, tok)
  <2>1. Active(task[t])
    BY <1>8 DEF BlockTask, HoldsLease, Active
  <2> QED
    BY <1>1, <1>8, <2>1, EndKeepsRow, PutStep DEF BlockTask
<1> QED
  BY <1>3, <1>4, <1>5, <1>6, <1>7, <1>8 DEF LeaseCall

\* Enqueueing, requeueing and the two clocks of a task.
LEMMA TaskStep ==
    ASSUME PoolInv, NEW t \in Tasks,
           \/ \E i \in Intents : EnqueueTask(t, i)
           \/ RequeueBlocked(t)
           \/ LeaseLapses(t)
           \/ ProgressLapses(t)
    PROVE  PoolInv'
<1>1. RowInv(task[t]) /\ task \in [Tasks -> TaskRow]
  BY DEF PoolInv, TableInv
<1>2. ASSUME NEW i \in Intents, EnqueueTask(t, i)
      PROVE  PoolInv'
  <2>1. CASE UNCHANGED task
    <3>1. TableInv(task)'
      BY <2>1 DEF PoolInv
    <3> QED
      BY <1>2, <3>1 DEF EnqueueTask, PoolInv, OtherTables
  <2>2. CASE /\ task[t].state = "absent"
             /\ task' = [task EXCEPT ![t].state = "queued", ![t].intent = i]
    <3>1. Put(t, [task[t] EXCEPT !.state = "queued", !.intent = i])
      BY <1>1, <1>2, <2>2 DEF EnqueueTask, Put
    <3> QED
      BY <1>1, <2>2, <3>1, EnqueueKeepsRow, PutStep
  <2> QED
    BY <1>2, <2>1, <2>2 DEF EnqueueTask
<1>3. CASE RequeueBlocked(t)
  BY <1>1, <1>3, RequeueKeepsRow, PutStep DEF RequeueBlocked
<1>4. CASE LeaseLapses(t)
  <2>1. task[t].leased_by # None /\ task[t].state # "absent"
    BY <1>1, <1>4 DEF LeaseLapses, RowInv, WholeLease, Active, ACTIVE
  <2> QED
    BY <1>1, <1>4, <2>1, ClockKeepsRow, PutStep DEF LeaseLapses
<1>5. CASE ProgressLapses(t)
  <2>1. task[t].state # "absent"
    BY <1>5 DEF ProgressLapses, Active, ACTIVE
  <2> QED
    BY <1>1, <1>5, <2>1, ClockKeepsRow, PutStep DEF ProgressLapses
<1> QED
  BY <1>2, <1>3, <1>4, <1>5

\* The two recoveries called on their own, by the watchdog and by snapshot.
LEMMA RecoveryStep ==
    ASSUME PoolInv, RecoverExpiredLeases \/ RecoverStalledTasks
    PROVE  PoolInv'
<1>1. TableInv(task)'
  BY RecoverKeepsTable, RecoverStalledKeepsTable
  DEF PoolInv, RecoverExpiredLeases, RecoverStalledTasks
<1>2. UNCHANGED <<worker, beats, lane, affinity>>
  BY DEF RecoverExpiredLeases, RecoverStalledTasks
<1> QED
  BY <1>1, <1>2 DEF PoolInv, OtherTables

\* The invariant is inductive.
LEMMA NextKeepsInv == PoolInv /\ [Next]_vars => PoolInv'
<1> SUFFICES ASSUME PoolInv, [Next]_vars
             PROVE  PoolInv'
  OBVIOUS
<1>1. ASSUME NEW w \in Workers, WorkerCall(w)
      PROVE  PoolInv'
  BY <1>1, OtherTablesStep, ClaimStep DEF WorkerCall
<1>2. CASE \E b \in beats : HeartbeatWrite(b)
  BY <1>2, OtherTablesStep
<1>3. CASE \E r \in Repos : ConfigureRepository(r)
  BY <1>3, OtherTablesStep
<1>4. CASE \E w \in Workers : HeartbeatLapses(w)
  BY <1>4, OtherTablesStep
<1>5. ASSUME NEW t \in Tasks, NEW w \in Workers,
             NEW tok \in 1..task[t].attempt_count, LeaseCall(t, w, tok)
      PROVE  PoolInv'
  BY <1>5, LeaseCallStep
<1>6. ASSUME NEW t \in Tasks,
             \/ \E i \in Intents : EnqueueTask(t, i)
             \/ RequeueBlocked(t)
             \/ LeaseLapses(t)
             \/ ProgressLapses(t)
      PROVE  PoolInv'
  BY <1>6, TaskStep
<1>7. CASE RecoverExpiredLeases \/ RecoverStalledTasks
  BY <1>7, RecoveryStep
<1>8. CASE UNCHANGED vars
  <2>1. TableInv(task)'
    BY <1>8 DEF vars, PoolInv
  <2> QED
    BY <1>8, <2>1 DEF vars, PoolInv, OtherTables
<1> QED
  BY <1>1, <1>2, <1>3, <1>4, <1>5, <1>6, <1>7, <1>8 DEF Next

\* The inductive invariant holds in every reachable state of the store: every
\* row is well formed, and no two active rows have the same holder.
THEOREM PoolInvariant == Spec => []PoolInv
BY InitEstablishesInv, NextKeepsInv, PTL DEF Spec

-----------------------------------------------------------------------------
(***************************************************************************)
(* The properties, for every set of workers, tasks and intents and for     *)
(* every bound.                                                            *)
(***************************************************************************)

\* The tables keep their types, and every accepted task keeps an intent.
THEOREM TypeCorrect == Spec => []TypeOK
<1>1. PoolInv => TypeOK
  BY DEF PoolInv, OtherTables, TableInv, RowInv, TypeOK
<1> QED
  BY <1>1, PoolInvariant, PTL

\* No worker holds two active tasks.
THEOREM Exclusion == Spec => []OneActivePerWorker
<1>1. PoolInv => OneActivePerWorker
  BY DEF PoolInv, TableInv, Exclusive, OneActivePerWorker
<1> QED
  BY <1>1, PoolInvariant, PTL

\* Leases are whole, and the accepted token is the latest one.
THEOREM WholeLeases == Spec => []LeaseIsWhole
<1>1. PoolInv => LeaseIsWhole
  BY DEF PoolInv, TableInv, RowInv, LeaseIsWhole
<1> QED
  BY <1>1, PoolInvariant, PTL

\* A failed task has exactly one quarantine row, any other task none.
THEOREM SingleQuarantine == Spec => []QuarantinedOnce
<1>1. PoolInv => QuarantinedOnce
  BY DEF PoolInv, TableInv, RowInv, QuarantinedOnce
<1> QED
  BY <1>1, PoolInvariant, PTL

\* No path leads handed-over work back to a builder.
THEOREM HandoffKept == Spec => []HandoffSurvives
<1>1. PoolInv => HandoffSurvives
  BY DEF PoolInv, TableInv, RowInv, HandoffSurvives
<1> QED
  BY <1>1, PoolInvariant, PTL

\* No worker ever validates what it has built.
THEOREM NoSelfValidation == Spec => []IndependentValidation
<1>1. PoolInv => IndependentValidation
  BY DEF PoolInv, TableInv, RowInv, IndependentValidation
<1> QED
  BY <1>1, PoolInvariant, PTL

\* Claims stay within max_attempts, one validation and the manual requeues.
THEOREM BoundedAttempts == Spec => []AttemptBudget
<1>1. PoolInv => AttemptBudget
  BY DEF PoolInv, TableInv, RowInv, AttemptBudget
<1> QED
  BY <1>1, PoolInvariant, PTL

\* The rows of the tasks table are sound: leases, quarantine, handoff,
\* independence and budget together.
THEOREM RowsStaySound == Spec => []RowsSound
<1>1. PoolInv => RowsSound
  BY DEF PoolInv, TableInv, RowInv, RowsSound, LeaseIsWhole, QuarantinedOnce,
         HandoffSurvives, IndependentValidation, AttemptBudget
<1> QED
  BY <1>1, PoolInvariant, PTL
-----------------------------------------------------------------------------
(***************************************************************************)
(* What one transaction may do to a task, and from it the action           *)
(* properties of the pool and the contract it implements.                  *)
(***************************************************************************)
\* A step that at most loses the task: everything but submit_for_validation,
\* complete_task, start_task and the first enqueue.  It is transitive, which
\* is what the two recoveries and the claim of one claim_task need.
RowKept(old, new) ==
    /\ new.produced_sha = old.produced_sha
    /\ new.builder_worker_id = old.builder_worker_id
    /\ new.intent = old.intent
    /\ old.state \in {"absent", "completed", "failed"} => new = old
    /\ new.state \in {"absent", "completed"} => new = old
    /\ \/ PhaseOf(new) = PhaseOf(old)
       \/ new.state = "failed" /\ PhaseOf(old) \in {"open", "built"}

\* One step of a task, as the properties see it.
RowStep(old, new) ==
    /\ old.state # "absent" => new.state # "absent" /\ new.intent = old.intent
    /\ old.state \in {"completed", "failed"} => new = old
    /\ new.produced_sha # old.produced_sha =>
         /\ old.produced_sha = 0
         /\ new.produced_sha = old.attempt_count
         /\ old.state = "running"
         /\ new.builder_worker_id = old.leased_by
    /\ \/ /\ PhaseOf(new) = PhaseOf(old)
          /\ AuthorOf(new) = AuthorOf(old)
          /\ ApproverOf(new) = ApproverOf(old)
       \/ /\ PhaseOf(old) = "absent"
          /\ PhaseOf(new) = "open"
          /\ AuthorOf(new) = AuthorOf(old)
          /\ ApproverOf(new) = ApproverOf(old)
       \/ /\ PhaseOf(old) = "open"
          /\ PhaseOf(new) = "built"
          /\ AuthorOf(new) \in Workers
          /\ ApproverOf(new) = ApproverOf(old)
       \/ /\ PhaseOf(old) = "built"
          /\ PhaseOf(new) = "approved"
          /\ AuthorOf(new) = AuthorOf(old)
          /\ ApproverOf(new) \in Workers \ {AuthorOf(old)}
       \/ /\ PhaseOf(old) \in {"open", "built"}
          /\ PhaseOf(new) = "abandoned"
          /\ AuthorOf(new) = AuthorOf(old)
          /\ ApproverOf(new) = ApproverOf(old)

\* A row that keeps its work makes an allowed step.
LEMMA KeptIsStep ==
    ASSUME NEW old, NEW new, RowKept(old, new)
    PROVE  RowStep(old, new)
<1>1. AuthorOf(new) = AuthorOf(old)
  BY DEF RowKept, AuthorOf
<1>2. ApproverOf(new) = ApproverOf(old)
  BY DEF RowKept, ApproverOf
<1>3. new.state = "failed" => PhaseOf(new) = "abandoned"
  BY DEF PhaseOf
<1> QED
  BY <1>1, <1>2, <1>3 DEF RowKept, RowStep

\* Several writes of one transaction that keep the work keep it together.
LEMMA KeptTransitive ==
    ASSUME NEW a, NEW b, NEW c, RowKept(a, b), RowKept(b, c)
    PROVE  RowKept(a, c)
BY DEF RowKept

\* A row that is not written keeps its work.
LEMMA KeptReflexive ==
    ASSUME NEW a PROVE RowKept(a, a)
BY DEF RowKept

\* Releasing a task in flight, whatever becomes of it.
LEMMA ReleaseIsKept ==
    ASSUME NEW row, RowInv(row), Active(row)
    PROVE  /\ RowKept(row, Released(row, Resume(row)))
           /\ RowKept(row, Released(row, "blocked"))
           /\ RowKept(row, Quarantine(Released(row, "failed")))
<1>1. row \in TaskRow /\ (row.produced_sha = 0 <=> row.state \in {"leased", "running"})
  BY ActiveRow
<1>2. PhaseOf(row) = IF row.produced_sha = 0 THEN "open" ELSE "built"
  BY <1>1 DEF PhaseOf, Active, ACTIVE
<1>3. ASSUME NEW state \in {Resume(row), "blocked", "failed"}
      PROVE  LET new == Released(row, state)
             IN  /\ new \in TaskRow
                 /\ new.state = state
                 /\ new.produced_sha = row.produced_sha
                 /\ new.builder_worker_id = row.builder_worker_id
                 /\ new.intent = row.intent
  BY <1>1 DEF Released, TaskRow, States, Resume
<1>4. ASSUME NEW state \in {Resume(row), "blocked"}
      PROVE  RowKept(row, Released(row, state))
  <2> DEFINE new == Released(row, state)
  <2>1. /\ new.state = state
        /\ new.produced_sha = row.produced_sha
        /\ new.builder_worker_id = row.builder_worker_id
        /\ new.intent = row.intent
    BY <1>3
  <2> HIDE DEF new
  <2>2. PhaseOf(new) = PhaseOf(row)
    BY <1>2, <2>1 DEF PhaseOf, Resume
  <2>3. RowKept(row, new)
    BY <2>1, <2>2 DEF RowKept, Active, ACTIVE, Resume
  <2> QED
    BY <2>3 DEF new
<1>5. RowKept(row, Quarantine(Released(row, "failed")))
  <2> DEFINE mid == Released(row, "failed")
             new == Quarantine(mid)
  <2>1. /\ mid \in TaskRow
        /\ mid.state = "failed"
        /\ mid.produced_sha = row.produced_sha
        /\ mid.builder_worker_id = row.builder_worker_id
        /\ mid.intent = row.intent
    BY <1>3
  <2> HIDE DEF mid
  <2>2. /\ new.state = "failed"
        /\ new.produced_sha = row.produced_sha
        /\ new.builder_worker_id = row.builder_worker_id
        /\ new.intent = row.intent
    BY <2>1 DEF Quarantine, TaskRow
  <2> HIDE DEF new
  <2>3. RowKept(row, new)
    BY <1>2, <2>2 DEF RowKept, Active, ACTIVE
  <2> QED
    BY <2>3 DEF new, mid
<1> QED
  BY <1>4, <1>5

\* Neither recovery touches the work of a row.
LEMMA RecoveryIsKept ==
    ASSUME NEW tab, TableInv(tab), NEW t \in Tasks, NEW pos
    PROVE  /\ RowKept(tab[t], Recover(tab)[t])
           /\ RowKept(tab[t], RecoverStalled(tab, pos)[t])
<1>1. RowInv(tab[t])
  BY DEF TableInv
<1>2. RowKept(tab[t], tab[t])
  BY KeptReflexive
<1>3. RowKept(tab[t], Recover(tab)[t])
  <2>1. CASE Expired(tab[t])
    <3>1. Recover(tab)[t] = Retry(tab[t])
      BY <2>1 DEF Recover
    <3> QED
      BY <1>1, <2>1, <3>1, ReleaseIsKept DEF Retry, Expired
  <2>2. CASE ~Expired(tab[t])
    BY <1>2, <2>2 DEF Recover
  <2> QED
    BY <2>1, <2>2
<1>4. RowKept(tab[t], RecoverStalled(tab, pos)[t])
  <2> DEFINE done == {u \in StalledRows(tab) : pos[u] < pos[t]}
  <2>1. CASE t \in StalledRows(tab)
    <3>1. RecoverStalled(tab, pos)[t] = Rerouted(tab, done, t)
      BY <2>1 DEF RecoverStalled
    <3>2. Active(tab[t])
      BY <2>1 DEF StalledRows
    <3> HIDE DEF done
    <3> QED
      BY <1>1, <3>1, <3>2, ReleaseIsKept DEF Rerouted
  <2>2. CASE t \notin StalledRows(tab)
    BY <1>2, <2>2 DEF RecoverStalled
  <2> QED
    BY <2>1, <2>2
<1> QED
  BY <1>3, <1>4

\* A claim changes who works on a task, not its work.
LEMMA ClaimIsKept ==
    ASSUME NEW tab, TableInv(tab), NEW w \in Workers, NEW role \in Roles,
           NEW t \in Claimable(tab, w, role)
    PROVE  RowKept(tab[t], Claimed(tab[t], w, role))
<1> DEFINE row == tab[t]
           new == Claimed(row, w, role)
<1>1. /\ t \in Tasks
      /\ role = "builder" => row.state = "queued"
      /\ role = "validator" => row.state = "validating"
  BY DEF Claimable, Roles
<1>2. row \in TaskRow
  BY <1>1 DEF TableInv
<1>3. /\ new.state = IF role = "builder" THEN "leased" ELSE "validating"
      /\ new.produced_sha = row.produced_sha
      /\ new.builder_worker_id = row.builder_worker_id
      /\ new.intent = row.intent
  BY <1>2 DEF Claimed, TaskRow
<1> HIDE DEF new
<1>4. PhaseOf(new) = PhaseOf(row)
  BY <1>1, <1>3 DEF PhaseOf, Roles
<1>5. RowKept(row, new)
  BY <1>1, <1>3, <1>4 DEF RowKept, Roles
<1> QED
  BY <1>5 DEF new

-----------------------------------------------------------------------------
(***************************************************************************)
(* Every step of the pool is a step of each task.                          *)
(***************************************************************************)

TableStep == \A t \in Tasks : RowStep(task[t], task'[t])

\* A step that writes a single row.
LEMMA PutIsStep ==
    ASSUME PoolInv, NEW t \in Tasks, NEW row, Put(t, row), RowStep(task[t], row)
    PROVE  TableStep
<1>1. \A u \in Tasks : task'[u] = IF u = t THEN row ELSE task[u]
  BY DEF Put, PoolInv, TableInv
<1>2. \A u \in Tasks : RowStep(task[u], task[u])
  BY KeptReflexive, KeptIsStep
<1> QED
  BY <1>1, <1>2 DEF TableStep

\* claim_task: two recoveries and the assignment, composed.
LEMMA ClaimIsStep ==
    ASSUME PoolInv, NEW w \in Workers, NEW role \in Roles, ClaimTask(w, role)
    PROVE  TableStep
<1>1. PICK pos \in LoopOrders(StalledRows(Recover(task))) :
        LET tab == RecoverStalled(Recover(task), pos)
            C   == Claimable(tab, w, role)
        IN  /\ Ready(tab, w, role)
            /\ \/ /\ C = {}
                  /\ task' = tab
                  /\ UNCHANGED lane
               \/ \E t \in First(C, tab, role) :
                  /\ task' = [tab EXCEPT ![t] = Claimed(tab[t], w, role)]
                  /\ lane' = [lane EXCEPT ![RepoOf[t]].claims[role] = @ + 1]
  BY DEF ClaimTask
<1> DEFINE mid == Recover(task)
           tab == RecoverStalled(mid, pos)
<1>2. TableInv(task) /\ TableInv(mid)
  BY RecoverKeepsTable DEF PoolInv
<1>3. TableInv(tab)
  BY <1>2, RecoverStalledKeepsTable
<1>4. ASSUME NEW t \in Tasks
      PROVE  RowKept(task[t], tab[t])
  <2>1. RowKept(task[t], mid[t])
    BY <1>2, RecoveryIsKept
  <2> HIDE DEF mid
  <2>2. RowKept(mid[t], tab[t])
    BY <1>2, RecoveryIsKept
  <2> HIDE DEF tab
  <2> QED
    BY <2>1, <2>2, KeptTransitive
<1>5. \/ task' = tab
      \/ \E t \in Claimable(tab, w, role) :
           task' = [tab EXCEPT ![t] = Claimed(tab[t], w, role)]
  BY <1>1 DEF First
<1> HIDE DEF tab
<1>6. CASE task' = tab
  BY <1>4, <1>6, KeptIsStep DEF TableStep
<1>7. ASSUME NEW t \in Claimable(tab, w, role),
             task' = [tab EXCEPT ![t] = Claimed(tab[t], w, role)]
      PROVE  TableStep
  <2>1. RowKept(tab[t], Claimed(tab[t], w, role)) /\ t \in Tasks
    BY <1>3, ClaimIsKept DEF Claimable
  <2>2. RowKept(task[t], Claimed(tab[t], w, role))
    BY <1>4, <2>1, KeptTransitive
  <2>3. \A u \in Tasks :
          task'[u] = IF u = t THEN Claimed(tab[t], w, role) ELSE tab[u]
    BY <1>3, <1>7 DEF TableInv
  <2>4. \A u \in Tasks : RowKept(task[u], task'[u])
    BY <1>4, <2>2, <2>3
  <2> QED
    BY <2>4, KeptIsStep DEF TableStep
<1> QED
  BY <1>5, <1>6, <1>7

\* A row rewritten in place in the same phase.
LEMMA SamePhaseIsKept ==
    ASSUME NEW old \in TaskRow, NEW new,
           old.state \notin {"absent", "completed", "failed"},
           new.state = old.state,
           new.produced_sha = old.produced_sha,
           new.builder_worker_id = old.builder_worker_id,
           new.intent = old.intent
    PROVE  RowStep(old, new)
<1>1. PhaseOf(new) = PhaseOf(old)
  BY DEF PhaseOf
<1>2. RowKept(old, new)
  BY <1>1 DEF RowKept
<1> QED
  BY <1>2, KeptIsStep

\* The calls under a lease: submit_for_validation hands work over,
\* complete_task approves it, the others keep it or abandon the task.
LEMMA LeaseCallIsStep ==
    ASSUME PoolInv, NEW t \in Tasks, NEW w \in Workers,
           NEW tok \in 1..task[t].attempt_count, LeaseCall(t, w, tok)
    PROVE  TableStep
<1> DEFINE old == task[t]
<1>1. RowInv(old) /\ old \in TaskRow
  BY DEF PoolInv, TableInv
<1> HIDE DEF old
<1>2. CASE RenewLease(t, w, tok)
  <2> DEFINE new == [old EXCEPT !.lease = "live"]
  <2>1. Put(t, new) /\ old.state \in ACTIVE
    BY <1>2 DEF RenewLease, HoldsLease, old
  <2>2. RowStep(old, new)
    BY <1>1, <2>1, SamePhaseIsKept DEF TaskRow, ACTIVE
  <2> QED
    BY <2>1, <2>2, PutIsStep DEF old
<1>3. CASE StartTask(t, w, tok)
  <2> DEFINE new == [old EXCEPT !.state = "running", !.builder_worker_id = w,
                                !.stalled = FALSE]
  <2>1. Put(t, new) /\ old.state = "leased"
    BY <1>3 DEF StartTask, HoldsLease, old
  <2>2. old.produced_sha = 0
    BY <1>1, <2>1 DEF RowInv, HandoffMatches
  <2>3. /\ new.state = "running"
        /\ new.produced_sha = old.produced_sha
        /\ new.intent = old.intent
    BY <1>1 DEF TaskRow
  <2>4. RowStep(old, new)
    BY <2>1, <2>2, <2>3 DEF RowStep, PhaseOf, AuthorOf, ApproverOf
  <2> QED
    BY <2>1, <2>4, PutIsStep DEF old
<1>4. CASE SubmitForValidation(t, w, tok)
  <2> DEFINE new == [Released(old, "validating") EXCEPT
                        !.produced_sha = tok, !.stalled = FALSE]
  <2>1. /\ Put(t, new)
        /\ old.state = "running"
        /\ old.leased_by = w
        /\ old.lease_token = tok
        /\ old.builder_worker_id = w
    BY <1>4 DEF SubmitForValidation, HoldsLease, old
  <2>2. old.produced_sha = 0 /\ tok = old.attempt_count
    BY <1>1, <2>1 DEF RowInv, HandoffMatches, WholeLease
  <2>3. tok # 0
    BY <1>1 DEF old, TaskRow
  <2>4. /\ new.state = "validating"
        /\ new.produced_sha = tok
        /\ new.builder_worker_id = w
        /\ new.intent = old.intent
    BY <1>1, <2>1 DEF Released, TaskRow
  <2> HIDE DEF new
  <2>5. RowStep(old, new)
    BY <2>1, <2>2, <2>3, <2>4 DEF RowStep, PhaseOf, AuthorOf, ApproverOf
  <2> QED
    BY <2>1, <2>5, PutIsStep DEF old
<1>5. CASE CompleteTask(t, w, tok)
  <2> DEFINE new == [Released(old, "completed") EXCEPT !.stalled = FALSE]
  <2>1. /\ Put(t, new)
        /\ old.state = "validating"
        /\ old.leased_by = w
        /\ old.builder_worker_id # w
        /\ old.produced_sha # 0
    BY <1>5 DEF CompleteTask, HoldsLease, old
  <2>2. old.validator_worker_id = w
    BY <1>1, <2>1 DEF RowInv, Independent
  <2>3. /\ new.state = "completed"
        /\ new.produced_sha = old.produced_sha
        /\ new.builder_worker_id = old.builder_worker_id
        /\ new.validator_worker_id = w
        /\ new.intent = old.intent
    BY <1>1, <2>2 DEF Released, TaskRow
  <2> HIDE DEF new
  <2>4. RowStep(old, new)
    BY <2>1, <2>3 DEF RowStep, PhaseOf, AuthorOf, ApproverOf
  <2> QED
    BY <2>1, <2>4, PutIsStep DEF old
<1>6. CASE FailTask(t, w, tok)
  <2>1. Put(t, Retry(old)) /\ Active(old)
    BY <1>6 DEF FailTask, HoldsLease, Active, old
  <2>2. RowKept(old, Retry(old))
    BY <1>1, <2>1, ReleaseIsKept DEF Retry
  <2> QED
    BY <2>1, <2>2, KeptIsStep, PutIsStep DEF old
<1>7. CASE BlockTask(t, w, tok)
  <2> DEFINE mid == Released(old, "blocked")
             new == [mid EXCEPT !.stalled = FALSE]
  <2>1. Put(t, new) /\ Active(old)
    BY <1>7 DEF BlockTask, HoldsLease, Active, old
  <2>2. RowKept(old, mid)
    BY <1>1, <2>1, ReleaseIsKept
  <2>3. mid \in TaskRow /\ mid.state = "blocked"
    BY <1>1 DEF Released, TaskRow, States
  <2> HIDE DEF mid
  <2>4. /\ new.state = "blocked"
        /\ new.produced_sha = mid.produced_sha
        /\ new.builder_worker_id = mid.builder_worker_id
        /\ new.intent = mid.intent
    BY <2>3 DEF TaskRow
  <2> HIDE DEF new
  <2>5. RowKept(mid, new)
    BY <2>3, <2>4 DEF RowKept, PhaseOf
  <2>6. RowStep(old, new)
    BY <2>2, <2>5, KeptTransitive, KeptIsStep
  <2> QED
    BY <2>1, <2>6, PutIsStep DEF old
<1> QED
  BY <1>2, <1>3, <1>4, <1>5, <1>6, <1>7 DEF LeaseCall

\* Enqueueing accepts a task; requeueing and the clocks keep its work.
LEMMA TaskIsStep ==
    ASSUME PoolInv, NEW t \in Tasks,
           \/ \E i \in Intents : EnqueueTask(t, i)
           \/ RequeueBlocked(t)
           \/ LeaseLapses(t)
           \/ ProgressLapses(t)
    PROVE  TableStep
<1> DEFINE old == task[t]
<1>1. RowInv(old) /\ old \in TaskRow /\ task \in [Tasks -> TaskRow]
  BY DEF PoolInv, TableInv
<1> HIDE DEF old
<1>2. ASSUME NEW i \in Intents, EnqueueTask(t, i)
      PROVE  TableStep
  <2>1. CASE UNCHANGED task
    BY <2>1, KeptReflexive, KeptIsStep DEF TableStep
  <2>2. CASE /\ old.state = "absent"
             /\ task' = [task EXCEPT ![t].state = "queued", ![t].intent = i]
    <3> DEFINE new == [old EXCEPT !.state = "queued", !.intent = i]
    <3>1. Put(t, new)
      BY <1>1, <1>2, <2>2 DEF EnqueueTask, Put, old
    <3>2. /\ new.state = "queued"
          /\ new.produced_sha = old.produced_sha
          /\ old.produced_sha = 0
      BY <1>1, <2>2 DEF TaskRow, RowInv, HandoffMatches
    <3>3. RowStep(old, new)
      BY <2>2, <3>2 DEF RowStep, PhaseOf, AuthorOf, ApproverOf
    <3> QED
      BY <3>1, <3>3, PutIsStep DEF old
  <2> QED
    BY <1>2, <2>1, <2>2 DEF EnqueueTask, old
<1>3. CASE RequeueBlocked(t)
  <2> DEFINE new == [old EXCEPT !.state = Resume(old), !.stalled = FALSE,
                                !.requeues = @ + 1]
  <2>1. Put(t, new) /\ old.state = "blocked"
    BY <1>3 DEF RequeueBlocked, old
  <2>2. /\ new.state = IF old.produced_sha # 0 THEN "validating" ELSE "queued"
        /\ new.produced_sha = old.produced_sha
        /\ new.builder_worker_id = old.builder_worker_id
        /\ new.intent = old.intent
    BY <1>1 DEF TaskRow, Resume
  <2> HIDE DEF new
  <2>3. RowKept(old, new)
    BY <2>1, <2>2 DEF RowKept, PhaseOf
  <2> QED
    BY <2>1, <2>3, KeptIsStep, PutIsStep DEF old
<1>4. CASE LeaseLapses(t)
  <2> DEFINE new == [old EXCEPT !.lease = "expired"]
  <2>1. Put(t, new)
    BY <1>4 DEF LeaseLapses, old
  <2>2. old.state \in ACTIVE
    BY <1>1, <1>4 DEF LeaseLapses, RowInv, WholeLease, Active, old
  <2>3. RowStep(old, new)
    BY <1>1, <2>2, SamePhaseIsKept DEF TaskRow, ACTIVE
  <2> QED
    BY <2>1, <2>3, PutIsStep DEF old
<1>5. CASE ProgressLapses(t)
  <2> DEFINE new == [old EXCEPT !.stalled = TRUE]
  <2>1. Put(t, new) /\ old.state \in ACTIVE
    BY <1>5 DEF ProgressLapses, Active, old
  <2>2. RowStep(old, new)
    BY <1>1, <2>1, SamePhaseIsKept DEF TaskRow, ACTIVE
  <2> QED
    BY <2>1, <2>2, PutIsStep DEF old
<1> QED
  BY <1>2, <1>3, <1>4, <1>5

\* Every transaction moves every row by at most one allowed step.
LEMMA NextIsStep == PoolInv /\ [Next]_vars => TableStep
<1> SUFFICES ASSUME PoolInv, [Next]_vars
             PROVE  TableStep
  OBVIOUS
<1>1. CASE UNCHANGED task
  BY <1>1, KeptReflexive, KeptIsStep DEF TableStep
<1>2. ASSUME NEW w \in Workers, WorkerCall(w)
      PROVE  TableStep
  BY <1>1, <1>2, ClaimIsStep
  DEF WorkerCall, RegisterWorker, HeartbeatRead, ReplaceWorkerAffinities
<1>3. CASE \/ \E b \in beats : HeartbeatWrite(b)
           \/ \E r \in Repos : ConfigureRepository(r)
           \/ \E w \in Workers : HeartbeatLapses(w)
           \/ UNCHANGED vars
  BY <1>1, <1>3 DEF HeartbeatWrite, ConfigureRepository, HeartbeatLapses, vars
<1>4. ASSUME NEW t \in Tasks, NEW w \in Workers,
             NEW tok \in 1..task[t].attempt_count, LeaseCall(t, w, tok)
      PROVE  TableStep
  BY <1>4, LeaseCallIsStep
<1>5. ASSUME NEW t \in Tasks,
             \/ \E i \in Intents : EnqueueTask(t, i)
             \/ RequeueBlocked(t)
             \/ LeaseLapses(t)
             \/ ProgressLapses(t)
      PROVE  TableStep
  BY <1>5, TaskIsStep
<1>6. CASE RecoverExpiredLeases \/ RecoverStalledTasks
  <2>1. \A t \in Tasks : RowKept(task[t], task'[t])
    BY <1>6, RecoveryIsKept
    DEF PoolInv, RecoverExpiredLeases, RecoverStalledTasks
  <2> QED
    BY <2>1, KeptIsStep DEF TableStep
<1> QED
  BY <1>2, <1>3, <1>4, <1>5, <1>6 DEF Next

-----------------------------------------------------------------------------
(***************************************************************************)
(* The action properties and the contract.                                 *)
(***************************************************************************)

\* The handed-over SHA is published once, under the last lease granted.
THEOREM FencedHandoff == Spec => HandoffFenced
<1>1. PoolInv /\ [Next]_vars =>
        [\A t \in Tasks :
            task'[t].produced_sha # task[t].produced_sha =>
                /\ task[t].produced_sha = 0
                /\ task'[t].produced_sha = task[t].attempt_count
                /\ task[t].state = "running"
                /\ task'[t].builder_worker_id = task[t].leased_by]_vars
  BY NextIsStep DEF TableStep, RowStep
<1> QED
  BY <1>1, PoolInvariant, PTL DEF Spec, HandoffFenced

\* Accepted tasks keep their intent and ended ones keep everything.
THEOREM AcceptedWorkKept == Spec => AcceptedWorkIsKept
<1>1. PoolInv /\ [Next]_vars =>
        [\A t \in Tasks :
            /\ task[t].state # "absent" =>
                 /\ task'[t].state # "absent"
                 /\ task'[t].intent = task[t].intent
            /\ task[t].state \in {"completed", "failed"} =>
                 task'[t] = task[t]]_vars
  BY NextIsStep DEF TableStep, RowStep
<1> QED
  BY <1>1, PoolInvariant, PTL DEF Spec, AcceptedWorkIsKept

\* The pool implements TaskContract under the mapping of
\* WorkerPoolProperties.
THEOREM PoolRefinesContract == Spec => ImplementsContract
<1>1. Init => Contract!Init
  BY DEF Init, Contract!Init, PhaseOf, AuthorOf, ApproverOf, AbsentTask
<1>2. PoolInv /\ [Next]_vars => [Contract!Next]_(Contract!contractVars)
  <2> SUFFICES ASSUME PoolInv, [Next]_vars
               PROVE  Contract!Next
    BY DEF Contract!contractVars
  <2>1. TableStep
    BY NextIsStep
  <2>2. ASSUME NEW t \in Tasks
        PROVE  \/ Contract!Same(t)
               \/ Contract!Accept(t)
               \/ Contract!HandOver(t)
               \/ Contract!Approve(t)
               \/ Contract!Abandon(t)
    <3>1. RowStep(task[t], task'[t])
      BY <2>1 DEF TableStep
    <3>2. /\ [u \in Tasks |-> PhaseOf(task[u])]'[t] = PhaseOf(task'[t])
          /\ [u \in Tasks |-> AuthorOf(task[u])]'[t] = AuthorOf(task'[t])
          /\ [u \in Tasks |-> ApproverOf(task[u])]'[t] = ApproverOf(task'[t])
      BY DEF PhaseOf, AuthorOf, ApproverOf
    <3> QED
      BY <3>1, <3>2
      DEF RowStep, Contract!Same, Contract!Accept, Contract!HandOver,
          Contract!Approve, Contract!Abandon
  <2> QED
    BY <2>2 DEF Contract!Next
<1> QED
  BY <1>1, <1>2, PoolInvariant, PTL
  DEF Spec, ImplementsContract, Contract!Spec


-----------------------------------------------------------------------------
(***************************************************************************)
(* Lanes, the watchdog and study mode.  Only a claim adds an attempt or    *)
(* puts a task in flight that nobody requeued, and only the watchdog       *)
(* blocks a task that is stalled.                                          *)
(***************************************************************************)

\* A write that is no claim.
Calm(old, new) ==
    /\ new.attempt_count = old.attempt_count
    /\ new.requeues = old.requeues \/ new.requeues # 0
    /\ Active(new) => Active(old) \/ new.requeues # 0

\* A write that is no decision of the watchdog.
Unblocked(old, new) == new.state = "blocked" => old.state = "blocked" \/ ~ new.stalled

LEMMA CalmReflexive ==
    ASSUME NEW a PROVE Calm(a, a) /\ Unblocked(a, a)
BY DEF Calm, Unblocked

LEMMA CalmTransitive ==
    ASSUME NEW a, NEW b, NEW c, Calm(a, b), Calm(b, c)
    PROVE  Calm(a, c)
BY DEF Calm

\* Releasing a task in flight.
LEMMA ReleaseIsCalm ==
    ASSUME NEW row \in TaskRow, Active(row), NEW state
    PROVE  /\ Calm(row, Released(row, state))
           /\ Released(row, state).leased_by = None
           /\ Released(row, state).state = state
           /\ Calm(row, Quarantine(Released(row, "failed")))
           /\ Quarantine(Released(row, "failed")).leased_by = None
           /\ Quarantine(Released(row, "failed")).state = "failed"
<1>1. ASSUME NEW s
      PROVE  LET new == Released(row, s) IN
             /\ new.attempt_count = row.attempt_count /\ new.requeues = row.requeues
             /\ new.leased_by = None /\ new.state = s
             /\ DOMAIN new = DOMAIN row
             /\ new = [f \in DOMAIN row |-> new[f]]
  BY DEF Released, TaskRow
<1>2. PICK mid : mid = Released(row, "failed")
  OBVIOUS
<1>3. /\ mid.attempt_count = row.attempt_count /\ mid.requeues = row.requeues
      /\ mid.leased_by = None /\ mid.state = "failed" /\ DOMAIN mid = DOMAIN row
  BY <1>1, <1>2
<1>4. PICK q : q = mid.quarantined + 1
  OBVIOUS
<1>5. Quarantine(mid) = [mid EXCEPT !.quarantined = q]
  BY <1>4 DEF Quarantine
<1>6. /\ Quarantine(mid).attempt_count = row.attempt_count /\ Quarantine(mid).requeues = row.requeues
      /\ Quarantine(mid).leased_by = None /\ Quarantine(mid).state = "failed"
  BY <1>1, <1>2, <1>3, <1>5 DEF TaskRow
<1> QED BY <1>1, <1>2, <1>6 DEF Calm

LEMMA RetryIsCalm ==
    ASSUME NEW row \in TaskRow, Active(row)
    PROVE  /\ Calm(row, Retry(row)) /\ Unblocked(row, Retry(row))
           /\ Retry(row).leased_by = None /\ Retry(row).state # "blocked"
<1>1. Resume(row) # "blocked"
  BY DEF Resume
<1> QED BY <1>1, ReleaseIsCalm DEF Retry, Unblocked

\* The watchdog blocks a task when everybody else who could take it over is
\* busy, before its loop already.
LEMMA RerouteIsCalm ==
    ASSUME NEW tab, tab \in [Tasks -> TaskRow], NEW done, NEW t \in Tasks, Active(tab[t])
    PROVE  /\ Calm(tab[t], Rerouted(tab, done, t))
           /\ Rerouted(tab, done, t).leased_by = None
           /\ Rerouted(tab, done, t).state = "blocked" =>
                \A w \in Workers \ {tab[t].leased_by} :
                    Eligible(w, RoleFor(tab[t])) /\ Serves(w, RepoOf[t]) => Busy(tab, w)
<1>1. tab[t] \in TaskRow /\ Resume(tab[t]) # "blocked"
  BY DEF Resume
<1>2. Calm(tab[t], Rerouted(tab, done, t)) /\ Rerouted(tab, done, t).leased_by = None
  BY <1>1, ReleaseIsCalm DEF Rerouted
<1>3. Rerouted(tab, done, t).state = "blocked" =>
          ~ \E w \in Workers : WorkerIsAlternative(tab, done, t, w)
  BY <1>1, ReleaseIsCalm DEF Rerouted
<1>4. ASSUME NEW w \in Workers \ {tab[t].leased_by}, Eligible(w, RoleFor(tab[t])), Serves(w, RepoOf[t]),
             ~ Busy(tab, w)
      PROVE  WorkerIsAlternative(tab, done, t, w)
  <2>1. \A u \in Tasks \ done : ~(Active(tab[u]) /\ tab[u].leased_by = w)
    BY <1>4 DEF Busy
  <2> QED BY <1>4, <2>1 DEF WorkerIsAlternative, RoleFor
<1> QED BY <1>2, <1>3, <1>4

LEMMA WatchdogIsCalm ==
    ASSUME NEW tab, tab \in [Tasks -> TaskRow], NEW pos, NEW t \in Tasks
    PROVE  LET new == RecoverStalled(tab, pos)[t] IN
           /\ Calm(tab[t], new)
           /\ new.leased_by \in {tab[t].leased_by, None}
           /\ (new.state = "blocked" /\ tab[t].state # "blocked") =>
                \A w \in Workers \ {tab[t].leased_by} :
                    Eligible(w, RoleFor(tab[t])) /\ Serves(w, RepoOf[t]) => Busy(tab, w)
<1> DEFINE new == RecoverStalled(tab, pos)[t]
           done == {u \in StalledRows(tab) : pos[u] < pos[t]}
<1>1. CASE t \in StalledRows(tab)
  <2>1. new = Rerouted(tab, done, t)
    BY <1>1 DEF RecoverStalled
  <2>2. Active(tab[t])
    BY <1>1 DEF StalledRows
  <2> HIDE DEF new, done
  <2>3. /\ Calm(tab[t], new) /\ new.leased_by = None
        /\ new.state = "blocked" =>
             \A w \in Workers \ {tab[t].leased_by} :
                 Eligible(w, RoleFor(tab[t])) /\ Serves(w, RepoOf[t]) => Busy(tab, w)
    BY <2>1, <2>2, RerouteIsCalm
  <2> QED BY <2>3 DEF new
<1>2. CASE t \notin StalledRows(tab)
  <2>1. new = tab[t]
    BY <1>2 DEF RecoverStalled
  <2> HIDE DEF new
  <2>2. Calm(tab[t], new)
    BY <2>1, CalmReflexive
  <2> QED BY <2>1, <2>2 DEF new
<1> QED BY <1>1, <1>2

\* _recover: who is busy afterwards was busy before.
LEMMA RecoverIsCalm ==
    ASSUME NEW tab, tab \in [Tasks -> TaskRow], NEW t \in Tasks
    PROVE  /\ Calm(tab[t], Recover(tab)[t]) /\ Unblocked(tab[t], Recover(tab)[t])
           /\ Recover(tab)[t].leased_by \in {tab[t].leased_by, None}
           /\ \/ Recover(tab)[t] = tab[t]
              \/ Recover(tab)[t].leased_by = None /\ Recover(tab)[t].state # "blocked"
<1>1. CASE Expired(tab[t])
  <2>1. Recover(tab)[t] = Retry(tab[t]) /\ Active(tab[t]) /\ tab[t] \in TaskRow
    BY <1>1 DEF Recover, Expired
  <2> QED BY <2>1, RetryIsCalm
<1>2. CASE ~Expired(tab[t])
  <2>1. Recover(tab)[t] = tab[t]
    BY <1>2 DEF Recover
  <2> QED BY <2>1, CalmReflexive
<1> QED BY <1>1, <1>2

\* A step that neither claims a task nor is a pass of the watchdog.
TableCalm ==
    \A t \in Tasks : Calm(task[t], task'[t]) /\ Unblocked(task[t], task'[t])

LEMMA PutIsCalm ==
    ASSUME PoolInv, NEW t \in Tasks, NEW row, Put(t, row),
           Calm(task[t], row), Unblocked(task[t], row)
    PROVE  TableCalm
<1>1. \A u \in Tasks : task'[u] = IF u = t THEN row ELSE task[u]
  BY DEF Put, PoolInv, TableInv
<1> QED
  BY <1>1, CalmReflexive DEF TableCalm

\* The calls under a lease end an attempt or keep it, and block_task restarts
\* the progress clock.
LEMMA LeaseCallIsCalm ==
    ASSUME PoolInv, NEW t \in Tasks, NEW w \in Workers,
           NEW tok \in 1..task[t].attempt_count, LeaseCall(t, w, tok)
    PROVE  TableCalm
<1> DEFINE old == task[t]
<1>1. old \in TaskRow
  BY DEF PoolInv, TableInv
<1>2. Active(old)
  BY DEF LeaseCall, RenewLease, StartTask, SubmitForValidation, CompleteTask,
         FailTask, BlockTask, HoldsLease, Active, ACTIVE
<1>3. SUFFICES ASSUME NEW row, Put(t, row),
                      \/ row = [old EXCEPT !.lease = "live"]
                      \/ row = [old EXCEPT !.state = "running",
                                  !.builder_worker_id = w, !.stalled = FALSE]
                      \/ row = [Released(old, "validating") EXCEPT
                                  !.produced_sha = tok, !.stalled = FALSE]
                      \/ row = [Released(old, "completed") EXCEPT !.stalled = FALSE]
                      \/ row = Retry(old)
                      \/ row = [Released(old, "blocked") EXCEPT !.stalled = FALSE]
               PROVE  Calm(old, row) /\ Unblocked(old, row)
  <2>1. ASSUME NEW row, Put(t, row), Calm(old, row), Unblocked(old, row)
        PROVE  TableCalm
    BY <2>1, PutIsCalm
  <2> QED
    BY <1>3, <2>1 DEF LeaseCall, RenewLease, StartTask, SubmitForValidation,
           CompleteTask, FailTask, BlockTask
<1> HIDE DEF old
<1>4. CASE row = [old EXCEPT !.lease = "live"]
  <2>1. /\ row.state = old.state /\ row.attempt_count = old.attempt_count
        /\ row.requeues = old.requeues
    BY <1>1, <1>4 DEF TaskRow
  <2> QED
    BY <1>2, <2>1 DEF Calm, Unblocked, Active, ACTIVE
<1>5. CASE row = [old EXCEPT !.state = "running", !.builder_worker_id = w,
                             !.stalled = FALSE]
  <2>1. /\ row.state = "running" /\ row.attempt_count = old.attempt_count
        /\ row.requeues = old.requeues
    BY <1>1, <1>5 DEF TaskRow
  <2> QED
    BY <1>2, <2>1 DEF Calm, Unblocked
<1>6. ASSUME NEW s, row = [Released(old, s) EXCEPT !.stalled = FALSE]
      PROVE  Calm(old, row) /\ Unblocked(old, row)
  <2>1. PICK mid : mid = Released(old, s)
    OBVIOUS
  <2>2. /\ mid.attempt_count = old.attempt_count /\ mid.requeues = old.requeues
        /\ DOMAIN mid = DOMAIN old
    BY <1>1, <2>1 DEF Released, TaskRow
  <2>3. "stalled" \in DOMAIN mid
    BY <1>1, <2>2 DEF TaskRow
  <2>4. row = [mid EXCEPT !.stalled = FALSE]
    BY <1>6, <2>1
  <2>5. row.stalled = FALSE
    BY <2>3, <2>4, Zenon
  <2>6. row.attempt_count = mid.attempt_count /\ row.requeues = mid.requeues
    BY <1>1, <2>2, <2>4 DEF TaskRow
  <2> QED
    BY <1>2, <2>2, <2>5, <2>6 DEF Calm, Unblocked
<1>7. CASE row = [Released(old, "validating") EXCEPT
                     !.produced_sha = tok, !.stalled = FALSE]
  <2>1. /\ row.state = "validating" /\ row.attempt_count = old.attempt_count
        /\ row.requeues = old.requeues
    BY <1>1, <1>7 DEF TaskRow, Released
  <2> QED
    BY <1>2, <2>1 DEF Calm, Unblocked
<1>8. CASE row = Retry(old)
  BY <1>1, <1>2, <1>8, RetryIsCalm
<1> QED
  BY <1>3, <1>4, <1>5, <1>6, <1>7, <1>8

\* Enqueueing, requeueing and the clocks.
LEMMA TaskIsCalm ==
    ASSUME PoolInv, NEW t \in Tasks,
           \/ \E i \in Intents : EnqueueTask(t, i)
           \/ RequeueBlocked(t)
           \/ LeaseLapses(t)
           \/ ProgressLapses(t)
    PROVE  TableCalm
<1> DEFINE old == task[t]
<1>1. old \in TaskRow /\ task \in [Tasks -> TaskRow]
  BY DEF PoolInv, TableInv
<1> HIDE DEF old
<1>2. ASSUME NEW i \in Intents, EnqueueTask(t, i)
      PROVE  TableCalm
  <2>1. CASE UNCHANGED task
    BY <2>1, CalmReflexive DEF TableCalm
  <2>2. CASE task' = [task EXCEPT ![t].state = "queued", ![t].intent = i]
    <3> DEFINE new == [old EXCEPT !.state = "queued", !.intent = i]
    <3>1. Put(t, new)
      BY <1>1, <1>2, <2>2 DEF EnqueueTask, Put, old
    <3>2. /\ new.state = "queued" /\ new.attempt_count = old.attempt_count
          /\ new.requeues = old.requeues
      BY <1>1 DEF TaskRow
    <3> HIDE DEF new
    <3>3. Calm(old, new) /\ Unblocked(old, new)
      BY <3>2 DEF Calm, Unblocked, Active, ACTIVE
    <3> QED
      BY <3>1, <3>3, PutIsCalm DEF old
  <2> QED
    BY <1>2, <2>1, <2>2 DEF EnqueueTask
<1>3. CASE RequeueBlocked(t)
  <2> DEFINE new == [old EXCEPT !.state = Resume(old), !.stalled = FALSE,
                                !.requeues = @ + 1]
  <2>1. Put(t, new) /\ old.state = "blocked"
    BY <1>3 DEF RequeueBlocked, old
  <2>2. /\ new.attempt_count = old.attempt_count
        /\ new.requeues = old.requeues + 1
        /\ old.requeues \in Nat
    BY <1>1 DEF TaskRow
  <2> HIDE DEF new
  <2>3. Calm(old, new) /\ Unblocked(old, new)
    BY <2>1, <2>2 DEF Calm, Unblocked
  <2> QED
    BY <2>1, <2>3, PutIsCalm DEF old
<1>4. ASSUME NEW row, Put(t, row),
             \/ row = [old EXCEPT !.lease = "expired"]
             \/ row = [old EXCEPT !.stalled = TRUE]
      PROVE  Calm(old, row) /\ (old.state # "blocked" => Unblocked(old, row))
  <2>1. /\ row.state = old.state /\ row.attempt_count = old.attempt_count
        /\ row.requeues = old.requeues
    BY <1>1, <1>4 DEF TaskRow
  <2> QED
    BY <2>1 DEF Calm, Unblocked, Active
<1>5. CASE LeaseLapses(t) \/ ProgressLapses(t)
  <2>1. Active(old)
    BY <1>5 DEF PoolInv, TableInv, LeaseLapses, ProgressLapses, RowInv, WholeLease, old
  <2>2. PICK row : /\ Put(t, row)
                   /\ \/ row = [old EXCEPT !.lease = "expired"]
                      \/ row = [old EXCEPT !.stalled = TRUE]
    BY <1>5 DEF LeaseLapses, ProgressLapses, old
  <2>3. Calm(old, row) /\ Unblocked(old, row)
    BY <1>4, <2>1, <2>2 DEF Active, ACTIVE
  <2> QED
    BY <2>2, <2>3, PutIsCalm DEF old
<1> QED
  BY <1>2, <1>3, <1>5

\* Every step but the watchdog's and a claim is calm.
LEMMA NextIsCalm ==
    ASSUME PoolInv, [Next]_vars
    PROVE  \/ TableCalm
           \/ RecoverStalledTasks
           \/ \E w \in Workers, role \in Roles : ClaimTask(w, role)
<1>1. CASE UNCHANGED task
  BY <1>1, CalmReflexive DEF TableCalm
<1>2. ASSUME NEW w \in Workers, WorkerCall(w)
      PROVE  UNCHANGED task \/ \E role \in Roles : ClaimTask(w, role)
  BY <1>2 DEF WorkerCall, RegisterWorker, HeartbeatRead, ReplaceWorkerAffinities
<1>3. CASE \/ \E b \in beats : HeartbeatWrite(b)
           \/ \E r \in Repos : ConfigureRepository(r)
           \/ \E w \in Workers : HeartbeatLapses(w)
           \/ UNCHANGED vars
  BY <1>1, <1>3 DEF HeartbeatWrite, ConfigureRepository, HeartbeatLapses, vars
<1>4. ASSUME NEW t \in Tasks, NEW w \in Workers,
             NEW tok \in 1..task[t].attempt_count, LeaseCall(t, w, tok)
      PROVE  TableCalm
  BY <1>4, LeaseCallIsCalm
<1>5. ASSUME NEW t \in Tasks,
             \/ \E i \in Intents : EnqueueTask(t, i)
             \/ RequeueBlocked(t)
             \/ LeaseLapses(t)
             \/ ProgressLapses(t)
      PROVE  TableCalm
  BY <1>5, TaskIsCalm
<1>6. CASE RecoverExpiredLeases
  <2>1. task' = Recover(task) /\ task \in [Tasks -> TaskRow]
    BY <1>6 DEF RecoverExpiredLeases, PoolInv, TableInv
  <2> QED
    BY <2>1, RecoverIsCalm DEF TableCalm
<1> QED
  BY <1>1, <1>2, <1>3, <1>4, <1>5, <1>6 DEF Next

\* Everybody else who could take the task over is busy.
NobodyElse(t) ==
    \A v \in Workers \ {task[t].leased_by} :
        Eligible(v, RoleFor(task[t])) /\ Serves(v, RepoOf[t]) => Busy(task, v)

\* claim_task: both recoveries, then at most one assignment.
LEMMA ClaimOutcome ==
    ASSUME PoolInv, NEW w \in Workers, NEW role \in Roles, ClaimTask(w, role)
    PROVE  \E tab :
             /\ TableInv(tab)
             /\ Ready(tab, w, role)
             /\ \A t \in Tasks :
                  /\ Calm(task[t], tab[t])
                  /\ tab[t].leased_by \in {task[t].leased_by, None}
                  /\ (tab[t].state = "blocked" /\ task[t].state # "blocked")
                       => NobodyElse(t)
             /\ \/ task' = tab
                \/ \E t \in Claimable(tab, w, role) :
                     task' = [tab EXCEPT ![t] = Claimed(tab[t], w, role)]
<1>1. PICK mid : mid = Recover(task)
  OBVIOUS
<1>2. PICK pos : /\ Ready(RecoverStalled(mid, pos), w, role)
                 /\ LET tab == RecoverStalled(mid, pos) IN
                    \/ task' = tab
                    \/ \E t \in Claimable(tab, w, role) :
                         task' = [tab EXCEPT ![t] = Claimed(tab[t], w, role)]
  BY <1>1 DEF ClaimTask, First
<1>3. PICK tab : tab = RecoverStalled(mid, pos)
  OBVIOUS
<1>4. /\ TableInv(task) /\ TableInv(mid) /\ TableInv(tab)
      /\ task \in [Tasks -> TaskRow] /\ mid \in [Tasks -> TaskRow]
  <2>1. TableInv(task)
    BY DEF PoolInv
  <2>2. TableInv(mid)
    BY <1>1, <2>1, RecoverKeepsTable
  <2>3. TableInv(tab)
    BY <1>3, <2>2, RecoverStalledKeepsTable
  <2> QED
    BY <2>1, <2>2, <2>3 DEF TableInv
<1>5. ASSUME NEW t \in Tasks
      PROVE  /\ Calm(task[t], mid[t])
             /\ mid[t].leased_by \in {task[t].leased_by, None}
             /\ \/ mid[t] = task[t]
                \/ mid[t].leased_by = None /\ mid[t].state # "blocked"
             /\ RoleFor(mid[t]) = RoleFor(task[t])
  <2>1. RowKept(task[t], mid[t])
    BY <1>1, <1>4, RecoveryIsKept
  <2>2. RoleFor(mid[t]) = RoleFor(task[t])
    BY <2>1 DEF RowKept, RoleFor
  <2> QED
    BY <1>1, <1>4, <2>2, RecoverIsCalm
<1>6. ASSUME NEW t \in Tasks
      PROVE  /\ Calm(mid[t], tab[t])
             /\ tab[t].leased_by \in {mid[t].leased_by, None}
             /\ (tab[t].state = "blocked" /\ mid[t].state # "blocked") =>
                  \A v \in Workers \ {mid[t].leased_by} :
                      Eligible(v, RoleFor(mid[t])) /\ Serves(v, RepoOf[t])
                        => Busy(mid, v)
  BY <1>3, <1>4, WatchdogIsCalm
<1>7. ASSUME NEW v \in Workers, Busy(mid, v)
      PROVE  Busy(task, v)
  <2>1. PICK u \in Tasks : Active(mid[u]) /\ mid[u].leased_by = v
    BY <1>7 DEF Busy
  <2>2. mid[u] = task[u]
    BY <1>5, <2>1, NullAssumption
  <2> QED
    BY <2>1, <2>2 DEF Busy
<1>8. ASSUME NEW t \in Tasks
      PROVE  /\ Calm(task[t], tab[t])
             /\ tab[t].leased_by \in {task[t].leased_by, None}
             /\ (tab[t].state = "blocked" /\ task[t].state # "blocked")
                  => NobodyElse(t)
  <2>1. Calm(task[t], tab[t]) /\ tab[t].leased_by \in {task[t].leased_by, None}
    BY <1>5, <1>6, CalmTransitive
  <2>2. ASSUME tab[t].state = "blocked", task[t].state # "blocked"
        PROVE  NobodyElse(t)
    <3>1. mid[t].state # "blocked"
      BY <1>5, <2>2
    <3>2. \A v \in Workers \ {mid[t].leased_by} :
              Eligible(v, RoleFor(task[t])) /\ Serves(v, RepoOf[t]) => Busy(mid, v)
      BY <1>5, <1>6, <2>2, <3>1
    <3> SUFFICES ASSUME NEW v \in Workers \ {task[t].leased_by},
                        Eligible(v, RoleFor(task[t])), Serves(v, RepoOf[t])
                 PROVE  Busy(task, v)
      BY DEF NobodyElse
    <3>3. v # mid[t].leased_by
      BY <1>5, NullAssumption
    <3> QED
      BY <1>7, <3>2, <3>3
  <2> QED
    BY <2>1, <2>2
<1> QED
  BY <1>2, <1>3, <1>4, <1>8

\* What a claim writes.
LEMMA ClaimedRow ==
    ASSUME NEW row \in TaskRow, NEW w, NEW role \in Roles
    PROVE  /\ Claimed(row, w, role).state
                = IF role = "builder" THEN "leased" ELSE "validating"
           /\ Claimed(row, w, role).leased_by = w
           /\ Claimed(row, w, role).requeues = row.requeues
           /\ Claimed(row, w, role).state # "blocked"
           /\ Active(Claimed(row, w, role))
BY DEF Claimed, TaskRow, Roles, Active, ACTIVE

\* The watchdog, on its own or in a claim, blocks a task only when every other
\* worker that could take it over was busy before its pass.
THEOREM BlockedWithCause == Spec => BlockedForCause
<1>1. ASSUME PoolInv, [Next]_vars, NEW t \in Tasks,
             task[t].state # "blocked", task'[t].state = "blocked",
             task'[t].stalled
      PROVE  NobodyElse(t)
  <2>1. CASE TableCalm
    BY <1>1, <2>1 DEF TableCalm, Unblocked
  <2>2. CASE RecoverStalledTasks
    <3>1. PICK pos : task' = RecoverStalled(task, pos)
      BY <2>2 DEF RecoverStalledTasks
    <3>2. task \in [Tasks -> TaskRow]
      BY <1>1 DEF PoolInv, TableInv
    <3> QED
      BY <1>1, <3>1, <3>2, WatchdogIsCalm DEF NobodyElse
  <2>3. ASSUME NEW w \in Workers, NEW role \in Roles, ClaimTask(w, role)
        PROVE  NobodyElse(t)
    <3>1. PICK tab :
             /\ TableInv(tab)
             /\ (tab[t].state = "blocked" /\ task[t].state # "blocked")
                  => NobodyElse(t)
             /\ \/ task' = tab
                \/ \E u \in Claimable(tab, w, role) :
                     task' = [tab EXCEPT ![u] = Claimed(tab[u], w, role)]
      BY <1>1, <2>3, ClaimOutcome
    <3>2. tab[t].state = "blocked"
      <4>1. ASSUME NEW u \in Claimable(tab, w, role),
                   task' = [tab EXCEPT ![u] = Claimed(tab[u], w, role)]
            PROVE  task'[t] = tab[t]
        <5>1. u \in Tasks /\ tab \in [Tasks -> TaskRow]
          BY <3>1 DEF Claimable, TableInv
        <5>2. Claimed(tab[u], w, role).state # "blocked"
          BY <5>1, ClaimedRow
        <5> QED
          BY <1>1, <4>1, <5>1, <5>2
      <4> QED
        BY <1>1, <3>1, <4>1
    <3> QED
      BY <1>1, <3>1, <3>2
  <2> QED
    BY <1>1, <2>1, <2>2, <2>3, NextIsCalm
<1>2. PoolInv /\ [Next]_vars =>
        [\A t \in Tasks :
            /\ task[t].state # "blocked"
            /\ task'[t].state = "blocked"
            /\ task'[t].stalled
            => \A w \in Workers \ {task[t].leased_by} :
                 Eligible(w, RoleFor(task[t])) /\ Serves(w, RepoOf[t])
                   => Busy(task, w)]_vars
  BY <1>1 DEF NobodyElse
<1> QED
  BY <1>2, PoolInvariant, PTL DEF Spec, BlockedForCause

-----------------------------------------------------------------------------
(***************************************************************************)
(* The limit of a lane.  A lane may be over its limit, because a limit can *)
(* be lowered under work in flight, so what is bounded is the work in      *)
(* flight under the largest limit any call may set.                        *)
(***************************************************************************)

Limits == {1} \cup {c.max_in_flight : c \in LaneConfigs}

\* The limits that main.py lets through are at most 100: one is the largest.
LEMMA LargestLimitIsLargest ==
    /\ LargestLimit \in Limits
    /\ \A n \in Limits : n \in Nat /\ n <= LargestLimit
    /\ LargestLimit \in Nat
<1> DEFINE Gaps == {100 - n : n \in Limits}
<1>1. Limits \subseteq 1..100
  BY RequestAssumption DEF Limits, LaneConfig
<1>2. Gaps \subseteq Nat /\ 99 \in Gaps
  <2>1. 1 \in Limits
    BY DEF Limits
  <2> QED
    BY <1>1, <2>1
<1>3. PICK x \in Gaps : \A y \in Gaps : <<y, x>> \notin OpToRel(<, Nat)
  <2> HIDE DEF Gaps
  <2>1. Gaps # {}
    BY <1>2
  <2> QED
    BY <1>2, <2>1, NatLessThanWellFounded, WFMin
<1>4. \A y \in Gaps : ~(y < x)
  <2> HIDE DEF Gaps
  <2> QED
    BY <1>2, <1>3, Zenon DEF OpToRel
<1>5. PICK m \in Limits : x = 100 - m
  BY <1>3
<1>6. ASSUME NEW n \in Limits
      PROVE  n <= m
  <2>1. 100 - n \in Gaps
    OBVIOUS
  <2>2. ~(100 - n < 100 - m)
    BY <1>4, <1>5, <2>1
  <2>3. n \in Int /\ m \in Int
    BY <1>1
  <2> QED
    BY <2>2, <2>3
<1>7. LargestLimit \in Limits /\ \A n \in Limits : n <= LargestLimit
  BY <1>6, Zenon DEF LargestLimit, Limits
<1> QED
  BY <1>1, <1>7

\* Only configure_repository sets the limit of a lane.
LimitsKnown == \A r \in Repos : lane[r].max_in_flight \in Limits

LEMMA LimitsStayKnown ==
    ASSUME PoolInv, LimitsKnown, [Next]_vars
    PROVE  LimitsKnown'
<1>1. CASE UNCHANGED lane
  BY <1>1 DEF LimitsKnown
<1>2. lane \in [Repos -> LaneRow]
  BY DEF PoolInv, OtherTables
<1>3. ASSUME NEW r \in Repos, ConfigureRepository(r)
      PROVE  LimitsKnown'
  <2>1. PICK c \in LaneConfigs :
          lane' = [lane EXCEPT ![r].enabled       = c.enabled,
                               ![r].max_in_flight = c.max_in_flight]
    BY <1>3 DEF ConfigureRepository
  <2>2. ASSUME NEW s \in Repos
        PROVE  lane'[s].max_in_flight \in {lane[s].max_in_flight, c.max_in_flight}
    BY <1>2, <2>1 DEF LaneRow
  <2>3. c.max_in_flight \in Limits
    BY DEF Limits
  <2> QED
    BY <2>2, <2>3 DEF LimitsKnown
<1>4. ASSUME NEW w \in Workers, NEW role \in Roles, ClaimTask(w, role)
      PROVE  LimitsKnown'
  <2>1. ASSUME NEW q, lane' = [lane EXCEPT ![q].claims[role] = @ + 1],
               NEW s \in Repos
        PROVE  lane'[s].max_in_flight = lane[s].max_in_flight
    <3>1. lane[s] \in LaneRow
      BY <1>2
    <3>2. PICK k : k = [lane[s].claims EXCEPT ![role] = @ + 1]
      OBVIOUS
    <3>3. lane'[s] = IF s = q THEN [lane[s] EXCEPT !.claims = k] ELSE lane[s]
      BY <1>2, <2>1, <3>2
    <3> QED
      BY <3>1, <3>3 DEF LaneRow
  <2>2. \/ UNCHANGED lane
        \/ \E q : lane' = [lane EXCEPT ![q].claims[role] = @ + 1]
    BY <1>4 DEF ClaimTask
  <2> QED
    BY <1>1, <2>1, <2>2 DEF LimitsKnown
<1>5. ASSUME NEW w \in Workers, WorkerCall(w)
      PROVE  LimitsKnown'
  BY <1>1, <1>4, <1>5
  DEF WorkerCall, RegisterWorker, HeartbeatRead, ReplaceWorkerAffinities
<1>6. ASSUME NEW t \in Tasks, NEW w \in Workers,
             NEW tok \in 1..task[t].attempt_count, LeaseCall(t, w, tok)
      PROVE  LimitsKnown'
  BY <1>1, <1>6
  DEF LeaseCall, RenewLease, StartTask, SubmitForValidation, CompleteTask,
      FailTask, BlockTask, Put
<1>7. ASSUME NEW t \in Tasks,
             \/ \E i \in Intents : EnqueueTask(t, i)
             \/ RequeueBlocked(t)
             \/ LeaseLapses(t)
             \/ ProgressLapses(t)
      PROVE  LimitsKnown'
  BY <1>1, <1>7 DEF EnqueueTask, RequeueBlocked, LeaseLapses, ProgressLapses, Put
<1>8. CASE RecoverExpiredLeases \/ RecoverStalledTasks
  BY <1>1, <1>8 DEF RecoverExpiredLeases, RecoverStalledTasks
<1>9. CASE \/ \E w \in Workers : HeartbeatLapses(w)
           \/ \E b \in beats : HeartbeatWrite(b)
           \/ UNCHANGED vars
  BY <1>1, <1>9 DEF HeartbeatLapses, HeartbeatWrite, vars
<1> QED
  BY <1>3, <1>5, <1>6, <1>7, <1>8, <1>9 DEF Next

\* The work in flight of a lane that nobody requeued.
NewWork(tab, r) == {t \in InFlight(tab, r) : tab[t].requeues = 0}

\* Calm writes put no new work in flight.
LEMMA CalmAddsNoWork ==
    ASSUME NEW tab, NEW new, NEW r, \A t \in Tasks : Calm(tab[t], new[t])
    PROVE  NewWork(new, r) \subseteq NewWork(tab, r)
BY DEF NewWork, InFlight, Calm

\* A builder's claim finds the lane under its limit, after the recoveries of
\* the same transaction; a validator's claim takes work already in flight.
LEMMA ClaimFitsLane ==
    ASSUME IsFiniteSet(Tasks), PoolInv, LimitsKnown, NewWorkFitsLane,
           NEW w \in Workers, NEW role \in Roles, ClaimTask(w, role),
           NEW r \in Repos
    PROVE  Cardinality(NewWork(task', r)) <= LargestLimit
<1>1. PICK tab :
         /\ TableInv(tab)
         /\ \A t \in Tasks : Calm(task[t], tab[t])
         /\ \/ task' = tab
            \/ \E t \in Claimable(tab, w, role) :
                 task' = [tab EXCEPT ![t] = Claimed(tab[t], w, role)]
  BY ClaimOutcome
<1>2. PICK new : new = task'
  OBVIOUS
<1>3. /\ \A S \in SUBSET Tasks : IsFiniteSet(S) /\ Cardinality(S) \in Nat
      /\ \A S, T \in SUBSET Tasks :
            S \subseteq T => Cardinality(S) <= Cardinality(T)
  <2>1. \A S \in SUBSET Tasks : IsFiniteSet(S) /\ Cardinality(S) \in Nat
    BY FS_Subset, FS_CardinalityType
  <2> QED
    BY <2>1, FS_Subset
<1>4. Cardinality(NewWork(tab, r)) <= LargestLimit
  <2>1. NewWork(tab, r) \subseteq NewWork(task, r)
    BY <1>1, CalmAddsNoWork
  <2>2. NewWork(tab, r) \in SUBSET Tasks /\ NewWork(task, r) \in SUBSET Tasks
    BY DEF NewWork, InFlight
  <2>3. Cardinality(NewWork(task, r)) <= LargestLimit
    BY DEF NewWorkFitsLane, NewWork
  <2> QED
    BY <1>3, <2>1, <2>2, <2>3, LargestLimitIsLargest
<1>5. ASSUME NEW t \in Claimable(tab, w, role),
             new = [tab EXCEPT ![t] = Claimed(tab[t], w, role)]
      PROVE  Cardinality(NewWork(new, r)) <= LargestLimit
  <2>1. t \in Tasks /\ tab \in [Tasks -> TaskRow] /\ tab[t] \in TaskRow
    BY <1>1 DEF Claimable, TableInv
  <2>2. PICK row : row = Claimed(tab[t], w, role)
    OBVIOUS
  <2>3. row.requeues = tab[t].requeues /\ Active(row)
    BY <2>1, <2>2, ClaimedRow
  <2>4. \A u \in Tasks : new[u] = IF u = t THEN row ELSE tab[u]
    BY <1>5, <2>1, <2>2
  <2>5. CASE Active(tab[t]) \/ RepoOf[t] # r
    <3>1. NewWork(new, r) = NewWork(tab, r)
      BY <2>1, <2>3, <2>4, <2>5 DEF NewWork, InFlight
    <3> QED
      BY <1>4, <3>1
  <2>6. CASE ~Active(tab[t]) /\ RepoOf[t] = r
    <3>1. role = "builder"
      BY <2>6 DEF Claimable, Active, ACTIVE
    <3>2. Cardinality(InFlight(tab, r)) < lane[r].max_in_flight
      BY <2>6, <3>1 DEF Claimable
    <3>3. PICK S : S = InFlight(tab, r)
      OBVIOUS
    <3>4. S \in SUBSET Tasks /\ S \cup {t} \in SUBSET Tasks
      BY <2>1, <3>3 DEF InFlight
    <3>5. NewWork(new, r) \subseteq S \cup {t}
      BY <2>4, <3>3 DEF NewWork, InFlight
    <3>6. Cardinality(S \cup {t}) <= Cardinality(S) + 1
      BY <1>3, <3>4, FS_AddElement
    <3>7. lane[r].max_in_flight <= LargestLimit /\ lane[r].max_in_flight \in Nat
      BY LargestLimitIsLargest DEF LimitsKnown
    <3>8. Cardinality(NewWork(new, r)) <= Cardinality(S \cup {t})
      <4>1. NewWork(new, r) \in SUBSET Tasks
        BY DEF NewWork, InFlight
      <4> QED
        BY <1>3, <3>4, <3>5, <4>1
    <3>9. /\ Cardinality(NewWork(new, r)) \in Nat
          /\ Cardinality(S) \in Nat /\ Cardinality(S \cup {t}) \in Nat
      <4>1. NewWork(new, r) \in SUBSET Tasks
        BY DEF NewWork, InFlight
      <4> QED
        BY <1>3, <3>4, <4>1
    <3> QED
      BY <3>2, <3>3, <3>6, <3>7, <3>8, <3>9, LargestLimitIsLargest
  <2> QED
    BY <2>5, <2>6
<1>6. Cardinality(NewWork(new, r)) <= LargestLimit
  BY <1>1, <1>2, <1>4, <1>5
<1> QED
  BY <1>2, <1>6

\* Work that no operator has requeued never exceeds the limit of its lane,
\* whichever claims, recoveries and requeues come together, when the tasks are
\* finitely many.
THEOREM NewWorkFits == IsFiniteSet(Tasks) /\ Spec => []NewWorkFitsLane
<1> SUFFICES ASSUME IsFiniteSet(Tasks)
             PROVE  Spec => []NewWorkFitsLane
  OBVIOUS
<1>1. Init => LimitsKnown /\ NewWorkFitsLane
  <2> SUFFICES ASSUME Init PROVE LimitsKnown /\ NewWorkFitsLane
    OBVIOUS
  <2>1. LimitsKnown
    BY DEF Init, LimitsKnown, Limits, DefaultLane
  <2>2. ASSUME NEW r \in Repos
        PROVE  Cardinality(NewWork(task, r)) <= LargestLimit
    <3>1. NewWork(task, r) = {}
      BY DEF NewWork, InFlight, Init, AbsentTask, Active, ACTIVE
    <3>2. Cardinality({}) = 0
      BY FS_EmptySet
    <3> QED
      BY <3>1, <3>2, LargestLimitIsLargest
  <2> QED
    BY <2>1, <2>2 DEF NewWorkFitsLane, NewWork
<1>2. ASSUME PoolInv, LimitsKnown, NewWorkFitsLane, [Next]_vars
      PROVE  LimitsKnown' /\ NewWorkFitsLane'
  <2>1. LimitsKnown'
    BY <1>2, LimitsStayKnown
  <2>2. ASSUME NEW r \in Repos, \A t \in Tasks : Calm(task[t], task'[t])
        PROVE  Cardinality(NewWork(task', r)) <= LargestLimit
    <3>1. PICK old, new : old = task /\ new = task'
      OBVIOUS
    <3>2. NewWork(new, r) \subseteq NewWork(old, r)
      BY <2>2, <3>1, CalmAddsNoWork
    <3>3. NewWork(new, r) \in SUBSET Tasks /\ NewWork(old, r) \in SUBSET Tasks
      BY DEF NewWork, InFlight
    <3>4. IsFiniteSet(NewWork(old, r)) /\ IsFiniteSet(NewWork(new, r))
      BY <3>3, FS_Subset
    <3>5. /\ Cardinality(NewWork(new, r)) <= Cardinality(NewWork(old, r))
          /\ Cardinality(NewWork(new, r)) \in Nat
          /\ Cardinality(NewWork(old, r)) \in Nat
      BY <3>2, <3>4, FS_Subset, FS_CardinalityType
    <3>6. Cardinality(NewWork(old, r)) <= LargestLimit
      BY <1>2, <3>1 DEF NewWorkFitsLane, NewWork
    <3>7. Cardinality(NewWork(new, r)) <= LargestLimit
      BY <3>5, <3>6, LargestLimitIsLargest
    <3> QED
      BY <3>1, <3>7
  <2>3. ASSUME NEW r \in Repos
        PROVE  Cardinality(NewWork(task', r)) <= LargestLimit
    <3>1. CASE TableCalm
      BY <2>2, <3>1 DEF TableCalm
    <3>2. CASE RecoverStalledTasks
      <4>1. task \in [Tasks -> TaskRow]
        BY <1>2 DEF PoolInv, TableInv
      <4>2. PICK pos : task' = RecoverStalled(task, pos)
        BY <3>2 DEF RecoverStalledTasks
      <4>3. \A t \in Tasks : Calm(task[t], task'[t])
        BY <4>1, <4>2, WatchdogIsCalm
      <4> QED
        BY <2>2, <4>3
    <3>3. CASE \E w \in Workers, role \in Roles : ClaimTask(w, role)
      BY <1>2, <3>3, ClaimFitsLane
    <3> QED
      BY <1>2, <3>1, <3>2, <3>3, NextIsCalm
  <2>4. NewWorkFitsLane'
    BY <2>3 DEF NewWorkFitsLane, NewWork, InFlight
  <2> QED
    BY <2>1, <2>4
<1> QED
  BY <1>1, <1>2, PoolInvariant, PTL DEF Spec

-----------------------------------------------------------------------------
(***************************************************************************)
(* Study mode.  heartbeat_worker completes a report with a profile it read *)
(* before its transaction, so an old profile can be written over a newer   *)
(* one.  The column overtaken of the model tells when: as long as it is    *)
(* FALSE the profile is the declared one, and every heartbeat that names   *)
(* none will write that very profile.                                      *)
(***************************************************************************)

ProfilesDeclared ==
    /\ \A w \in Workers :
         ~worker[w].overtaken => worker[w].profile = worker[w].declared
    /\ \A b \in beats :
         /\ b.names # None => b.profile = b.names
         /\ b.names = None /\ ~worker[b.worker].overtaken
              => b.profile = worker[b.worker].declared

LEMMA ProfilesStayDeclared ==
    ASSUME PoolInv, ProfilesDeclared, [Next]_vars
    PROVE  ProfilesDeclared'
<1>1. CASE UNCHANGED <<worker, beats>>
  BY <1>1 DEF ProfilesDeclared
<1>2. /\ worker \in [Workers -> WorkerRow]
      /\ beats \subseteq Beat
  BY DEF PoolInv, OtherTables
<1>3. ASSUME NEW w \in Workers, RegisterWorker(w)
      PROVE  ProfilesDeclared'
  <2>1. PICK r \in Registrations[w] :
          worker' = [worker EXCEPT ![w] =
             [role |-> r.role, profile |-> r.profile, governed |-> r.governed,
              rules |-> r.rules, fresh |-> TRUE, declared |-> r.profile,
              overtaken |-> Overtaken(w, r.profile)]]
    BY <1>3 DEF RegisterWorker
  <2>3. /\ worker'[w].declared = r.profile
        /\ worker'[w].profile = r.profile
        /\ worker'[w].overtaken = Overtaken(w, r.profile)
    BY <1>2, <2>1
  <2>4. \A v \in Workers : v # w => worker'[v] = worker[v]
    BY <1>2, <2>1
  <2>5. beats' = beats
    BY <1>3 DEF RegisterWorker
  <2>6. \A b \in beats : b.worker \in Workers
    BY <1>2 DEF Beat
  <2>7. ~worker'[w].overtaken =>
          \A b \in beats : b.worker = w /\ b.names = None
                             => b.profile = r.profile
    BY <2>3 DEF Overtaken
  <2> QED
    BY <2>3, <2>4, <2>5, <2>6, <2>7 DEF ProfilesDeclared
<1>4. ASSUME NEW w \in Workers, HeartbeatLapses(w)
      PROVE  ProfilesDeclared'
  <2>1. \A v \in Workers : /\ worker'[v].profile = worker[v].profile
                           /\ worker'[v].declared = worker[v].declared
                           /\ worker'[v].overtaken = worker[v].overtaken
    BY <1>2, <1>4 DEF HeartbeatLapses, WorkerRow
  <2>2. beats' = beats
    BY <1>4 DEF HeartbeatLapses
  <2>3. \A b \in beats : b.worker \in Workers
    BY <1>2 DEF Beat
  <2> QED
    BY <2>1, <2>2, <2>3 DEF ProfilesDeclared
<1>5. ASSUME NEW w \in Workers, HeartbeatRead(w)
      PROVE  ProfilesDeclared'
  <2>1. PICK h \in Reports[w], n \in 1..MaxBeats :
         /\ \A b \in beats : b.thread # n
         /\ beats' = beats \cup
             {[thread   |-> n,
               worker   |-> w,
               profile  |-> IF h.profile = None
                            THEN worker[w].profile ELSE h.profile,
               governed |-> IF h.governed = None
                            THEN worker[w].governed ELSE h.governed,
               names    |-> h.profile]}
    BY <1>5 DEF HeartbeatRead
  <2>2. PICK new : new =
              [thread   |-> n,
               worker   |-> w,
               profile  |-> IF h.profile = None
                            THEN worker[w].profile ELSE h.profile,
               governed |-> IF h.governed = None
                            THEN worker[w].governed ELSE h.governed,
               names    |-> h.profile]
    OBVIOUS
  <2>3. /\ new.worker = w /\ new.names = h.profile
        /\ new.profile = IF h.profile = None
                         THEN worker[w].profile ELSE h.profile
    BY <2>2
  <2>4. beats' = beats \cup {new}
    BY <2>1, <2>2
  <2>5. worker' = worker
    BY <1>5 DEF HeartbeatRead
  <2> QED
    BY <2>3, <2>4, <2>5 DEF ProfilesDeclared
<1>6. ASSUME NEW b \in beats, HeartbeatWrite(b)
      PROVE  ProfilesDeclared'
  <2>2. beats' = beats \ {b}
    BY <1>6 DEF HeartbeatWrite
  <2>3. b.worker \in Workers /\ b \in Beat
    BY <1>2 DEF Beat
  <2>4. PICK old \in WorkerRow : old = worker[b.worker]
    BY <1>2, <2>3
  <2>5. PICK d, o :
          /\ d = IF b.names = None THEN old.declared ELSE b.names
          /\ o = IF b.names = None THEN old.overtaken
                 ELSE Overtaken(b.worker, b.names)
    OBVIOUS
  <2>6. /\ worker'[b.worker].profile = b.profile
        /\ worker'[b.worker].declared = d
        /\ worker'[b.worker].overtaken = o
        /\ \A v \in Workers : v # b.worker => worker'[v] = worker[v]
    BY <1>2, <1>6, <2>3, <2>4, <2>5 DEF HeartbeatWrite, WorkerRow
  <2>7. ~o => b.profile = d
    BY <2>4, <2>5 DEF ProfilesDeclared
  <2>8. ~o => \A c \in beats : c.worker = b.worker /\ c.names = None
                               => c.profile = d
    BY <2>4, <2>5 DEF ProfilesDeclared, Overtaken
  <2>9. \A c \in beats : c.worker \in Workers
    BY <1>2 DEF Beat
  <2> QED
    BY <2>2, <2>3, <2>6, <2>7, <2>8, <2>9 DEF ProfilesDeclared
<1>7. ASSUME NEW w \in Workers, WorkerCall(w)
      PROVE  ProfilesDeclared'
  BY <1>1, <1>3, <1>5, <1>7 DEF WorkerCall, ReplaceWorkerAffinities, ClaimTask
<1>8. ASSUME NEW t \in Tasks, NEW w \in Workers,
             NEW tok \in 1..task[t].attempt_count, LeaseCall(t, w, tok)
      PROVE  ProfilesDeclared'
  BY <1>1, <1>8
  DEF LeaseCall, RenewLease, StartTask, SubmitForValidation, CompleteTask,
      FailTask, BlockTask, Put
<1>9. ASSUME NEW t \in Tasks,
             \/ \E i \in Intents : EnqueueTask(t, i)
             \/ RequeueBlocked(t)
             \/ LeaseLapses(t)
             \/ ProgressLapses(t)
      PROVE  ProfilesDeclared'
  BY <1>1, <1>9 DEF EnqueueTask, RequeueBlocked, LeaseLapses, ProgressLapses, Put
<1>10. CASE \/ RecoverExpiredLeases
            \/ RecoverStalledTasks
            \/ \E r \in Repos : ConfigureRepository(r)
            \/ UNCHANGED vars
  BY <1>1, <1>10
  DEF RecoverExpiredLeases, RecoverStalledTasks, ConfigureRepository, vars
<1> QED
  BY <1>4, <1>6, <1>7, <1>8, <1>9, <1>10 DEF Next

\* A worker whose last declared profile is ESTUDO is given a task only when a
\* heartbeat that had read NORMAL was still to write at the declaration: only a
\* claim adds an attempt, and claim_task asks for the profile NORMAL.
THEOREM StudyGetsNoWork == Spec => NoWorkInStudy
<1>1. Init => ProfilesDeclared
  BY DEF Init, ProfilesDeclared, Unregistered
<1>2. PoolInv /\ ProfilesDeclared /\ [Next]_vars => ProfilesDeclared'
  BY ProfilesStayDeclared
<1>3. ASSUME PoolInv, ProfilesDeclared, [Next]_vars,
             NEW t \in Tasks, NEW w \in Workers, task'[t].leased_by = w,
             task'[t].attempt_count # task[t].attempt_count
      PROVE  worker[w].declared = "NORMAL" \/ worker[w].overtaken
  <2>1. CASE TableCalm
    BY <1>3, <2>1 DEF TableCalm, Calm
  <2>2. CASE RecoverStalledTasks
    <3>1. PICK pos : task' = RecoverStalled(task, pos)
      BY <2>2 DEF RecoverStalledTasks
    <3>2. task \in [Tasks -> TaskRow]
      BY <1>3 DEF PoolInv, TableInv
    <3>3. Calm(task[t], task'[t])
      BY <3>1, <3>2, WatchdogIsCalm
    <3> QED
      BY <1>3, <3>3 DEF Calm
  <2>3. ASSUME NEW v \in Workers, NEW role \in Roles, ClaimTask(v, role)
        PROVE  worker[w].declared = "NORMAL" \/ worker[w].overtaken
    <3>1. PICK tab :
             /\ TableInv(tab)
             /\ Ready(tab, v, role)
             /\ Calm(task[t], tab[t])
             /\ \/ task' = tab
                \/ \E u \in Claimable(tab, v, role) :
                     task' = [tab EXCEPT ![u] = Claimed(tab[u], v, role)]
      BY <1>3, <2>3, ClaimOutcome
    <3>2. task'[t].attempt_count # tab[t].attempt_count
      BY <1>3, <3>1 DEF Calm
    <3>3. PICK u \in Claimable(tab, v, role) :
            task' = [tab EXCEPT ![u] = Claimed(tab[u], v, role)]
      BY <3>1, <3>2
    <3>4. u \in Tasks /\ tab \in [Tasks -> TaskRow]
      BY <3>1 DEF Claimable, TableInv
    <3>5. Claimed(tab[u], v, role).leased_by = v
      BY <3>4, ClaimedRow
    <3>6. w = v
      BY <1>3, <3>2, <3>3, <3>4, <3>5
    <3> QED
      BY <1>3, <3>1, <3>6 DEF Ready, Eligible, ProfilesDeclared
  <2> QED
    BY <1>3, <2>1, <2>2, <2>3, NextIsCalm
<1>4. PoolInv /\ ProfilesDeclared /\ [Next]_vars =>
        [\A t \in Tasks, w \in Workers :
            /\ task'[t].leased_by = w
            /\ task'[t].attempt_count # task[t].attempt_count
            => worker[w].declared = "NORMAL" \/ worker[w].overtaken]_vars
  BY <1>3
<1> QED
  BY <1>1, <1>2, <1>4, PoolInvariant, PTL DEF Spec, NoWorkInStudy

-----------------------------------------------------------------------------
\* The two orders of LeaseClock compared, for every instant.

\* The seconds come first in the text: they decide when they differ.
LEMMA SecondsDecide ==
    ASSUME NEW a \in Instant, NEW b \in Instant, a.sec # b.sec
    PROVE  TextLeq(Text(a), Text(b)) <=> a.sec < b.sec
<1> DEFINE A == Text(a)
           B == Text(b)
<1>1. /\ 1 \in DOMAIN A /\ A[1] = a.sec
      /\ 1 \in DOMAIN B /\ B[1] = b.sec
      /\ DOMAIN A \subseteq Nat \ {0}
  BY DEF Text
<1>2. a.sec \in Nat /\ b.sec \in Nat
  BY DEF Instant
<1>3. ASSUME a.sec < b.sec
      PROVE  TextLeq(A, B)
  <2>1. /\ 1 \in DOMAIN A \cap DOMAIN B
        /\ A[1] < B[1]
        /\ \A j \in 1..1-1 : A[j] = B[j]
    BY <1>1, <1>3
  <2> QED
    BY <2>1 DEF TextLeq
<1>4. ASSUME TextLeq(A, B)
      PROVE  a.sec < b.sec
  <2>1. A # B
    BY <1>1
  <2>2. PICK k \in DOMAIN A \cap DOMAIN B :
          A[k] < B[k] /\ \A j \in 1..k-1 : A[j] = B[j]
    BY <1>4, <2>1 DEF TextLeq
  <2>3. k = 1
    <3>1. k \in Nat \ {0}
      BY <1>1, <2>2
    <3>2. ASSUME k # 1
          PROVE  FALSE
      <4>1. 1 \in 1..k-1
        BY <3>1, <3>2
      <4>2. A[1] = B[1]
        BY <2>2, <4>1
      <4> QED
        BY <4>2, <1>1
    <3> QED
      BY <3>2
  <2> QED
    BY <1>1, <2>2, <2>3
<1> QED
  BY <1>3, <1>4

\* The instants agree with the texts whenever the seconds differ.
LEMMA OrdersAgree ==
    ASSUME NEW a \in Instant, NEW b \in Instant, a.sec # b.sec
    PROVE  TextLeq(Text(a), Text(b)) <=> InstantLeq(a, b)
<1>1. a.sec \in Nat /\ b.sec \in Nat
  BY DEF Instant
<1>2. InstantLeq(a, b) <=> a.sec < b.sec
  BY <1>1 DEF InstantLeq
<1> QED
  BY <1>2, SecondsDecide

\* The clock and the deadlines stay instants.
THEOREM ClockTyped == ClockSpec => []ClockTypeOK
<1>1. ClockInit => ClockTypeOK
  BY ClockAssumption DEF ClockInit, ClockTypeOK, Instant
<1>2. ClockTypeOK /\ [ClockNext]_clockVars => ClockTypeOK'
  <2> SUFFICES ASSUME ClockTypeOK, [ClockNext]_clockVars
               PROVE  ClockTypeOK'
    OBVIOUS
  <2> USE ClockAssumption DEF ClockTypeOK
  <2>1. CASE Tick
    BY <2>1 DEF Tick, Instant
  <2>2. ASSUME NEW ttl \in TTLs, deadline' = {[now EXCEPT !.sec = @ + ttl]},
               UNCHANGED now
        PROVE  ClockTypeOK'
    <3>1. [now EXCEPT !.sec = @ + ttl] \in Instant
      BY DEF Instant
    <3> QED
      BY <2>2, <3>1
  <2>3. CASE Grant
    BY <2>2, <2>3 DEF Grant
  <2>4. CASE Renew
    BY <2>2, <2>4 DEF Renew
  <2>5. CASE RecoverLease
    BY <2>5 DEF RecoverLease
  <2>6. CASE UNCHANGED clockVars
    BY <2>6 DEF clockVars
  <2> QED
    BY <2>1, <2>3, <2>4, <2>5, <2>6 DEF ClockNext
<1> QED
  BY <1>1, <1>2, PTL DEF ClockSpec

\* For every number of microseconds, every bound and every lease duration, the
\* textual test of _recover and the chronological test of _lease differ only
\* on a deadline that lies in the current second.
THEOREM DisagreementWithinOneSecond == ClockSpec => []WithinOneSecond
<1>1. ClockTypeOK => WithinOneSecond
  <2> SUFFICES ASSUME ClockTypeOK, NEW d \in deadline,
                      RecoverSees(d) # LeaseRefuses(d), d.sec # now.sec
               PROVE  FALSE
    BY DEF WithinOneSecond
  <2>1. d \in Instant /\ now \in Instant
    BY DEF ClockTypeOK
  <2>2. RecoverSees(d) <=> LeaseRefuses(d)
    BY <2>1, OrdersAgree DEF RecoverSees, LeaseRefuses
  <2>3. RecoverSees(d) \in BOOLEAN /\ LeaseRefuses(d) \in BOOLEAN
    BY DEF RecoverSees, LeaseRefuses, TextLeq, InstantLeq
  <2> QED
    BY <2>2, <2>3
<1> QED
  BY <1>1, ClockTyped, PTL
=============================================================================
