----------------------------- MODULE WorkerPool -----------------------------
(***************************************************************************)
(* The Codex worker pool, services/codex-worker-pool/app/store.py: a task  *)
(* queue in one SQLite database, shared by builder and validator workers   *)
(* on several hosts through a threaded HTTP API.                           *)
(*                                                                         *)
(* Every public method runs in one BEGIN IMMEDIATE transaction, so one     *)
(* action is one transaction.  An exception rolls the transaction back: a  *)
(* refused call, whatever it had already written, is a stuttering step.    *)
(* The one method that reads outside its transaction, heartbeat_worker, is *)
(* two actions.                                                            *)
(*                                                                         *)
(* Clocks are flags.  A lease deadline, the material-progress deadline and *)
(* a heartbeat may each lapse at any moment after they are set, which      *)
(* covers every value of the three timeouts and every delay between the    *)
(* reading of the clock and the acquisition of the database lock.          *)
(***************************************************************************)
EXTENDS Integers, FiniteSets

CONSTANTS
    Workers,        \* worker ids
    Repos,          \* repositories, one lane each
    Tasks,          \* task identities: repository, issue and request_id
    RepoOf,         \* the repository of each task identity
    Intents,        \* what an enqueue may ask for under one identity
    Priority,       \* the priority of an intent, smaller is served first
    MaxAttempts,    \* the max_attempts of an intent
    Registrations,  \* the registrations each worker may send
    Reports,        \* the fields a heartbeat of each worker may carry
    LaneConfigs,    \* lane settings an operator may post
    Affinities,     \* affinity lists an operator may put
    MaxRequeues,    \* bound: manual requeues of one task
    MaxRequeued,    \* bound: tasks that are ever requeued
    MaxBeats,       \* bound: server threads in a heartbeat at the same time
    None            \* SQL NULL

Roles    == {"builder", "validator"}
Profiles == {"NORMAL", "ESTUDO"}
States   == {"queued", "leased", "running", "validating",
             "blocked", "completed", "failed"}
ACTIVE   == {"leased", "running", "validating"}

Registration == [role : Roles, profile : Profiles,
                 governed : BOOLEAN, rules : BOOLEAN]
Report       == [profile : Profiles \cup {None},
                 governed : BOOLEAN \cup {None}]
LaneConfig   == [enabled : BOOLEAN, max_in_flight : 1..100]

ASSUME NullAssumption ==
    /\ None \notin Workers
    /\ None \notin Intents
    /\ None \notin Roles
    /\ None \notin Profiles
    /\ None \notin BOOLEAN
ASSUME IntentAssumption ==
    /\ RepoOf \in [Tasks -> Repos]
    /\ Priority \in [Intents -> Int]
    /\ MaxAttempts \in [Intents -> Nat \ {0}]
ASSUME RequestAssumption ==
    /\ Registrations \in [Workers -> SUBSET Registration]
    /\ Reports \in [Workers -> SUBSET Report]
    /\ LaneConfigs \subseteq LaneConfig
    /\ Affinities \subseteq SUBSET Repos
ASSUME BoundAssumption ==
    MaxRequeues \in Nat /\ MaxRequeued \in Nat /\ MaxBeats \in Nat

VARIABLES
    worker,     \* table workers: role, profile, readiness, fresh heartbeat
    beats,      \* heartbeats between their read and their write
    lane,       \* table repository_lanes
    affinity,   \* table worker_repository_affinity
    task        \* tables tasks and quarantine

vars == <<worker, beats, lane, affinity, task>>

-----------------------------------------------------------------------------
(***************************************************************************)
(* Rows.  gateway_ok and state_validated are only ever read together: they *)
(* are the one field governed.  rules says that rules_sha is the expected  *)
(* one.  declared and overtaken are history: the profile last named by a   *)
(* committed call, and whether a heartbeat that names none, and had read   *)
(* another profile before, was still to write when that call committed.    *)
(* The tasks row carries its number of quarantine rows, and requeues, the  *)
(* history of manual requeues.  The lease token of a claim is the attempt  *)
(* number it creates (the code draws a fresh uuid), and a produced SHA is  *)
(* identified by the token of the call that published it, 0 being NULL.    *)
(***************************************************************************)
WorkerRow == [role : Roles \cup {None}, profile : Profiles, governed : BOOLEAN,
              rules : BOOLEAN, fresh : BOOLEAN, declared : Profiles,
              overtaken : BOOLEAN]

Beat == [thread : 1..MaxBeats, worker : Workers, profile : Profiles,
         governed : BOOLEAN, names : Profiles \cup {None}]

LaneRow == [enabled : BOOLEAN, max_in_flight : 1..100,
            claims : [Roles -> Nat]]

TaskRow == [state : States \cup {"absent"}, intent : Intents \cup {None},
            attempt_count : Nat, leased_by : Workers \cup {None},
            lease_token : Nat, lease : {"none", "live", "expired"},
            produced_sha : Nat, builder_worker_id : Workers \cup {None},
            validator_worker_id : Workers \cup {None}, stalled : BOOLEAN,
            quarantined : Nat, requeues : Nat]

Unregistered == [role |-> None, profile |-> "ESTUDO", governed |-> FALSE,
                 rules |-> FALSE, fresh |-> FALSE, declared |-> "ESTUDO",
                 overtaken |-> FALSE]

\* A lane that no call has created yet reads as the defaults it would get.
DefaultLane == [enabled |-> TRUE, max_in_flight |-> 1,
                claims |-> [r \in Roles |-> 0]]

AbsentTask == [state |-> "absent", intent |-> None, attempt_count |-> 0,
               leased_by |-> None, lease_token |-> 0, lease |-> "none",
               produced_sha |-> 0, builder_worker_id |-> None,
               validator_worker_id |-> None, stalled |-> FALSE,
               quarantined |-> 0, requeues |-> 0]

Init ==
    /\ worker = [w \in Workers |-> Unregistered]
    /\ beats = {}
    /\ lane = [r \in Repos |-> DefaultLane]
    /\ affinity = [w \in Workers |-> {}]
    /\ task = [t \in Tasks |-> AbsentTask]

-----------------------------------------------------------------------------
(***************************************************************************)
(* Workers, lanes and affinities.                                          *)
(***************************************************************************)

\* History: some heartbeat of w will write back another profile than this one.
Overtaken(w, profile) ==
    \E b \in beats : /\ b.worker = w
                     /\ b.names = None
                     /\ b.profile # profile

RegisterWorker(w) ==
    /\ \E r \in Registrations[w] :
         worker' = [worker EXCEPT ![w] =
             [role |-> r.role, profile |-> r.profile, governed |-> r.governed,
              rules |-> r.rules, fresh |-> TRUE, declared |-> r.profile,
              overtaken |-> Overtaken(w, r.profile)]]
    /\ UNCHANGED <<beats, lane, affinity, task>>

\* Variant: an omitted profile means NORMAL instead of the current one.
HeartbeatReadDefaulting(w) ==
    /\ worker[w].role # None
    /\ \E h \in Reports[w], n \in 1..MaxBeats :
         /\ \A b \in beats : b.thread # n
         /\ beats' = beats \cup
             {[thread   |-> n,
               worker   |-> w,
               profile  |-> IF h.profile = None THEN "NORMAL" ELSE h.profile,
               governed |-> IF h.governed = None
                            THEN worker[w].governed ELSE h.governed,
               names    |-> h.profile]}
    /\ UNCHANGED <<worker, lane, affinity, task>>

\* heartbeat_worker reads the row outside its transaction and completes the
\* report with what it read.
HeartbeatRead(w) ==
    /\ worker[w].role # None
    /\ \E h \in Reports[w], n \in 1..MaxBeats :
         /\ \A b \in beats : b.thread # n
         /\ beats' = beats \cup
             {[thread   |-> n,
               worker   |-> w,
               profile  |-> IF h.profile = None
                            THEN worker[w].profile ELSE h.profile,
               governed |-> IF h.governed = None
                            THEN worker[w].governed ELSE h.governed,
               names    |-> h.profile]}
    /\ UNCHANGED <<worker, lane, affinity, task>>

\* The write half, in its own transaction, some time later.
HeartbeatWrite(b) ==
    /\ worker' = [worker EXCEPT
             ![b.worker].profile  = b.profile,
             ![b.worker].governed = b.governed,
             ![b.worker].fresh    = TRUE,
             ![b.worker].declared = IF b.names = None THEN @ ELSE b.names,
             ![b.worker].overtaken = IF b.names = None THEN @
                                     ELSE Overtaken(b.worker, b.names)]
    /\ beats' = beats \ {b}
    /\ UNCHANGED <<lane, affinity, task>>

ConfigureRepository(r) ==
    /\ \E c \in LaneConfigs :
         lane' = [lane EXCEPT ![r].enabled       = c.enabled,
                              ![r].max_in_flight = c.max_in_flight]
    /\ UNCHANGED <<worker, beats, affinity, task>>

ReplaceWorkerAffinities(w) ==
    /\ worker[w].role # None
    /\ \E repositories \in Affinities :
         affinity' = [affinity EXCEPT ![w] = repositories]
    /\ UNCHANGED <<worker, beats, lane, task>>

-----------------------------------------------------------------------------
(***************************************************************************)
(* Building blocks of the task operations.  Operators with a parameter tab *)
(* work on a tasks table inside a transaction, between its statements.     *)
(***************************************************************************)

Active(row) == row.state \in ACTIVE

Busy(tab, w) == \E t \in Tasks : Active(tab[t]) /\ tab[t].leased_by = w

\* No affinity configured means the shared pool.
Serves(w, r) == affinity[w] = {} \/ r \in affinity[w]

InFlight(tab, r) == {t \in Tasks : RepoOf[t] = r /\ Active(tab[t])}

Exhausted(row) == row.attempt_count >= MaxAttempts[row.intent]

\* Where unfinished work goes back to: the handoff survives.
Resume(row) == IF row.produced_sha # 0 THEN "validating" ELSE "queued"

\* leased_by, lease_token and lease_expires_at become NULL.
Released(row, state) ==
    [row EXCEPT !.state = state, !.leased_by = None, !.lease_token = 0,
                !.lease = "none"]

Quarantine(row) == [row EXCEPT !.quarantined = @ + 1]

\* The common ending of an attempt that did not succeed.
Retry(row) ==
    IF Exhausted(row) THEN Quarantine(Released(row, "failed"))
                      ELSE Released(row, Resume(row))

\* What _ready asks of the worker's row, whatever the tasks are.
Eligible(w, role) ==
    /\ worker[w].role = role
    /\ worker[w].profile = "NORMAL"
    /\ worker[w].governed
    /\ worker[w].rules
    /\ worker[w].fresh

\* Variant: no test for a task in hand.
ReadyWhenBusy(tab, w, role) == Eligible(w, role)

Ready(tab, w, role) == Eligible(w, role) /\ ~Busy(tab, w)

-----------------------------------------------------------------------------
(***************************************************************************)
(* Recovery.  _recover releases every active task whose lease has expired. *)
(***************************************************************************)

Expired(row) == Active(row) /\ row.lease = "expired"

Recover(tab) ==
    [t \in Tasks |-> IF Expired(tab[t]) THEN Retry(tab[t]) ELSE tab[t]]

StalledRows(tab) == {t \in Tasks : Active(tab[t]) /\ tab[t].stalled}

\* The query has no ORDER BY: the loop may meet the rows in any order.
LoopOrders(rows) ==
    {pos \in [rows -> 1..Cardinality(rows)] :
        \A t, u \in rows : pos[t] = pos[u] => t = u}

\* Variant: a validation is also looked after by builders.
AlternativeBuilder(tab, done, t, w) ==
    /\ w # tab[t].leased_by
    /\ Eligible(w, "builder")
    /\ \A u \in Tasks \ done : ~(Active(tab[u]) /\ tab[u].leased_by = w)
    /\ Serves(w, RepoOf[t])

\* _worker_is_alternative, evaluated when the rows in done have already been
\* released by earlier rounds of the loop.
WorkerIsAlternative(tab, done, t, w) ==
    /\ w # tab[t].leased_by
    /\ Eligible(w, IF tab[t].produced_sha # 0 THEN "validator" ELSE "builder")
    /\ \A u \in Tasks \ done : ~(Active(tab[u]) /\ tab[u].leased_by = w)
    /\ Serves(w, RepoOf[t])

Rerouted(tab, done, t) ==
    IF Exhausted(tab[t]) THEN Quarantine(Released(tab[t], "failed"))
    ELSE IF \E w \in Workers : WorkerIsAlternative(tab, done, t, w)
         THEN Released(tab[t], Resume(tab[t]))
         ELSE Released(tab[t], "blocked")

\* _recover_stalled: last_material_progress_at is not reset.
RecoverStalled(tab, pos) ==
    LET rows == StalledRows(tab)
    IN  [t \in Tasks |->
            IF t \in rows
            THEN Rerouted(tab, {u \in rows : pos[u] < pos[t]}, t)
            ELSE tab[t]]

RecoverExpiredLeases ==
    /\ task' = Recover(task)
    /\ UNCHANGED <<worker, beats, lane, affinity>>

\* snapshot() is RecoverExpiredLeases then RecoverStalledTasks, in two
\* transactions.
RecoverStalledTasks ==
    /\ \E pos \in LoopOrders(StalledRows(task)) :
         task' = RecoverStalled(task, pos)
    /\ UNCHANGED <<worker, beats, lane, affinity>>

-----------------------------------------------------------------------------
(***************************************************************************)
(* enqueue_task: create the task, or answer a replay of the same intent    *)
(* with the row as it is.  Another intent is refused.                      *)
(***************************************************************************)

EnqueueTask(t, i) ==
    /\ \/ /\ task[t].state = "absent"
          /\ task' = [task EXCEPT ![t].state = "queued", ![t].intent = i]
       \/ /\ task[t].state # "absent"
          /\ task[t].intent = i
          /\ UNCHANGED task
    /\ UNCHANGED <<worker, beats, lane, affinity>>

(***************************************************************************)
(* claim_task.                                                             *)
(***************************************************************************)

\* Variant: a validator may take its own work.
ClaimableOwnWork(tab, w, role) ==
    {t \in Tasks :
        /\ tab[t].state = IF role = "builder" THEN "queued" ELSE "validating"
        /\ tab[t].leased_by = None
        /\ Serves(w, RepoOf[t])
        /\ role = "builder" => Cardinality(InFlight(tab, RepoOf[t]))
                                 < lane[RepoOf[t]].max_in_flight}

\* Variant: the lane limit is compared with <=.
ClaimableOverLimit(tab, w, role) ==
    {t \in Tasks :
        /\ tab[t].state = IF role = "builder" THEN "queued" ELSE "validating"
        /\ tab[t].leased_by = None
        /\ Serves(w, RepoOf[t])
        /\ IF role = "builder"
           THEN /\ lane[RepoOf[t]].enabled
                /\ Cardinality(InFlight(tab, RepoOf[t]))
                     <= lane[RepoOf[t]].max_in_flight
           ELSE tab[t].builder_worker_id # w}

Claimable(tab, w, role) ==
    IF role = "builder"
    THEN {t \in Tasks :
            /\ tab[t].state = "queued"
            /\ lane[RepoOf[t]].enabled
            /\ Serves(w, RepoOf[t])
            /\ Cardinality(InFlight(tab, RepoOf[t]))
                 < lane[RepoOf[t]].max_in_flight}
    ELSE {t \in Tasks :
            /\ tab[t].state = "validating"
            /\ tab[t].leased_by = None
            /\ tab[t].produced_sha # 0
            /\ tab[t].builder_worker_id # w
            /\ Serves(w, RepoOf[t])}

\* ORDER BY claim count, last claim, priority, time, id LIMIT 1.  The stamps
\* are read before the database lock, so they do not order the claims: lanes
\* with equal positive counts come in any order, and so do equal priorities.
\* Lanes never claimed from have no stamp and compete on priority alone.
First(C, tab, role) ==
    LET count(t) == lane[RepoOf[t]].claims[role]
        low == {t \in C : \A u \in C : count(t) <= count(u)}
    IN  {t \in low : \A u \in low :
            (count(t) = 0 \/ RepoOf[t] = RepoOf[u])
              => Priority[tab[t].intent] <= Priority[tab[u].intent]}

Claimed(row, w, role) ==
    [row EXCEPT
        !.state = IF role = "builder" THEN "leased" ELSE "validating",
        !.leased_by = w,
        !.attempt_count = @ + 1,
        !.lease_token = row.attempt_count + 1,
        !.lease = "live",
        !.validator_worker_id = IF role = "validator" THEN w ELSE @,
        !.stalled = FALSE]

\* Both recoveries, the readiness test and the assignment share one
\* transaction.  A worker that is not ready gets an error and the recoveries
\* are rolled back; a ready worker that finds no task still commits them.
ClaimTask(w, role) ==
    /\ \E pos \in LoopOrders(StalledRows(Recover(task))) :
         LET tab == RecoverStalled(Recover(task), pos)
             C   == Claimable(tab, w, role)
         IN  /\ Ready(tab, w, role)
             /\ \/ /\ C = {}
                   /\ task' = tab
                   /\ UNCHANGED lane
                \/ \E t \in First(C, tab, role) :
                   /\ task' = [tab EXCEPT ![t] = Claimed(tab[t], w, role)]
                   /\ lane' = [lane EXCEPT ![RepoOf[t]].claims[role] = @ + 1]
    /\ UNCHANGED <<worker, beats, affinity>>

-----------------------------------------------------------------------------
(***************************************************************************)
(* Operations under a lease.  The caller is worker w and presents tok, any *)
(* token the task was ever leased with: a late or repeated call carries an *)
(* old one.                                                                *)
(***************************************************************************)

\* Variant: the token is not compared.
HoldsLeaseAnyToken(t, w, tok, allowed) ==
    /\ task[t].state \in allowed
    /\ task[t].leased_by = w
    /\ task[t].lease = "live"

HoldsLease(t, w, tok, allowed) ==
    /\ task[t].state \in allowed
    /\ task[t].leased_by = w
    /\ task[t].lease_token = tok
    /\ task[t].lease = "live"

Put(t, row) ==
    /\ task' = [task EXCEPT ![t] = row]
    /\ UNCHANGED <<worker, beats, lane, affinity>>

\* Variant: a renewal counts as progress.
RenewAsProgress(t, w, tok) ==
    /\ HoldsLease(t, w, tok, ACTIVE)
    /\ Put(t, [task[t] EXCEPT !.lease = "live", !.stalled = FALSE])

\* Only the deadline moves; the progress clock does not.
RenewLease(t, w, tok) ==
    /\ HoldsLease(t, w, tok, ACTIVE)
    /\ Put(t, [task[t] EXCEPT !.lease = "live"])

StartTask(t, w, tok) ==
    /\ HoldsLease(t, w, tok, {"leased"})
    /\ worker[w].role = "builder"
    /\ Put(t, [task[t] EXCEPT !.state = "running", !.builder_worker_id = w,
                              !.stalled = FALSE])

\* Variant: the published SHA is not checked and may be NULL.
SubmitUnchecked(t, w, tok) ==
    /\ HoldsLease(t, w, tok, {"running"})
    /\ task[t].builder_worker_id = w
    /\ \E sha \in {None, tok} :
         Put(t, [Released(task[t], "validating") EXCEPT
                    !.produced_sha = sha, !.stalled = FALSE])

SubmitForValidation(t, w, tok) ==
    /\ HoldsLease(t, w, tok, {"running"})
    /\ task[t].builder_worker_id = w
    /\ Put(t, [Released(task[t], "validating") EXCEPT
                  !.produced_sha = tok, !.stalled = FALSE])

CompleteTask(t, w, tok) ==
    /\ HoldsLease(t, w, tok, {"validating"})
    /\ worker[w].role = "validator"
    /\ task[t].builder_worker_id # w
    /\ task[t].produced_sha # 0
    /\ Put(t, [Released(task[t], "completed") EXCEPT !.stalled = FALSE])

FailTask(t, w, tok) ==
    /\ HoldsLease(t, w, tok, ACTIVE)
    /\ Put(t, Retry(task[t]))

BlockTask(t, w, tok) ==
    /\ HoldsLease(t, w, tok, ACTIVE)
    /\ Put(t, [Released(task[t], "blocked") EXCEPT !.stalled = FALSE])

\* The bounds on what operators requeue.
WithinRequeues(t) ==
    /\ task[t].requeues < MaxRequeues
    /\ Cardinality({u \in Tasks : task[u].requeues > 0} \cup {t}) <= MaxRequeued

\* Variant: a requeued task always goes back to a builder.
RequeueToBuilder(t) ==
    /\ task[t].state = "blocked"
    /\ WithinRequeues(t)
    /\ Put(t, [task[t] EXCEPT !.state = "queued", !.stalled = FALSE,
                              !.requeues = @ + 1])

\* An operator's call, without a lease.
RequeueBlocked(t) ==
    /\ task[t].state = "blocked"
    /\ WithinRequeues(t)
    /\ Put(t, [task[t] EXCEPT !.state = Resume(task[t]), !.stalled = FALSE,
                              !.requeues = @ + 1])

-----------------------------------------------------------------------------
(***************************************************************************)
(* The passing of time.                                                    *)
(***************************************************************************)

LeaseLapses(t) ==
    /\ task[t].lease = "live"
    /\ Put(t, [task[t] EXCEPT !.lease = "expired"])

ProgressLapses(t) ==
    /\ Active(task[t])
    /\ Put(t, [task[t] EXCEPT !.stalled = TRUE])

HeartbeatLapses(w) ==
    /\ worker' = [worker EXCEPT ![w].fresh = FALSE]
    /\ UNCHANGED <<beats, lane, affinity, task>>

-----------------------------------------------------------------------------

WorkerCall(w) ==
    \/ RegisterWorker(w)
    \/ HeartbeatRead(w)
    \/ ReplaceWorkerAffinities(w)
    \/ \E role \in Roles : ClaimTask(w, role)

LeaseCall(t, w, tok) ==
    \/ RenewLease(t, w, tok)
    \/ StartTask(t, w, tok)
    \/ SubmitForValidation(t, w, tok)
    \/ CompleteTask(t, w, tok)
    \/ FailTask(t, w, tok)
    \/ BlockTask(t, w, tok)

Next ==
    \/ \E w \in Workers : WorkerCall(w)
    \/ \E b \in beats : HeartbeatWrite(b)
    \/ \E r \in Repos : ConfigureRepository(r)
    \/ \E t \in Tasks, i \in Intents : EnqueueTask(t, i)
    \/ \E t \in Tasks, w \in Workers :
         \E tok \in 1..task[t].attempt_count : LeaseCall(t, w, tok)
    \/ \E t \in Tasks : RequeueBlocked(t)
    \/ RecoverExpiredLeases
    \/ RecoverStalledTasks
    \/ \E t \in Tasks : LeaseLapses(t) \/ ProgressLapses(t)
    \/ \E w \in Workers : HeartbeatLapses(w)

Spec == Init /\ [][Next]_vars

(***************************************************************************)
(* Fairness, for the liveness properties only.  Time passes.  Workers keep *)
(* registering in the profile NORMAL, whatever else they declare, and      *)
(* polling for work: a poll is a claim, made right after a heartbeat, so   *)
(* one that is possible again and again is eventually made.                *)
(* The pool's watchdog and snapshot endpoints are polled.  Nothing is      *)
(* assumed of a worker that holds a lease.                                 *)
(***************************************************************************)
Fairness ==
    /\ WF_vars(RecoverStalledTasks)
    /\ \A t \in Tasks : WF_vars(ProgressLapses(t))
    /\ \A w \in Workers :
         /\ WF_vars(RegisterWorker(w) /\ worker'[w].declared = "NORMAL")
         /\ \A role \in Roles : SF_vars(ClaimTask(w, role))

FairSpec == Spec /\ Fairness
=============================================================================
