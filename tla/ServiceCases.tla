---------------------------- MODULE ServiceCases ----------------------------
(***************************************************************************)
(* The service cases of the backend (backend/app/api/service_cases.py,     *)
(* service_case_operations.py, change_evidence.py).  The handlers are      *)
(* plain functions that FastAPI runs in threads, over one database: each   *)
(* reads, decides, and commits one transaction whose only protection is    *)
(* the primary key of the events, the unique keys, and the version of the  *)
(* case when its state changes.  So a handler is two actions: Read...,     *)
(* after which other handlers may commit, and Commit...                    *)
(*                                                                         *)
(* A case is named by its idempotency key, which is unique.  A row of the  *)
(* event table stands also for the row that the same transaction inserts   *)
(* under the same event id in the table of links, causes, assignments,     *)
(* approvals, SLA or evidence: its content is data.  The creation intent   *)
(* is told apart by the type of the case alone.                            *)
(***************************************************************************)
EXTENDS Integers, FiniteSets

CONSTANTS
    Keys,         \* idempotency keys, which name the cases
    Events,       \* event ids, chosen by the clients: an initial part of the naturals
    Handlers,     \* requests in progress at the same time
    Groups,       \* assignment groups
    Policies,     \* SLA policies
    Verdicts,     \* the ChangeValidationStatus values that are reported
    Instants,     \* observed_at of the evidence, chosen by the clients
    Statements,   \* root causes
    Scopes,       \* what the clients of one behaviour may ask for
    None

ServiceCaseType == {"REQUEST", "INCIDENT", "PROBLEM", "CHANGE"}
ServiceCaseState ==
    {"NEW", "TRIAGE", "PENDING_APPROVAL", "IN_PROGRESS", "PENDING_EXTERNAL",
     "RESOLVED", "CLOSED", "CANCELED"}

\* A row of rsm_service_cases.
CaseRecord == [type : ServiceCaseType, version : Nat, state : ServiceCaseState]

EventType ==
    {"CASE_CREATED", "STATE_TRANSITIONED", "PROBLEM_ROOT_CAUSE_RECORDED",
     "CHANGE_RUNTIME_EVIDENCE_RECORDED", "INCIDENT_LINKED_TO_PROBLEM", "SLA_APPLIED",
     "ASSIGNMENT_CHANGED", "APPROVAL_REQUESTED", "APPROVAL_DECIDED"}

Decisions == {"APPROVED", "REJECTED"}

\* What an event brings: the type of a created case, a root cause, evidence, a
\* problem, an SLA policy, an assignment or a decision.
AssignmentData == [sequence : Nat, group : Groups, previous : Groups \cup {None}]
DecisionData   == [approval : Events, decision : Decisions]
EvidenceData   == [status : Verdicts, observed : Instants]
EventData ==
    ServiceCaseType \cup Statements \cup EvidenceData \cup Keys \cup Policies
        \cup AssignmentData \cup DecisionData \cup {None}

\* A row of rsm_service_case_events: from and to are the states of a move,
\* None otherwise; and a row of rsm_case_approvals.
EventRecord ==
    [case : Keys, type : EventType, from : ServiceCaseState \cup {None},
     to : ServiceCaseState \cup {None}, data : EventData]
ApprovalRecord == [status : Decisions \cup {"PENDING"}, decided : Events \cup {None}]

\* The requests that clients make besides creating and moving cases.
Operations == {"approve", "evidence", "cause", "link", "sla", "assign"}

\* A scope: the cases and event ids of a behaviour, the types of its cases,
\* the states they are asked to move to and the other requests made of them.
\* The handlers know nothing of it.
Scope == [keys : SUBSET Keys, types : SUBSET ServiceCaseType, targets : SUBSET ServiceCaseState,
          operations : SUBSET Operations, events : SUBSET Events]

ASSUME ServiceCasesAssumption ==
    /\ None \notin Keys \cup Events /\ None \notin ServiceCaseState
    /\ None \notin CaseRecord /\ None \notin EventRecord /\ None \notin ApprovalRecord
    /\ Events \subseteq Nat
    /\ Scopes \subseteq Scope
    /\ Instants \subseteq Nat
    /\ Verdicts \subseteq {"PASSED", "FAILED", "ROLLED_BACK"}

VARIABLES
    cases,       \* rsm_service_cases
    events,      \* rsm_service_case_events, with the row each event brought
    approvals,   \* status and decision of rsm_case_approvals, by the event that asked
    call,        \* the handlers
    scope        \* what the clients of this behaviour ask for

vars == <<cases, events, approvals, call, scope>>

StateOf == [c \in Keys |-> IF cases[c] = None THEN None ELSE cases[c].state]

\* The contract of the domain, which the handlers are to implement.
Lifecycle == INSTANCE CaseLifecycle WITH Cases <- Keys, state <- StateOf

-----------------------------------------------------------------------------
CaseRow(type, state, version) == [type |-> type, state |-> state, version |-> version]

\* A row to insert.
Row(c, type, from, to, data) ==
    [case |-> c, type |-> type, from |-> from, to |-> to, data |-> data]
Note(c, type, data) == Row(c, type, None, None, data)

\* A handler: what it is about to insert, and how its request ended.  seen is
\* history: the rows of the case that were stored when the handler read it, of
\* the types its request depends on.
NoCall == [phase |-> "idle", event |-> None, row |-> None, version |-> 0, seen |-> {}]
Ready(e, row, v, seen) ==
    [phase |-> "ready", event |-> e, row |-> row, version |-> v, seen |-> seen]
Done == [NoCall EXCEPT !.phase = "answered"]

Init ==
    /\ cases = [c \in Keys |-> None]
    /\ events = [e \in Events |-> None]
    /\ approvals = [e \in Events |-> None]
    /\ call = [h \in Handlers |-> NoCall]
    /\ scope \in Scopes

Free(h)     == call[h].phase # "ready"
At(h, type) == call[h].phase = "ready" /\ call[h].row.type = type

Exists(c)    == cases[c] # None
IsA(c, t)    == Exists(c) /\ cases[c].type = t
Used(e)      == events[e] # None
\* The stored rows of a case of one type of event.
Rows(c, type) == {e \in Events : Used(e) /\ events[e].case = c /\ events[e].type = type}
\* What seen keeps: the stored rows that a request of this type depends on.
Judged(type) ==
    CASE type = "STATE_TRANSITIONED" ->
            {"CASE_CREATED", "STATE_TRANSITIONED", "APPROVAL_DECIDED",
             "CHANGE_RUNTIME_EVIDENCE_RECORDED"}
      [] type \in {"SLA_APPLIED", "APPROVAL_DECIDED"} -> {type}
      [] OTHER -> {}
Seen(row) ==
    {e \in Events : /\ Used(e) /\ events[e].case = row.case
                    /\ events[e].type \in Judged(row.type)}
\* event e brought exactly this row
Brought(e, row) == Used(e) /\ events[e].type = row.type /\ events[e] = row

Answer(h) == call' = [call EXCEPT ![h] = Done]
Refuse(h) == call' = [call EXCEPT ![h] = NoCall]
Prepare(h, e, row, v) ==
    /\ call' = [call EXCEPT ![h] = Ready(e, row, v, Seen(row))]
    /\ UNCHANGED <<cases, events, approvals>>
\* A replay, recognised before anything is written.
Replay(h)      == Answer(h) /\ UNCHANGED <<cases, events, approvals>>
Insert(e, row) == events' = [events EXCEPT ![e] = row]

-----------------------------------------------------------------------------
(***************************************************************************)
(* create_service_case                                                     *)
(***************************************************************************)
Created(c, t) == Row(c, "CASE_CREATED", None, "NEW", t)

ReadCreate(h, c, e, t) ==
    /\ Free(h)
    /\ IF Exists(c)
       THEN IsA(c, t) /\ Replay(h)
       ELSE Prepare(h, e, Created(c, t), 0)

CommitCreate(h) ==
    LET e == call[h].event
        row == call[h].row
        c == row.case
    IN  /\ At(h, "CASE_CREATED")
        /\ IF ~ Exists(c) /\ ~ Used(e)
           THEN /\ cases' = [cases EXCEPT ![c] = CaseRow(row.data, "NEW", 1)]
                /\ Insert(e, row) /\ Answer(h)
           ELSE /\ IF IsA(c, row.data) THEN Answer(h) ELSE Refuse(h)
                /\ UNCHANGED <<cases, events>>
        /\ UNCHANGED approvals

-----------------------------------------------------------------------------
(***************************************************************************)
(* transition_service_case and the guards registered for it.  The client   *)
(* sends the version it saw; any other than the stored one is refused.     *)
(***************************************************************************)
\* _approval_transition_guard
ApprovalGuard(c, target) ==
    (cases[c].state = "PENDING_APPROVAL" /\ target = "IN_PROGRESS") =>
        \E a \in Rows(c, "APPROVAL_REQUESTED") : approvals[a].status = "APPROVED"

Evidence(c) == Rows(c, "CHANGE_RUNTIME_EVIDENCE_RECORDED")
\* The evidence that may come first in the order of _change_close_guard: ties
\* in observed_at are settled by the clock of the database, then by random ids.
Latest(c) ==
    {e \in Evidence(c) :
        \A d \in Evidence(c) : events[d].data.observed <= events[e].data.observed}

\* ChangeExecutionEvidence.allows_close
AllowsClose(e) == events[e].data.status \in {"PASSED", "ROLLED_BACK"}

\* Variant: any evidence that allows closing will do, not the latest.
CloseGuardAny(c, target) ==
    (IsA(c, "CHANGE") /\ target = "CLOSED") => \E e \in Evidence(c) : AllowsClose(e)

\* _change_close_guard
CloseGuard(c, target) ==
    (IsA(c, "CHANGE") /\ target = "CLOSED") => \E e \in Latest(c) : AllowsClose(e)

Moved(c, from, to) == Row(c, "STATE_TRANSITIONED", from, to, None)

ReadTransition(h, c, e, target) ==
    /\ Free(h)
    /\ IF Used(e)
       THEN events[e].case = c /\ events[e].to = target /\ Replay(h)
       ELSE /\ Exists(c) /\ target \in Lifecycle!Allowed(cases[c].state)
            /\ ApprovalGuard(c, target) /\ CloseGuard(c, target)
            /\ Prepare(h, e, Moved(c, cases[c].state, target), cases[c].version)

\* Variant: the UPDATE is not conditioned on the version.
CommitTransitionNoVersion(h) ==
    LET e == call[h].event
        row == call[h].row
        c == row.case
    IN  /\ At(h, "STATE_TRANSITIONED")
        /\ IF ~ Used(e)
           THEN /\ cases' = [cases EXCEPT ![c] = CaseRow(cases[c].type, row.to, call[h].version + 1)]
                /\ Insert(e, row) /\ Answer(h)
           ELSE Refuse(h) /\ UNCHANGED <<cases, events>>
        /\ UNCHANGED approvals

CommitTransition(h) ==
    LET e == call[h].event
        row == call[h].row
        c == row.case
    IN  /\ At(h, "STATE_TRANSITIONED")
        /\ IF cases[c].version = call[h].version /\ ~ Used(e)
           THEN /\ cases' = [cases EXCEPT ![c] = CaseRow(cases[c].type, row.to, call[h].version + 1)]
                /\ Insert(e, row) /\ Answer(h)
           ELSE Refuse(h) /\ UNCHANGED <<cases, events>>
        /\ UNCHANGED approvals

-----------------------------------------------------------------------------
(***************************************************************************)
(* Requests whose transaction inserts one row: root causes, evidence, and  *)
(* links.  When the insertion collides, the same row already there counts  *)
(* as done.                                                                *)
(***************************************************************************)
\* record_problem_root_cause
ReadCause(h, c, e, s) ==
    LET row == Note(c, "PROBLEM_ROOT_CAUSE_RECORDED", s) IN
    /\ Free(h)
    /\ IF Used(e)
       THEN Brought(e, row) /\ Replay(h)
       ELSE IsA(c, "PROBLEM") /\ Prepare(h, e, row, 0)

\* record_change_evidence
ReadEvidence(h, c, e, s, o) ==
    LET row == Note(c, "CHANGE_RUNTIME_EVIDENCE_RECORDED", [status |-> s, observed |-> o]) IN
    /\ Free(h) /\ IsA(c, "CHANGE")
    /\ IF Used(e)
       THEN Brought(e, row) /\ Replay(h)
       ELSE cases[c].state = "RESOLVED" /\ Prepare(h, e, row, 0)

\* Variant: whoever collides is answered, whatever the event brought.
CommitRecordBlind(h) ==
    LET e == call[h].event
        row == call[h].row
    IN  /\ At(h, "PROBLEM_ROOT_CAUSE_RECORDED") \/ At(h, "CHANGE_RUNTIME_EVIDENCE_RECORDED")
        /\ Answer(h)
        /\ IF Used(e) THEN UNCHANGED events ELSE Insert(e, row)
        /\ UNCHANGED <<cases, approvals>>

CommitRecord(h) ==
    LET e == call[h].event
        row == call[h].row
    IN  /\ At(h, "PROBLEM_ROOT_CAUSE_RECORDED") \/ At(h, "CHANGE_RUNTIME_EVIDENCE_RECORDED")
        /\ IF ~ Used(e)
           THEN Insert(e, row) /\ Answer(h)
           ELSE /\ IF Brought(e, row) THEN Answer(h) ELSE Refuse(h)
                /\ UNCHANGED events
        /\ UNCHANGED <<cases, approvals>>

\* link_incident_to_problem: a link is also unique by its two cases.
Linked(i, p) == \E e \in Rows(i, "INCIDENT_LINKED_TO_PROBLEM") : events[e].data = p

ReadLink(h, i, e, p) ==
    LET row == Note(i, "INCIDENT_LINKED_TO_PROBLEM", p) IN
    /\ Free(h)
    /\ IF Used(e)
       THEN Brought(e, row) /\ Replay(h)
       ELSE /\ IsA(i, "INCIDENT") /\ IsA(p, "PROBLEM")
            /\ IF Linked(i, p) THEN Replay(h) ELSE Prepare(h, e, row, 0)

CommitLink(h) ==
    LET e == call[h].event
        row == call[h].row
    IN  /\ At(h, "INCIDENT_LINKED_TO_PROBLEM")
        /\ IF ~ Used(e) /\ ~ Linked(row.case, row.data)
           THEN Insert(e, row) /\ Answer(h)
           ELSE /\ IF Brought(e, row) \/ ~ Used(e) THEN Answer(h) ELSE Refuse(h)
                /\ UNCHANGED events
        /\ UNCHANGED <<cases, approvals>>

-----------------------------------------------------------------------------
(***************************************************************************)
(* apply_case_sla.  The SLA of a case has the case as its primary key.     *)
(***************************************************************************)
ReadSla(h, c, e, p) ==
    LET row == Note(c, "SLA_APPLIED", p)
        applied == Rows(c, "SLA_APPLIED")
    IN  /\ Free(h) /\ Exists(c)
        /\ IF Used(e)
           THEN e \in applied /\ Replay(h)
           ELSE IF applied # {}
           THEN (\E d \in applied : events[d].data = p) /\ Replay(h)
           ELSE Prepare(h, e, row, 0)

CommitSla(h) ==
    LET e == call[h].event
        row == call[h].row
        applied == Rows(row.case, "SLA_APPLIED")
    IN  /\ At(h, "SLA_APPLIED")
        /\ IF ~ Used(e) /\ applied = {}
           THEN Insert(e, row) /\ Answer(h)
           ELSE /\ IF applied # {} THEN Answer(h) ELSE Refuse(h)
                /\ UNCHANGED events
        /\ UNCHANGED <<cases, approvals>>

-----------------------------------------------------------------------------
(***************************************************************************)
(* change_assignment: a row follows the one with the highest sequence.     *)
(***************************************************************************)
Assigned(c) == Rows(c, "ASSIGNMENT_CHANGED")
CurrentAssignment(c) ==
    {e \in Assigned(c) : \A d \in Assigned(c) : events[d].data.sequence <= events[e].data.sequence}

ReadAssignment(h, c, e, g) ==
    LET After(n, previous) ==
            Note(c, "ASSIGNMENT_CHANGED", [sequence |-> n + 1, group |-> g, previous |-> previous])
    IN  /\ Free(h) /\ Exists(c)
        /\ \/ Used(e) /\ e \in Assigned(c) /\ Replay(h)
           \/ ~ Used(e) /\ Assigned(c) = {} /\ Prepare(h, e, After(0, None), 0)
           \/ \E d \in CurrentAssignment(c) :
                /\ ~ Used(e)
                /\ IF events[d].data.group = g
                   THEN Replay(h)
                   ELSE Prepare(h, e, After(events[d].data.sequence, events[d].data.group), 0)

CommitAssignment(h) ==
    LET e == call[h].event
        row == call[h].row
    IN  /\ At(h, "ASSIGNMENT_CHANGED")
        /\ IF ~ Used(e)
           THEN Insert(e, row) /\ Answer(h)
           ELSE Refuse(h) /\ UNCHANGED events
        /\ UNCHANGED <<cases, approvals>>

-----------------------------------------------------------------------------
(***************************************************************************)
(* request_approval and decide_approval.  An approval is named by the      *)
(* event that asked for it; its decision overwrites its row.               *)
(***************************************************************************)
ReadApproval(h, c, e) ==
    LET row == Note(c, "APPROVAL_REQUESTED", None) IN
    /\ Free(h) /\ Exists(c)
    /\ IF Used(e)
       THEN e \in Rows(c, "APPROVAL_REQUESTED") /\ Replay(h)
       ELSE Prepare(h, e, row, 0)

CommitApproval(h) ==
    LET e == call[h].event
        row == call[h].row
    IN  /\ At(h, "APPROVAL_REQUESTED")
        /\ IF ~ Used(e)
           THEN /\ Insert(e, row) /\ Answer(h)
                /\ approvals' = [approvals EXCEPT ![e] = [status |-> "PENDING", decided |-> None]]
           ELSE Refuse(h) /\ UNCHANGED <<events, approvals>>
        /\ UNCHANGED cases

ReadDecision(h, c, a, e, d) ==
    LET row == Note(c, "APPROVAL_DECIDED", [approval |-> a, decision |-> d]) IN
    /\ Free(h) /\ Exists(c)
    /\ approvals[a] # None /\ events[a].case = c
    /\ IF Used(e)
       THEN /\ e \in Rows(c, "APPROVAL_DECIDED") /\ approvals[a].decided = e
            /\ Replay(h)
       ELSE approvals[a].status = "PENDING" /\ Prepare(h, e, row, 0)

CommitDecision(h) ==
    LET e == call[h].event
        row == call[h].row
    IN  /\ At(h, "APPROVAL_DECIDED")
        /\ IF ~ Used(e)
           THEN /\ Insert(e, row) /\ Answer(h)
                /\ approvals' = [approvals EXCEPT ![row.data.approval] =
                                    [status |-> row.data.decision, decided |-> e]]
           ELSE Refuse(h) /\ UNCHANGED <<events, approvals>>
        /\ UNCHANGED cases

-----------------------------------------------------------------------------
(***************************************************************************)
(* A handler ends without an answer: its process stops before the commit,  *)
(* or its answer is lost.  The client may send the request again.          *)
(***************************************************************************)
Drop(h) == call[h].phase = "ready" /\ Refuse(h) /\ UNCHANGED <<cases, events, approvals>>

\* The event ids a request may carry: one that was sent before, or a fresh
\* one.  Fresh ids are random, so it does not matter which: the least is taken.
Sent(e) == Used(e) \/ \E h \in Handlers : call[h].event = e
Ids == LET sent == {e \in scope.events : Sent(e)}
           fresh == scope.events \ sent
       IN  sent \cup {e \in fresh : \A d \in fresh : e <= d}

Asks(operation) == operation \in scope.operations

Transitions(h) ==
    \/ \E c \in scope.keys, e \in Ids, t \in scope.types : ReadCreate(h, c, e, t)
    \/ CommitCreate(h)
    \/ \E c \in scope.keys, e \in Ids, s \in scope.targets : ReadTransition(h, c, e, s)
    \/ CommitTransition(h)

Records(h) ==
    \/ /\ Asks("cause")
       /\ \E c \in scope.keys, e \in Ids, s \in Statements : ReadCause(h, c, e, s)
    \/ /\ Asks("evidence")
       /\ \E c \in scope.keys, e \in Ids, s \in Verdicts, o \in Instants :
            ReadEvidence(h, c, e, s, o)
    \/ CommitRecord(h)
    \/ Asks("link") /\ \E c, p \in scope.keys, e \in Ids : ReadLink(h, c, e, p)
    \/ CommitLink(h)

Managed(h) ==
    \/ Asks("sla") /\ \E c \in scope.keys, e \in Ids, p \in Policies : ReadSla(h, c, e, p)
    \/ CommitSla(h)
    \/ Asks("assign") /\ \E c \in scope.keys, e \in Ids, g \in Groups : ReadAssignment(h, c, e, g)
    \/ CommitAssignment(h)
    \/ Asks("approve") /\ \E c \in scope.keys, e \in Ids : ReadApproval(h, c, e)
    \/ CommitApproval(h)
    \/ /\ Asks("approve")
       /\ \E c \in scope.keys, a \in scope.events, e \in Ids, d \in Decisions :
            ReadDecision(h, c, a, e, d)
    \/ CommitDecision(h)

Next ==
    /\ \E h \in Handlers : Transitions(h) \/ Records(h) \/ Managed(h) \/ Drop(h)
    /\ UNCHANGED scope

Spec == Init /\ [][Next]_vars

-----------------------------------------------------------------------------
\* The cases move as the domain permits, although a handler decides on a
\* state it read before others committed (transition_service_case).
LifecycleSpec == Lifecycle!Spec
=============================================================================
