--------------------------- MODULE MCServiceCases ---------------------------
(***************************************************************************)
(* What the service cases are checked for, and the instances TLC runs.     *)
(***************************************************************************)
EXTENDS ServiceCases, TLC

CONSTANTS k1

\* The moves recorded of a case.
Moves(c) == {e \in Events : Used(e) /\ events[e].case = c /\ events[e].to # None}

\* The history explains the case: its version counts the recorded moves, and
\* they form one path to its state, each state left as often as it was
\* entered but for the last.  No move is lost, repeated or taken from a state
\* the case was not in, whoever raced for it (transition_service_case).
HistoryMatches ==
    \A c \in Keys : Exists(c) =>
        /\ cases[c].version = Cardinality(Moves(c))
        /\ \A s \in ServiceCaseState :
            Cardinality({e \in Moves(c) : events[e].to = s})
                = Cardinality({e \in Moves(c) : events[e].from = s})
                  + (IF cases[c].state = s THEN 1 ELSE 0)

Answered(h, type) == At(h, type) /\ call'[h].phase = "answered"

\* Among the rows in seen somebody approved the case, and the approval still
\* says so unless it was decided again afterwards.
ApprovalStands(c, seen) ==
    \E d \in Rows(c, "APPROVAL_DECIDED") \cap seen :
        /\ events[d].data.decision = "APPROVED"
        /\ \E a \in {events[d].data.approval} :
            approvals[a].status = "APPROVED" \/ approvals[a].decided \notin seen

\* Of the evidence in seen, the latest is of success or of a proven rollback.
EvidenceStands(c, seen) ==
    \E e \in Evidence(c) \cap seen :
        /\ AllowsClose(e)
        /\ \A d \in Evidence(c) \cap seen : events[d].data.observed <= events[e].data.observed

\* A move through a gate is written while what the gate asks for still stands:
\* an approval, and for a change the latest evidence.  The one exception is a
\* row stored between the reading of the case and the writing of the move: the
\* guards of transition_service_case read outside the conditional UPDATE, so
\* FAILED evidence, or a second decision, that commits in between goes
\* unnoticed (_approval_transition_guard, _change_close_guard).  Another move
\* of the case does not: the gate was passed in the very state that is left.
GatesHold ==
    [][\A h \in Handlers : \A row \in {call[h].row}, seen \in {call[h].seen} :
        Answered(h, "STATE_TRANSITIONED") =>
            /\ Moves(row.case) \subseteq seen
            /\ (row.from = "PENDING_APPROVAL" /\ row.to = "IN_PROGRESS")
                 => ApprovalStands(row.case, seen)
            /\ (IsA(row.case, "CHANGE") /\ row.to = "CLOSED")
                 => EvidenceStands(row.case, seen)]_vars

\* A decision is the stored one, and it replaces an earlier one only when that
\* was stored after this handler had read the approval as PENDING: the row is
\* overwritten without a condition (decide_approval).
Decided(h, e, row) ==
    /\ Brought(e, row)'
    /\ \A a \in {row.data.approval} :
        /\ approvals'[a] = [status |-> row.data.decision, decided |-> e]
        /\ approvals[a].decided # None => approvals[a].decided \notin call[h].seen

\* The policy asked for is the stored one, or another policy was applied to the
\* case after this handler had found none: the IntegrityError branch of
\* apply_case_sla answers with whatever is there.
SlaApplied(h, row) ==
    \/ (\E d \in Rows(row.case, "SLA_APPLIED") : events[d].data = row.data)'
    \/ \E d \in Rows(row.case, "SLA_APPLIED") \ call[h].seen : events[d].data # row.data

\* Whoever commits and is answered 200 finds the effect asked for in the
\* database, after any race for the key, the event id or the link: it was
\* stored now, or it was the same one that was there (the IntegrityError
\* branches of create_service_case, link_incident_to_problem,
\* record_change_evidence...).  The exceptions are those of Decided and
\* SlaApplied, which take another handler that commits in between.
AcknowledgedIsStored ==
    [][\A h \in Handlers : \A e \in {call[h].event}, row \in {call[h].row} :
        /\ Answered(h, "CASE_CREATED") => IsA(row.case, row.data)'
        /\ Answered(h, "STATE_TRANSITIONED") => (Brought(e, row) /\ cases[row.case].state = row.to)'
        /\ Answered(h, "PROBLEM_ROOT_CAUSE_RECORDED") => Brought(e, row)'
        /\ Answered(h, "CHANGE_RUNTIME_EVIDENCE_RECORDED") => Brought(e, row)'
        /\ Answered(h, "INCIDENT_LINKED_TO_PROBLEM") => Linked(row.case, row.data)'
        /\ Answered(h, "SLA_APPLIED") => SlaApplied(h, row)
        /\ Answered(h, "ASSIGNMENT_CHANGED") => Brought(e, row)'
        /\ Answered(h, "APPROVAL_REQUESTED") => Brought(e, row)'
        /\ Answered(h, "APPROVAL_DECIDED") => Decided(h, e, row)]_vars

-----------------------------------------------------------------------------
Ask(keys, types, targets, operations, n) ==
    [keys |-> keys, types |-> types, targets |-> targets, operations |-> operations,
     events |-> 1..n]

\* A request that needs approval; a change that needs evidence; a problem that
\* moves as it likes, with SLA and assignments; an incident linked to a problem
\* with root causes.
MCScopes ==
    {Ask({k1}, {"REQUEST"}, {"TRIAGE", "PENDING_APPROVAL", "IN_PROGRESS"}, {"approve"}, 6),
     Ask({k1}, {"CHANGE"}, {"TRIAGE", "IN_PROGRESS", "RESOLVED", "CLOSED"}, {"evidence"}, 7),
     Ask({k1}, {"PROBLEM"}, ServiceCaseState, {"sla", "assign"}, 4),
     Ask(Keys, {"INCIDENT", "PROBLEM"}, {}, {"link", "cause"}, 4)}

Symmetry == Permutations(Handlers)
=============================================================================
