---------------------------- MODULE CaseLifecycle ----------------------------
(***************************************************************************)
(* What the domain promises of a service case                              *)
(* (backend/app/domain/service_management.py): it is born NEW and moves    *)
(* along the matrix of transition_to, one permitted move at a time.        *)
(***************************************************************************)
CONSTANTS Cases, None

VARIABLE state    \* the state of each case, None before it exists

ServiceCaseState ==
    {"NEW", "TRIAGE", "PENDING_APPROVAL", "IN_PROGRESS", "PENDING_EXTERNAL",
     "RESOLVED", "CLOSED", "CANCELED"}

\* _ALLOWED_TRANSITIONS
Allowed(s) ==
    CASE s = "NEW"              -> {"TRIAGE", "CANCELED"}
      [] s = "TRIAGE"           -> {"PENDING_APPROVAL", "IN_PROGRESS", "CANCELED"}
      [] s = "PENDING_APPROVAL" -> {"TRIAGE", "IN_PROGRESS", "CANCELED"}
      [] s = "IN_PROGRESS"      -> {"PENDING_EXTERNAL", "RESOLVED", "CANCELED"}
      [] s = "PENDING_EXTERNAL" -> {"IN_PROGRESS", "RESOLVED", "CANCELED"}
      [] s = "RESOLVED"         -> {"IN_PROGRESS", "CLOSED"}
      [] OTHER                  -> {}

Init == state = [c \in Cases |-> None]

Open(c) == state[c] = None /\ state' = [state EXCEPT ![c] = "NEW"]

TransitionTo(c) == \E target \in Allowed(state[c]) : state' = [state EXCEPT ![c] = target]

Next == \E c \in Cases : Open(c) \/ TransitionTo(c)

Spec == Init /\ [][Next]_state
=============================================================================
