---------------------------- MODULE TaskContract ----------------------------
(***************************************************************************)
(* What the worker pool promises about one task, whatever leases, retries, *)
(* watchdogs and operators do in between: a task is open until some author *)
(* hands its work over, handed-over work is never rebuilt, it is approved  *)
(* by somebody who is not its author, and an approved or abandoned task    *)
(* never changes again.  Several tasks may move in one step, because one   *)
(* recovery transaction may abandon several tasks.                         *)
(***************************************************************************)
CONSTANTS Tasks, Workers, None

VARIABLES phase,     \* absent, open, built, approved or abandoned
          author,    \* who built the work that was handed over
          approver   \* who approved it

contractVars == <<phase, author, approver>>

Init ==
    /\ phase = [t \in Tasks |-> "absent"]
    /\ author = [t \in Tasks |-> None]
    /\ approver = [t \in Tasks |-> None]

Same(t) ==
    /\ phase'[t] = phase[t]
    /\ author'[t] = author[t]
    /\ approver'[t] = approver[t]

Accept(t) ==
    /\ phase[t] = "absent"
    /\ phase'[t] = "open"
    /\ author'[t] = author[t]
    /\ approver'[t] = approver[t]

HandOver(t) ==
    /\ phase[t] = "open"
    /\ phase'[t] = "built"
    /\ author'[t] \in Workers
    /\ approver'[t] = approver[t]

Approve(t) ==
    /\ phase[t] = "built"
    /\ phase'[t] = "approved"
    /\ author'[t] = author[t]
    /\ approver'[t] \in Workers \ {author[t]}

Abandon(t) ==
    /\ phase[t] \in {"open", "built"}
    /\ phase'[t] = "abandoned"
    /\ author'[t] = author[t]
    /\ approver'[t] = approver[t]

Next ==
    \A t \in Tasks :
        Same(t) \/ Accept(t) \/ HandOver(t) \/ Approve(t) \/ Abandon(t)

Spec == Init /\ [][Next]_contractVars
=============================================================================
