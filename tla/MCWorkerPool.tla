---------------------------- MODULE MCWorkerPool ----------------------------
(***************************************************************************)
(* Small instances of the worker pool for TLC.                             *)
(***************************************************************************)
EXTENDS WorkerPoolProperties, TLC

CONSTANTS w1, r1, r2, i1

MCRepoOne      == [t \in Tasks |-> r1]
MCPriority     == [i \in Intents |-> IF i = i1 THEN 1 ELSE 2]
MCMaxAttempts2 == [i \in Intents |-> 2]
MCMaxAttempts  == [i \in Intents |-> IF i = i1 THEN 1 ELSE 2]

As(role) == [role |-> role, profile |-> "NORMAL", governed |-> TRUE,
             rules |-> TRUE]

\* Every worker may be started in either role.
MCEitherRole == [w \in Workers |-> {As("builder"), As("validator")}]
\* One builder, which may start, or start again, in study mode; the others validate.
MCStudyRoles ==
    [w \in Workers |-> IF w = w1
        THEN {As("builder"), [As("builder") EXCEPT !.profile = "ESTUDO"]}
        ELSE {As("validator")}]

MCNoReports == [w \in Workers |-> {}]
\* The builder goes on, or says that it is in study mode.
MCStudyReports ==
    [w \in Workers |-> IF w = w1
        THEN {[profile |-> p, governed |-> None] : p \in {None, "ESTUDO"}}
        ELSE {}]

MCNoLaneConfigs == {}
\* An operator widens lanes.
MCWiderLane == {[enabled |-> TRUE, max_in_flight |-> 2]}

MCNoAffinities == {}
\* A worker is bound to a lane without tasks.
MCElsewhere    == {{r2}}

\* Values that an instance treats alike.  Only runs without liveness
\* properties use them.
PoolSymmetry == Permutations(Workers) \cup Permutations(Tasks)
=============================================================================
