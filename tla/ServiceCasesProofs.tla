------------------------- MODULE ServiceCasesProofs -------------------------
(***************************************************************************)
(* The handlers of the service cases implement the lifecycle of the        *)
(* domain, for any number of cases, events and concurrent handlers.        *)
(*                                                                         *)
(* A move is decided on the state that a handler read and written when it  *)
(* commits.  The argument is the version: it grows with every move, so a   *)
(* handler whose version is still current holds a target that the current  *)
(* state permits.  A second layer follows the rows: who commits inserts    *)
(* the row in hand, whose parts are never changed again, so that what was  *)
(* true of it when it was prepared stays true.                             *)
(***************************************************************************)
EXTENDS MCServiceCases, FiniteSetTheorems, TLAPS

CallsOK == call = [h \in Handlers |-> call[h]]
CasesOK == cases \in [Keys -> CaseRecord \cup {None}]

\* A creation in hand is of a known key and type.
CreationOK(h) ==
    At(h, "CASE_CREATED") => call[h].row.case \in Keys /\ call[h].row.data \in ServiceCaseType

\* A move in hand is of a case that exists; its version is not ahead of the
\* case, and if it is current then the case may still make the move.
MoveOK(h) ==
    At(h, "STATE_TRANSITIONED") =>
        LET c == call[h].row.case
            to == call[h].row.to
        IN  /\ c \in Keys /\ cases[c] # None
            /\ to \in Lifecycle!ServiceCaseState
            /\ call[h].version \in Nat /\ call[h].version <= cases[c].version
            /\ call[h].version = cases[c].version =>
                 call[h].row.from = cases[c].state /\ to \in Lifecycle!Allowed(cases[c].state)

RsmInv == CallsOK /\ CasesOK /\ \A h \in Handlers : CreationOK(h) /\ MoveOK(h)

-----------------------------------------------------------------------------
\* A step that leaves the cases alone and gives a handler nothing, or a row
\* that is neither a creation nor a move, keeps the invariant.
LEMMA QuietStep ==
    ASSUME RsmInv, NEW g \in Handlers, NEW x,
           call' = [call EXCEPT ![g] = x], cases' = cases,
           x.phase # "ready" \/ x.row.type \notin {"CASE_CREATED", "STATE_TRANSITIONED"}
    PROVE  RsmInv'
<1>1. CallsOK' /\ CasesOK'
  BY DEF RsmInv, CallsOK, CasesOK
<1>2. ASSUME NEW h \in Handlers PROVE CreationOK(h)' /\ MoveOK(h)'
  <2>1. CASE h = g
    BY <2>1 DEF RsmInv, CallsOK, CreationOK, MoveOK, At
  <2>2. CASE h # g
    <3>1. call'[h] = call[h]
      BY <2>2 DEF RsmInv, CallsOK
    <3>2. CreationOK(h) /\ MoveOK(h)
      BY DEF RsmInv
    <3> QED BY <3>1, <3>2 DEF CreationOK, MoveOK, At
  <2> QED BY <2>1, <2>2
<1> QED BY <1>1, <1>2 DEF RsmInv

\* So do the requests that only read, refuse, answer or insert other rows.
LEMMA NotePrepared ==
    ASSUME RsmInv, NEW h \in Handlers, NEW e, NEW c, NEW type, NEW data, NEW v,
           type \notin {"CASE_CREATED", "STATE_TRANSITIONED"},
           Prepare(h, e, Note(c, type, data), v)
    PROVE  RsmInv' /\ cases' = cases
<1> DEFINE x == Ready(e, Note(c, type, data), v, Seen(Note(c, type, data)))
<1>1. call' = [call EXCEPT ![h] = x] /\ cases' = cases
  BY DEF Prepare
<1>2. x.row.type = type
  BY DEF Ready, Note, Row
<1> HIDE DEF x
<1> QED BY <1>1, <1>2, QuietStep

LEMMA Ended ==
    ASSUME RsmInv, NEW h \in Handlers, cases' = cases, Answer(h) \/ Refuse(h)
    PROVE  RsmInv'
<1>1. Done.phase # "ready" /\ NoCall.phase # "ready"
  BY DEF Done, NoCall
<1>2. CASE Answer(h)
  BY <1>1, <1>2, QuietStep DEF Answer
<1>3. CASE Refuse(h)
  BY <1>1, <1>3, QuietStep DEF Refuse
<1> QED BY <1>2, <1>3

LEMMA Replayed ==
    ASSUME RsmInv, NEW h \in Handlers, Replay(h)
    PROVE  RsmInv' /\ cases' = cases
BY Ended DEF Replay

-----------------------------------------------------------------------------
\* The requests that record, link, assign, approve or set an SLA.
LEMMA RecordsStep ==
    ASSUME RsmInv, NEW h \in Handlers, Records(h) \/ Managed(h) \/ Drop(h)
    PROVE  RsmInv' /\ cases' = cases
<1>1. CASE Records(h)
  <2>1. ASSUME NEW c \in scope.keys, NEW e \in Ids, NEW s \in Statements, ReadCause(h, c, e, s)
        PROVE  RsmInv' /\ cases' = cases
    BY <2>1, NotePrepared, Replayed DEF ReadCause
  <2>2. ASSUME NEW c \in scope.keys, NEW e \in Ids, NEW s \in Verdicts, NEW o \in Instants,
               ReadEvidence(h, c, e, s, o)
        PROVE  RsmInv' /\ cases' = cases
    BY <2>2, NotePrepared, Replayed DEF ReadEvidence
  <2>3. CASE CommitRecord(h)
    BY <2>3, Ended DEF CommitRecord
  <2>4. ASSUME NEW c \in scope.keys, NEW p \in scope.keys, NEW e \in Ids, ReadLink(h, c, e, p)
        PROVE  RsmInv' /\ cases' = cases
    BY <2>4, NotePrepared, Replayed DEF ReadLink
  <2>5. CASE CommitLink(h)
    BY <2>5, Ended DEF CommitLink
  <2> QED BY <1>1, <2>1, <2>2, <2>3, <2>4, <2>5 DEF Records
<1>2. CASE Managed(h)
  <2>1. ASSUME NEW c \in scope.keys, NEW e \in Ids, NEW p \in Policies, ReadSla(h, c, e, p)
        PROVE  RsmInv' /\ cases' = cases
    BY <2>1, NotePrepared, Replayed DEF ReadSla
  <2>2. CASE CommitSla(h)
    BY <2>2, Ended DEF CommitSla
  <2>3. ASSUME NEW c \in scope.keys, NEW e \in Ids, NEW g \in Groups, ReadAssignment(h, c, e, g)
        PROVE  RsmInv' /\ cases' = cases
    <3> DEFINE After(n, previous) ==
                Note(c, "ASSIGNMENT_CHANGED", [sequence |-> n + 1, group |-> g, previous |-> previous])
    <3>1. \/ Replay(h)
          \/ Prepare(h, e, After(0, None), 0)
          \/ \E d \in CurrentAssignment(c) :
                Prepare(h, e, After(events[d].data.sequence, events[d].data.group), 0)
      BY <2>3 DEF ReadAssignment
    <3>2. ASSUME NEW n, NEW q, Prepare(h, e, After(n, q), 0)
          PROVE  RsmInv' /\ cases' = cases
      BY <3>2, NotePrepared
    <3> HIDE DEF After
    <3> QED BY <3>1, <3>2, Replayed
  <2>4. CASE CommitAssignment(h)
    BY <2>4, Ended DEF CommitAssignment
  <2>5. ASSUME NEW c \in scope.keys, NEW e \in Ids, ReadApproval(h, c, e)
        PROVE  RsmInv' /\ cases' = cases
    BY <2>5, NotePrepared, Replayed DEF ReadApproval
  <2>6. CASE CommitApproval(h)
    BY <2>6, Ended DEF CommitApproval
  <2>7. ASSUME NEW c \in scope.keys, NEW a \in scope.events, NEW e \in Ids, NEW d \in Decisions,
               ReadDecision(h, c, a, e, d)
        PROVE  RsmInv' /\ cases' = cases
    BY <2>7, NotePrepared, Replayed DEF ReadDecision
  <2>8. CASE CommitDecision(h)
    BY <2>8, Ended DEF CommitDecision
  <2> QED BY <1>2, <2>1, <2>2, <2>3, <2>4, <2>5, <2>6, <2>7, <2>8 DEF Managed
<1>3. CASE Drop(h)
  BY <1>3, Ended DEF Drop
<1> QED BY <1>1, <1>2, <1>3

-----------------------------------------------------------------------------
\* What CaseRow builds is a row of the table.
LEMMA RowTyped ==
    ASSUME NEW t \in ServiceCaseType, NEW s \in Lifecycle!ServiceCaseState, NEW v \in Nat
    PROVE  /\ CaseRow(t, s, v) \in CaseRecord /\ CaseRow(t, s, v) # None
           /\ CaseRow(t, s, v).state = s /\ CaseRow(t, s, v).version = v
<1>1. CaseRow(t, s, v) \in CaseRecord
  BY DEF CaseRow, CaseRecord, ServiceCaseState, Lifecycle!ServiceCaseState
<1>2. CaseRow(t, s, v).state = s /\ CaseRow(t, s, v).version = v
  BY DEF CaseRow
<1> QED BY <1>1, <1>2, ServiceCasesAssumption

\* A creation: the case did not exist, and is NEW.
LEMMA CreateStep ==
    ASSUME RsmInv, NEW h \in Handlers, CommitCreate(h)
    PROVE  /\ RsmInv'
           /\ cases' = cases \/ \E c \in Keys : Lifecycle!Open(c)
<1> DEFINE e == call[h].event
           row == call[h].row
           c == row.case
           new == CaseRow(row.data, "NEW", 1)
<1>1. c \in Keys /\ row.data \in ServiceCaseType
  BY DEF RsmInv, CreationOK, CommitCreate
<1>2. CASE ~ (~ Exists(c) /\ ~ Used(e))
  BY <1>2, Ended DEF CommitCreate
<1>3. CASE ~ Exists(c) /\ ~ Used(e)
  <2>1. cases' = [cases EXCEPT ![c] = new] /\ Answer(h)
    BY <1>3 DEF CommitCreate
  <2>2. new \in CaseRecord /\ new # None
    BY <1>1, ServiceCasesAssumption DEF CaseRecord, CaseRow, ServiceCaseState
  <2>3. cases[c] = None
    BY <1>3 DEF Exists
  <2> HIDE DEF new
  <2>4. cases'[c] = new /\ \A k \in Keys \ {c} : cases'[k] = cases[k]
    BY <2>1, <1>1 DEF RsmInv, CasesOK
  <2>5. CallsOK' /\ CasesOK'
    BY <2>1, <2>2, <1>1 DEF RsmInv, CallsOK, CasesOK, Answer
  <2>6. ASSUME NEW g \in Handlers PROVE CreationOK(g)' /\ MoveOK(g)'
    <3>1. CASE g = h
      <4>1. call'[g].phase = "answered"
        BY <3>1, <2>1 DEF Answer, Done, NoCall, RsmInv, CallsOK
      <4> QED BY <4>1 DEF CreationOK, MoveOK, At
    <3>2. CASE g # h
      <4>1. call'[g] = call[g]
        BY <3>2, <2>1 DEF Answer, RsmInv, CallsOK
      <4>2. CreationOK(g) /\ MoveOK(g)
        BY DEF RsmInv
      <4>3. MoveOK(g)'
        <5>1. SUFFICES ASSUME At(g, "STATE_TRANSITIONED")
              PROVE  LET k == call[g].row.case IN k \in Keys /\ cases[k] # None /\ cases'[k] = cases[k]
          BY <4>1, <4>2 DEF MoveOK, At
        <5> QED BY <5>1, <4>2, <2>3, <2>4 DEF MoveOK
      <4> QED BY <4>1, <4>2, <4>3 DEF CreationOK, At
    <3> QED BY <3>1, <3>2
  <2>7. new.state = "NEW"
    BY DEF new, CaseRow
  <2>8. Lifecycle!Open(c)
    BY <1>1, <2>2, <2>3, <2>4, <2>7 DEF Lifecycle!Open, StateOf
  <2> QED BY <1>1, <2>5, <2>6, <2>8 DEF RsmInv
<1> QED BY <1>2, <1>3

\* A move: its version is current, so the state the case is in permits it.
LEMMA MoveStep ==
    ASSUME RsmInv, NEW h \in Handlers, CommitTransition(h)
    PROVE  /\ RsmInv'
           /\ \/ cases' = cases
              \/ \E c \in Keys : Lifecycle!TransitionTo(c)
<1> DEFINE e == call[h].event
           row == call[h].row
           c == row.case
           new == CaseRow(cases[c].type, row.to, call[h].version + 1)
<1>1. /\ c \in Keys /\ cases[c] \in CaseRecord /\ row.to \in Lifecycle!ServiceCaseState
      /\ call[h].version = cases[c].version => row.to \in Lifecycle!Allowed(cases[c].state)
  BY DEF RsmInv, MoveOK, CommitTransition, CasesOK
<1>2. CASE ~ (cases[c].version = call[h].version /\ ~ Used(e))
  BY <1>2, Ended DEF CommitTransition
<1>3. CASE cases[c].version = call[h].version /\ ~ Used(e)
  <2>1. cases' = [cases EXCEPT ![c] = new] /\ Answer(h)
    BY <1>3, <1>1 DEF CommitTransition, RsmInv, CasesOK, CaseRecord
  <2>2. /\ new \in CaseRecord /\ new # None
        /\ new.state = row.to /\ new.version = cases[c].version + 1
    <3>1. cases[c].type \in ServiceCaseType /\ cases[c].version \in Nat
      BY <1>1 DEF CaseRecord
    <3> QED BY <3>1, <1>1, <1>3, RowTyped
  <2> HIDE DEF new
  <2>3. cases'[c] = new /\ \A k \in Keys \ {c} : cases'[k] = cases[k]
    BY <2>1, <1>1 DEF RsmInv, CasesOK
  <2>4. CallsOK' /\ CasesOK'
    BY <2>1, <2>2, <1>1 DEF RsmInv, CallsOK, CasesOK, Answer
  <2>5. ASSUME NEW g \in Handlers PROVE CreationOK(g)' /\ MoveOK(g)'
    <3>1. CASE g = h
      <4>1. call'[g].phase = "answered"
        BY <3>1, <2>1 DEF Answer, Done, NoCall, RsmInv, CallsOK
      <4> QED BY <4>1 DEF CreationOK, MoveOK, At
    <3>2. CASE g # h
      <4>1. call'[g] = call[g]
        BY <3>2, <2>1 DEF Answer, RsmInv, CallsOK
      <4>2. CreationOK(g) /\ MoveOK(g)
        BY DEF RsmInv
      <4>3. CASE At(g, "STATE_TRANSITIONED") /\ call[g].row.case = c
        <5>1. call[g].version \in Nat /\ cases[c].version \in Nat
          BY <4>2, <4>3, <1>1 DEF MoveOK, CaseRecord
        <5>2. call[g].version < cases'[c].version
          BY <5>1, <4>2, <4>3, <2>2, <2>3 DEF MoveOK
        <5> QED BY <4>1, <4>2, <4>3, <5>1, <5>2, <2>2, <2>3 DEF MoveOK, CreationOK, At
      <4>4. CASE ~ (At(g, "STATE_TRANSITIONED") /\ call[g].row.case = c)
        BY <4>1, <4>2, <4>4, <2>3 DEF MoveOK, CreationOK, At
      <4> QED BY <4>3, <4>4
    <3> QED BY <3>1, <3>2
  <2>6. Lifecycle!TransitionTo(c)
    <3>1. cases[c] # None
      BY <1>1, ServiceCasesAssumption
    <3>2. StateOf[c] = cases[c].state /\ row.to \in Lifecycle!Allowed(StateOf[c])
      BY <1>1, <1>3, <3>1 DEF StateOf
    <3>3. StateOf' = [StateOf EXCEPT ![c] = row.to]
      BY <1>1, <2>2, <2>3 DEF StateOf
    <3> QED BY <3>2, <3>3 DEF Lifecycle!TransitionTo
  <2> QED BY <1>1, <2>4, <2>5, <2>6 DEF RsmInv
<1> QED BY <1>2, <1>3

\* Preparing a creation or a move.
LEMMA PrepareStep ==
    ASSUME RsmInv, scope \in Scope, NEW h \in Handlers,
           \/ \E c \in scope.keys, e \in Ids, t \in scope.types : ReadCreate(h, c, e, t)
           \/ \E c \in scope.keys, e \in Ids, s \in scope.targets : ReadTransition(h, c, e, s)
    PROVE  RsmInv' /\ cases' = cases
<1>1. ASSUME NEW x, call' = [call EXCEPT ![h] = x], cases' = cases,
             CreationOK(h)', MoveOK(h)'
      PROVE  RsmInv'
  <2>1. CallsOK' /\ CasesOK'
    BY <1>1 DEF RsmInv, CallsOK, CasesOK
  <2>2. ASSUME NEW g \in Handlers, g # h PROVE CreationOK(g)' /\ MoveOK(g)'
    <3>1. call'[g] = call[g] /\ CreationOK(g) /\ MoveOK(g)
      BY <1>1, <2>2 DEF RsmInv, CallsOK
    <3> QED BY <3>1, <1>1 DEF CreationOK, MoveOK, At
  <2> QED BY <1>1, <2>1, <2>2 DEF RsmInv
<1>2. ASSUME NEW c \in Keys, NEW e \in Ids, NEW t \in ServiceCaseType, ReadCreate(h, c, e, t)
      PROVE  RsmInv' /\ cases' = cases
  <2>1. CASE Replay(h)
    BY <2>1, Replayed
  <2>2. CASE Prepare(h, e, Created(c, t), 0)
    <3>1. call' = [call EXCEPT ![h] = Ready(e, Created(c, t), 0, Seen(Created(c, t)))] /\ cases' = cases
      BY <2>2 DEF Prepare
    <3>2. call'[h] = Ready(e, Created(c, t), 0, Seen(Created(c, t)))
      BY <3>1 DEF RsmInv, CallsOK
    <3>3. CreationOK(h)' /\ MoveOK(h)'
      BY <3>2 DEF Ready, Created, Row, CreationOK, MoveOK, At
    <3> QED BY <3>1, <3>3, <1>1
  <2> QED BY <1>2, <2>1, <2>2 DEF ReadCreate
<1>3. ASSUME NEW c \in Keys, NEW e \in Ids, NEW s \in Lifecycle!ServiceCaseState,
             ReadTransition(h, c, e, s)
      PROVE  RsmInv' /\ cases' = cases
  <2>1. CASE Replay(h)
    BY <2>1, Replayed
  <2>2. CASE /\ Exists(c) /\ s \in Lifecycle!Allowed(cases[c].state)
             /\ Prepare(h, e, Moved(c, cases[c].state, s), cases[c].version)
    <3> DEFINE x == Ready(e, Moved(c, cases[c].state, s), cases[c].version,
                          Seen(Moved(c, cases[c].state, s)))
    <3>1. call' = [call EXCEPT ![h] = x] /\ cases' = cases
      BY <2>2 DEF Prepare
    <3>2. /\ x.row.type = "STATE_TRANSITIONED" /\ x.row.case = c /\ x.row.to = s
          /\ x.row.from = cases[c].state /\ x.version = cases[c].version
      BY DEF Ready, Moved, Row
    <3> HIDE DEF x
    <3>3. call'[h] = x
      BY <3>1 DEF RsmInv, CallsOK
    <3>4. cases[c] # None /\ cases[c].version \in Nat
      BY <2>2 DEF Exists, RsmInv, CasesOK, CaseRecord
    <3>5. CreationOK(h)' /\ MoveOK(h)'
      BY <2>2, <3>1, <3>2, <3>3, <3>4 DEF CreationOK, MoveOK, At
    <3> QED BY <3>1, <3>5, <1>1
  <2> QED BY <1>3, <2>1, <2>2 DEF ReadTransition
<1>4. /\ scope.keys \subseteq Keys /\ scope.types \subseteq ServiceCaseType
      /\ scope.targets \subseteq Lifecycle!ServiceCaseState
  BY DEF Scope, ServiceCaseState, Lifecycle!ServiceCaseState
<1> QED BY <1>2, <1>3, <1>4

-----------------------------------------------------------------------------
\* The clients of a behaviour keep to its scope.
LEMMA ScopeKept == Spec => [](scope \in Scope)
<1>1. Init => scope \in Scope
  BY ServiceCasesAssumption DEF Init
<1>2. scope \in Scope /\ [Next]_vars => (scope \in Scope)'
  BY DEF Next, vars
<1> QED BY <1>1, <1>2, PTL DEF Spec

\* The invariant holds in every behaviour: what a handler decided to do to a
\* case is permitted as long as the version it saw is the stored one.
THEOREM PreparedMovesPermitted == Spec => []RsmInv
<1>1. Init => RsmInv
  BY DEF Init, RsmInv, CallsOK, CasesOK, CreationOK, MoveOK, At, NoCall
<1>2. RsmInv /\ scope \in Scope /\ [Next]_vars => RsmInv'
  <2> SUFFICES ASSUME RsmInv, scope \in Scope, [Next]_vars PROVE RsmInv'
    OBVIOUS
  <2>1. CASE UNCHANGED vars
    BY <2>1 DEF vars, RsmInv, CallsOK, CasesOK, CreationOK, MoveOK, At
  <2>2. ASSUME NEW h \in Handlers, Transitions(h) PROVE RsmInv'
    BY <2>2, CreateStep, MoveStep, PrepareStep DEF Transitions
  <2>3. ASSUME NEW h \in Handlers, Records(h) \/ Managed(h) \/ Drop(h) PROVE RsmInv'
    BY <2>3, RecordsStep
  <2> QED BY <2>1, <2>2, <2>3 DEF Next
<1> QED BY <1>1, <1>2, ScopeKept, PTL DEF Spec

\* The handlers implement the lifecycle: every case is created NEW and makes
\* only the moves of transition_to, one at a time, however requests overlap,
\* are lost or repeated (transition_service_case).
THEOREM HandlersImplementLifecycle == Spec => LifecycleSpec
<1>1. Init => Lifecycle!Init
  BY DEF Init, Lifecycle!Init, StateOf
<1>2. RsmInv /\ scope \in Scope /\ [Next]_vars => [Lifecycle!Next]_StateOf
  <2> SUFFICES ASSUME RsmInv, scope \in Scope, [Next]_vars PROVE [Lifecycle!Next]_StateOf
    OBVIOUS
  <2>1. cases' = cases => StateOf' = StateOf
    BY DEF StateOf
  <2>2. CASE UNCHANGED vars
    BY <2>1, <2>2 DEF vars
  <2>3. ASSUME NEW h \in Handlers, Transitions(h) PROVE [Lifecycle!Next]_StateOf
    <3>1. CASE CommitCreate(h)
      BY <3>1, <2>1, CreateStep DEF Lifecycle!Next
    <3>2. CASE CommitTransition(h)
      BY <3>2, <2>1, MoveStep DEF Lifecycle!Next
    <3> QED BY <2>1, <2>3, <3>1, <3>2, PrepareStep DEF Transitions
  <2>4. ASSUME NEW h \in Handlers, Records(h) \/ Managed(h) \/ Drop(h)
        PROVE  [Lifecycle!Next]_StateOf
    BY <2>1, <2>4, RecordsStep
  <2> QED BY <2>2, <2>3, <2>4 DEF Next
<1> QED BY <1>1, <1>2, PreparedMovesPermitted, ScopeKept, PTL DEF Spec, LifecycleSpec, Lifecycle!Spec

-----------------------------------------------------------------------------
(***************************************************************************)
(* The second layer: what the rows say.  Rows are inserted once and never  *)
(* changed, so what is sound when a handler prepares a row is sound when   *)
(* it is stored, whatever was committed in between.                        *)
(***************************************************************************)
\* A decision is about an approval of the same case.
DecidesOwn(row) ==
    row.type = "APPROVAL_DECIDED" =>
        /\ row.data \in DecisionData /\ Used(row.data.approval)
        /\ events[row.data.approval].case = row.case

\* What the type of a row says of its columns.
Columns(row) ==
    /\ row.type = "CASE_CREATED" => row.from = None /\ row.to = "NEW"
    /\ row.type = "STATE_TRANSITIONED" => row.from # None /\ row.to # None /\ Exists(row.case)
    /\ row.type \notin {"CASE_CREATED", "STATE_TRANSITIONED"} => row.from = None /\ row.to = None
    /\ row.type = "ASSIGNMENT_CHANGED" => row.data \in AssignmentData

Sound(row) == row \in EventRecord /\ Columns(row) /\ DecidesOwn(row)

\* What a row in hand rests on, of the rows S that its handler has seen: the
\* moves its version counts, an approval, the latest evidence, the absence of
\* an SLA, an approval that was pending.  Rows committed since are not in S.
ApprovalHeld(c, S) ==
    \E d \in Rows(c, "APPROVAL_DECIDED") \cap S, a \in Events :
        /\ events[d].data.decision = "APPROVED" /\ events[d].data.approval = a
        /\ approvals[a] # None
        /\ approvals[a].status = "APPROVED" \/ approvals[a].decided \notin S
Undecided(a, S) ==
    approvals[a] # None /\ (approvals[a].decided # None => approvals[a].decided \notin S)

TimelyMove(row, v, S) ==
    row.type = "STATE_TRANSITIONED" =>
        /\ Cardinality(Moves(row.case) \cap S) = v
        /\ (row.from = "PENDING_APPROVAL" /\ row.to = "IN_PROGRESS") => ApprovalHeld(row.case, S)
        /\ (row.to = "CLOSED" /\ IsA(row.case, "CHANGE")) => EvidenceStands(row.case, S)
Timely(row, v, S) ==
    /\ \A e \in S : e \in Events /\ Used(e)
    /\ TimelyMove(row, v, S)
    /\ row.type = "SLA_APPLIED" => Rows(row.case, "SLA_APPLIED") \cap S = {}
    /\ row.type = "APPROVAL_DECIDED" => Undecided(row.data.approval, S)

InHand(h) ==
    call[h].phase = "ready" =>
        /\ call[h].event \in Events /\ Sound(call[h].row)
        /\ Timely(call[h].row, call[h].version, call[h].seen)
Stored(e) == Used(e) => Sound(events[e])

\* Event d decided approval a favourably.
DecidedBy(a, d) ==
    /\ Used(d) /\ events[d].type = "APPROVAL_DECIDED" /\ events[d].case = events[a].case
    /\ events[d].data.approval = a /\ events[d].data.decision = "APPROVED"

\* An approval belongs to the event that asked for it, one that says PENDING
\* names no decision, and one that says APPROVED the one that made it so.
ApprovalOK(a) ==
    /\ approvals[a] # None => Used(a)
    /\ (Used(a) /\ events[a].type = "APPROVAL_REQUESTED") => approvals[a] # None
    /\ (approvals[a] # None /\ approvals[a].status = "PENDING") => approvals[a].decided = None
    /\ (approvals[a] # None /\ approvals[a].status = "APPROVED") =>
         approvals[a].decided \in Events /\ DecidedBy(a, approvals[a].decided)

TablesOK ==
    /\ events \in [Events -> EventRecord \cup {None}]
    /\ approvals \in [Events -> ApprovalRecord \cup {None}]

\* The history of a case, state by state.
Entered(c, s) == {e \in Moves(c) : events[e].to = s}
Left(c, s)    == {e \in Moves(c) : events[e].from = s}

HistoryOK(c) ==
    /\ IsFiniteSet(Moves(c))
    /\ ~ Exists(c) => Moves(c) = {}
    /\ Exists(c) =>
        /\ cases[c].version = Cardinality(Moves(c))
        /\ \A s \in ServiceCaseState :
            Cardinality(Entered(c, s)) = Cardinality(Left(c, s)) + (IF cases[c].state = s THEN 1 ELSE 0)

StoreInv ==
    /\ TablesOK
    /\ \A h \in Handlers : InHand(h)
    /\ \A e \in Events : Stored(e) /\ ApprovalOK(e)
    /\ \A c \in Keys : HistoryOK(c)

-----------------------------------------------------------------------------
\* The three shapes of a step of a handler: it ends without writing, prepares
\* a sound row, or inserts the row it holds.
Ends(h)     == (Answer(h) \/ Refuse(h)) /\ UNCHANGED <<cases, events, approvals>>
Prepares(h) ==
    \E e \in Events, row \in EventRecord, v \in Nat :
        Sound(row) /\ Timely(row, v, Seen(row)) /\ Prepare(h, e, row, v)
Inserts(h)  ==
    /\ call[h].phase = "ready" /\ ~ Used(call[h].event)
    /\ Insert(call[h].event, call[h].row) /\ Answer(h)

Plain == {"PROBLEM_ROOT_CAUSE_RECORDED", "CHANGE_RUNTIME_EVIDENCE_RECORDED", "INCIDENT_LINKED_TO_PROBLEM",
          "SLA_APPLIED", "ASSIGNMENT_CHANGED"}

\* What else the transaction of an insertion writes.
InsertsPlain(h)    == call[h].row.type \in Plain /\ UNCHANGED <<cases, approvals>>
InsertsCase(h)     == CommitCreate(h) /\ ~ Exists(call[h].row.case)
InsertsMove(h)     == CommitTransition(h) /\ cases[call[h].row.case].version = call[h].version
InsertsApproval(h) == CommitApproval(h)
InsertsDecision(h) == CommitDecision(h)

Step(h) == Transitions(h) \/ Records(h) \/ Managed(h) \/ Drop(h)

\* A row without states is sound when its type needs nothing of its data.
LEMMA NoteSound ==
    ASSUME NEW c \in Keys, NEW type \in EventType \ {"CASE_CREATED", "STATE_TRANSITIONED"},
           NEW data \in EventData,
           type = "ASSIGNMENT_CHANGED" => data \in AssignmentData,
           type = "APPROVAL_DECIDED" =>
                /\ data \in DecisionData /\ Used(data.approval) /\ events[data.approval].case = c
                /\ approvals[data.approval] # None /\ approvals[data.approval].decided = None,
           type = "SLA_APPLIED" => Rows(c, "SLA_APPLIED") = {}
    PROVE  \E row \in EventRecord :
              row = Note(c, type, data) /\ Sound(row) /\ Timely(row, 0, Seen(row))
<1>1. PICK row : row = Note(c, type, data)
  OBVIOUS
<1>2. /\ row.case = c /\ row.type = type /\ row.from = None /\ row.to = None /\ row.data = data
  BY <1>1 DEF Note, Row
<1>3. row \in EventRecord
  BY <1>1 DEF Note, Row, EventRecord
<1>4. Columns(row) /\ DecidesOwn(row)
  BY <1>2 DEF Columns, DecidesOwn
<1>5. \A e \in Seen(row) : e \in Events /\ Used(e)
  BY DEF Seen
<1>6. TimelyMove(row, 0, Seen(row))
  BY <1>2 DEF TimelyMove
<1>7. Timely(row, 0, Seen(row))
  BY <1>2, <1>5, <1>6 DEF Timely, Undecided
<1> QED BY <1>1, <1>3, <1>4, <1>7 DEF Sound

LEMMA PreparesNote ==
    ASSUME NEW h \in Handlers, NEW e \in Events,
           NEW c \in Keys, NEW type \in EventType \ {"CASE_CREATED", "STATE_TRANSITIONED"},
           NEW data \in EventData,
           type = "ASSIGNMENT_CHANGED" => data \in AssignmentData,
           type = "APPROVAL_DECIDED" =>
                /\ data \in DecisionData /\ Used(data.approval) /\ events[data.approval].case = c
                /\ approvals[data.approval] # None /\ approvals[data.approval].decided = None,
           type = "SLA_APPLIED" => Rows(c, "SLA_APPLIED") = {},
           Prepare(h, e, Note(c, type, data), 0)
    PROVE  Prepares(h)
<1>1. PICK row \in EventRecord :
        row = Note(c, type, data) /\ Sound(row) /\ Timely(row, 0, Seen(row))
  BY NoteSound
<1> QED BY <1>1 DEF Prepares

\* The clients of a scope ask for known keys, events, types and states.
LEMMA ScopeTyped ==
    ASSUME scope \in Scope
    PROVE  /\ scope.keys \subseteq Keys /\ scope.types \subseteq ServiceCaseType
           /\ scope.targets \subseteq ServiceCaseState
           /\ scope.events \subseteq Events /\ Ids \subseteq Events
<1>1. scope.events \subseteq Events
  BY DEF Scope
<1> QED BY <1>1 DEF Scope, Ids

-----------------------------------------------------------------------------
LEMMA TransitionShapes ==
    ASSUME RsmInv, StoreInv, scope \in Scope, NEW h \in Handlers, Transitions(h)
    PROVE  \/ Ends(h) \/ Prepares(h)
           \/ Inserts(h) /\ (InsertsCase(h) \/ InsertsMove(h))
<1>1. ASSUME NEW c \in Keys, NEW e \in Events, NEW t \in ServiceCaseType, ReadCreate(h, c, e, t)
      PROVE  Ends(h) \/ Prepares(h)
  <2>1. CASE Replay(h)
    BY <2>1 DEF Replay, Ends
  <2>2. CASE Prepare(h, e, Created(c, t), 0)
    <3>1. PICK row : row = Created(c, t)
      OBVIOUS
    <3>2. /\ row.case = c /\ row.type = "CASE_CREATED" /\ row.from = None /\ row.to = "NEW"
          /\ row.data = t
      BY <3>1 DEF Created, Row
    <3>3. row \in EventRecord
      BY <3>1 DEF Created, Row, EventRecord, EventType, EventData, ServiceCaseState
    <3>4. Columns(row) /\ DecidesOwn(row)
      BY <3>2 DEF Columns, DecidesOwn
    <3>5. Sound(row)
      BY <3>3, <3>4 DEF Sound
    <3>6. Timely(row, 0, Seen(row))
      BY <3>2 DEF Timely, TimelyMove, Seen, Judged
    <3> QED BY <2>2, <3>1, <3>3, <3>5, <3>6 DEF Prepares
  <2> QED BY <1>1, <2>1, <2>2 DEF ReadCreate
<1>2. ASSUME NEW c \in Keys, NEW e \in Events, NEW s \in ServiceCaseState, ReadTransition(h, c, e, s)
      PROVE  Ends(h) \/ Prepares(h)
  <2>1. CASE Replay(h)
    BY <2>1 DEF Replay, Ends
  <2>2. CASE /\ Exists(c) /\ ApprovalGuard(c, s) /\ CloseGuard(c, s)
             /\ Prepare(h, e, Moved(c, cases[c].state, s), cases[c].version)
    <3>0. PICK f \in ServiceCaseState, v \in Nat : f = cases[c].state /\ v = cases[c].version
      BY <2>2 DEF Exists, RsmInv, CasesOK, CaseRecord
    <3>1. PICK row : row = Moved(c, f, s)
      OBVIOUS
    <3>2. /\ row.case = c /\ row.type = "STATE_TRANSITIONED" /\ row.from = f /\ row.to = s
      BY <3>1 DEF Moved, Row
    <3>3. row \in EventRecord
      <4>1. None \in EventData
        BY DEF EventData
      <4> QED BY <3>1, <4>1 DEF Moved, Row, EventRecord, EventType
    <3>4. Columns(row) /\ DecidesOwn(row)
      BY <2>2, <3>2, ServiceCasesAssumption DEF Columns, DecidesOwn
    <3>5. PICK S : S = Seen(row)
      OBVIOUS
    <3>12. S = {x \in Events : /\ Used(x) /\ events[x].case = c
                               /\ events[x].type \in Judged("STATE_TRANSITIONED")}
      BY <3>2, <3>5 DEF Seen
    <3>6. (f = "PENDING_APPROVAL" /\ s = "IN_PROGRESS") => ApprovalHeld(c, S)
      <4>1. SUFFICES ASSUME f = "PENDING_APPROVAL", s = "IN_PROGRESS" PROVE ApprovalHeld(c, S)
        OBVIOUS
      <4>2. PICK a \in Rows(c, "APPROVAL_REQUESTED") : approvals[a].status = "APPROVED"
        BY <2>2, <3>0, <4>1 DEF ApprovalGuard
      <4>3. a \in Events /\ Used(a) /\ events[a].type = "APPROVAL_REQUESTED" /\ events[a].case = c
        BY <4>2 DEF Rows
      <4>4. ApprovalOK(a)
        BY <4>3 DEF StoreInv
      <4>5. PICK d \in Events : DecidedBy(a, d)
        BY <4>2, <4>3, <4>4 DEF ApprovalOK
      <4>6. d \in Rows(c, "APPROVAL_DECIDED") \cap S
        BY <3>12, <4>3, <4>5 DEF DecidedBy, Rows, Judged
      <4>7. approvals[a] # None
        BY <4>3, <4>4 DEF ApprovalOK
      <4> QED BY <4>2, <4>3, <4>5, <4>6, <4>7 DEF DecidedBy, ApprovalHeld
    <3>8. (s = "CLOSED" /\ IsA(c, "CHANGE")) => EvidenceStands(c, S)
      <4>1. Evidence(c) \cap S = Evidence(c)
        BY <3>12 DEF Evidence, Rows, Judged
      <4> QED BY <2>2, <4>1 DEF CloseGuard, Latest, EvidenceStands
    <3>9. Cardinality(Moves(c) \cap S) = v
      <4>1. Moves(c) \cap S = Moves(c)
        <5>1. ASSUME NEW x \in Moves(c) PROVE x \in S
          <6>1. x \in Events /\ Used(x) /\ events[x].case = c /\ events[x].to # None
            BY DEF Moves
          <6>2. events[x].type \in {"CASE_CREATED", "STATE_TRANSITIONED"}
            BY <6>1 DEF StoreInv, Stored, Sound, Columns
          <6> QED BY <3>12, <6>1, <6>2 DEF Judged
        <5> QED BY <5>1
      <4> QED BY <2>2, <3>0, <4>1 DEF StoreInv, HistoryOK
    <3>10. TimelyMove(row, v, S)
      BY <3>2, <3>6, <3>8, <3>9 DEF TimelyMove
    <3>11. Timely(row, v, Seen(row))
      BY <3>2, <3>5, <3>10, <3>12 DEF Timely
    <3>7. Sound(row)
      BY <3>3, <3>4 DEF Sound
    <3> QED BY <2>2, <3>0, <3>1, <3>3, <3>7, <3>11 DEF Prepares
  <2> QED BY <1>2, <2>1, <2>2 DEF ReadTransition
<1>3. CASE CommitCreate(h)
  BY <1>3 DEF CommitCreate, Ends, Inserts, InsertsCase, At
<1>4. CASE CommitTransition(h)
  BY <1>4 DEF CommitTransition, Ends, Inserts, InsertsMove, At
<1> QED BY <1>1, <1>2, <1>3, <1>4, ScopeTyped DEF Transitions

LEMMA RecordShapes ==
    ASSUME RsmInv, StoreInv, scope \in Scope, NEW h \in Handlers, Records(h) \/ Drop(h)
    PROVE  Ends(h) \/ Prepares(h) \/ (Inserts(h) /\ InsertsPlain(h))
<1>1. ASSUME NEW c \in Keys, NEW e \in Events, NEW s \in Statements, ReadCause(h, c, e, s)
      PROVE  Ends(h) \/ Prepares(h)
  <2>1. s \in EventData
    BY DEF EventData
  <2> QED BY <1>1, <2>1, PreparesNote DEF ReadCause, Replay, Ends, EventType
<1>2. ASSUME NEW c \in Keys, NEW e \in Events, NEW s \in Verdicts, NEW o \in Instants,
             ReadEvidence(h, c, e, s, o)
      PROVE  Ends(h) \/ Prepares(h)
  <2>1. PICK d : d = [status |-> s, observed |-> o]
    OBVIOUS
  <2>2. d \in EventData
    BY <2>1 DEF EventData, EvidenceData
  <2>3. Replay(h) \/ Prepare(h, e, Note(c, "CHANGE_RUNTIME_EVIDENCE_RECORDED", d), 0)
    BY <1>2, <2>1 DEF ReadEvidence
  <2> QED BY <2>2, <2>3, PreparesNote DEF Replay, Ends, EventType
<1>3. ASSUME NEW c \in Keys, NEW p \in Keys, NEW e \in Events, ReadLink(h, c, e, p)
      PROVE  Ends(h) \/ Prepares(h)
  <2>1. p \in EventData
    BY DEF EventData
  <2> QED BY <1>3, <2>1, PreparesNote DEF ReadLink, Replay, Ends, EventType
<1>4. CASE CommitRecord(h)
  BY <1>4 DEF CommitRecord, Ends, Inserts, InsertsPlain, Plain, At
<1>5. CASE CommitLink(h)
  BY <1>5 DEF CommitLink, Ends, Inserts, InsertsPlain, Plain, At
<1>6. CASE Drop(h)
  BY <1>6 DEF Drop, Ends
<1> QED BY <1>1, <1>2, <1>3, <1>4, <1>5, <1>6, ScopeTyped DEF Records

LEMMA ManagedShapes ==
    ASSUME RsmInv, StoreInv, scope \in Scope, NEW h \in Handlers, Managed(h)
    PROVE  \/ Ends(h) \/ Prepares(h)
           \/ Inserts(h) /\ (InsertsPlain(h) \/ InsertsApproval(h) \/ InsertsDecision(h))
<1>1. ASSUME NEW c \in Keys, NEW e \in Events, NEW p \in Policies, ReadSla(h, c, e, p)
      PROVE  Ends(h) \/ Prepares(h)
  <2>1. p \in EventData
    BY DEF EventData
  <2>2. \/ Replay(h)
        \/ Prepare(h, e, Note(c, "SLA_APPLIED", p), 0) /\ Rows(c, "SLA_APPLIED") = {}
    BY <1>1 DEF ReadSla
  <2> QED BY <2>1, <2>2, PreparesNote DEF Replay, Ends, EventType
<1>2. CASE CommitSla(h)
  BY <1>2 DEF CommitSla, Ends, Inserts, InsertsPlain, Plain, At
<1>3. ASSUME NEW c \in Keys, NEW e \in Events, NEW g \in Groups, ReadAssignment(h, c, e, g)
      PROVE  Ends(h) \/ Prepares(h)
  <2> DEFINE After(n, previous) ==
              Note(c, "ASSIGNMENT_CHANGED", [sequence |-> n + 1, group |-> g, previous |-> previous])
  <2>1. \/ Replay(h)
        \/ Prepare(h, e, After(0, None), 0)
        \/ \E d \in CurrentAssignment(c) :
              Prepare(h, e, After(events[d].data.sequence, events[d].data.group), 0)
    BY <1>3 DEF ReadAssignment
  <2>2. ASSUME NEW n \in Nat, NEW q \in Groups \cup {None}, Prepare(h, e, After(n, q), 0)
        PROVE  Prepares(h)
    <3>1. PICK m \in Nat : m = n + 1
      OBVIOUS
    <3>2. PICK d : d = [sequence |-> m, group |-> g, previous |-> q]
      OBVIOUS
    <3>3. d \in AssignmentData
      BY <3>2 DEF AssignmentData
    <3>4. d \in EventData
      BY <3>3 DEF EventData
    <3>5. Prepare(h, e, Note(c, "ASSIGNMENT_CHANGED", d), 0)
      BY <2>2, <3>1, <3>2
    <3> QED BY <3>3, <3>4, <3>5, PreparesNote DEF EventType
  <2>3. ASSUME NEW d \in CurrentAssignment(c)
        PROVE  events[d].data.sequence \in Nat /\ events[d].data.group \in Groups
    <3>1. d \in Events /\ Used(d) /\ events[d].type = "ASSIGNMENT_CHANGED"
      BY DEF CurrentAssignment, Assigned, Rows
    <3>2. events[d].data \in AssignmentData
      BY <3>1 DEF StoreInv, Stored, Sound, Columns
    <3> QED BY <3>2 DEF AssignmentData
  <2>4. CASE Replay(h)
    BY <2>4 DEF Replay, Ends
  <2>5. CASE Prepare(h, e, After(0, None), 0)
    BY <2>2, <2>5
  <2>6. ASSUME NEW d \in CurrentAssignment(c),
               Prepare(h, e, After(events[d].data.sequence, events[d].data.group), 0)
        PROVE  Prepares(h)
    <3> HIDE DEF After
    <3> QED BY <2>2, <2>3, <2>6
  <2> QED BY <2>1, <2>4, <2>5, <2>6
<1>4. CASE CommitAssignment(h)
  BY <1>4 DEF CommitAssignment, Ends, Inserts, InsertsPlain, Plain, At
<1>5. ASSUME NEW c \in Keys, NEW e \in Events, ReadApproval(h, c, e)
      PROVE  Ends(h) \/ Prepares(h)
  <2>1. None \in EventData
    BY DEF EventData
  <2> QED BY <1>5, <2>1, PreparesNote DEF ReadApproval, Replay, Ends, EventType
<1>6. CASE CommitApproval(h)
  BY <1>6 DEF CommitApproval, Ends, Inserts, InsertsApproval, At
<1>7. ASSUME NEW c \in Keys, NEW a \in Events, NEW e \in Events, NEW d \in Decisions,
             ReadDecision(h, c, a, e, d)
      PROVE  Ends(h) \/ Prepares(h)
  <2>1. PICK x : x = [approval |-> a, decision |-> d]
    OBVIOUS
  <2>2. x \in DecisionData /\ x.approval = a
    BY <2>1 DEF DecisionData
  <2>3. x \in EventData
    BY <2>2 DEF EventData
  <2>4. /\ \/ Replay(h)
           \/ /\ Prepare(h, e, Note(c, "APPROVAL_DECIDED", x), 0)
              /\ approvals[a].status = "PENDING"
        /\ approvals[a] # None /\ events[a].case = c
    BY <1>7, <2>1 DEF ReadDecision
  <2>5. Used(a) /\ (approvals[a].status = "PENDING" => approvals[a].decided = None)
    BY <2>4 DEF StoreInv, ApprovalOK
  <2> QED BY <2>2, <2>3, <2>4, <2>5, PreparesNote DEF Replay, Ends, EventType
<1>8. CASE CommitDecision(h)
  BY <1>8 DEF CommitDecision, Ends, Inserts, InsertsDecision, At
<1> QED BY <1>1, <1>2, <1>3, <1>4, <1>5, <1>6, <1>7, <1>8, ScopeTyped DEF Managed

Shape(h) ==
    \/ Ends(h) \/ Prepares(h)
    \/ /\ Inserts(h)
       /\ InsertsPlain(h) \/ InsertsCase(h) \/ InsertsMove(h) \/ InsertsApproval(h) \/ InsertsDecision(h)

LEMMA Shaped ==
    ASSUME RsmInv, StoreInv, scope \in Scope, NEW h \in Handlers, Step(h)
    PROVE  Shape(h)
BY TransitionShapes, RecordShapes, ManagedShapes DEF Step, Shape

-----------------------------------------------------------------------------
\* Rows are never changed, and neither is the type of a case.
EventsGrow == \A e \in Events : Used(e) => events'[e] = events[e]
CasesGrow  == \A c \in Keys : Exists(c) => cases'[c] # None /\ cases'[c].type = cases[c].type

\* The row in hand, and what its insertion does to the table of events.
LEMMA Inserted ==
    ASSUME StoreInv, NEW h \in Handlers, Inserts(h)
    PROVE  \E e \in Events, row \in EventRecord :
              /\ e = call[h].event /\ row = call[h].row /\ Sound(row) /\ row # None
              /\ events[e] = None /\ events'[e] = row
              /\ \A d \in Events \ {e} : events'[d] = events[d]
              /\ events' \in [Events -> EventRecord \cup {None}]
<1>1. call[h].event \in Events /\ Sound(call[h].row) /\ call[h].row \in EventRecord
  BY DEF StoreInv, InHand, Inserts, Sound
<1>2. PICK e \in Events, row \in EventRecord : e = call[h].event /\ row = call[h].row
  BY <1>1
<1>3. events' = [events EXCEPT ![e] = row] /\ events[e] = None
  BY <1>2 DEF Inserts, Insert, Used
<1>4. events \in [Events -> EventRecord \cup {None}]
  BY DEF StoreInv, TablesOK
<1>5. events' \in [Events -> EventRecord \cup {None}] /\ events'[e] = row
      /\ \A d \in Events \ {e} : events'[d] = events[d]
  BY <1>3, <1>4
<1>6. row # None /\ Sound(row)
  BY <1>1, <1>2, ServiceCasesAssumption
<1> QED BY <1>2, <1>3, <1>5, <1>6

LEMMA EventsKept ==
    ASSUME StoreInv, NEW h \in Handlers, Shape(h)
    PROVE  EventsGrow /\ events' \in [Events -> EventRecord \cup {None}]
<1>1. CASE Inserts(h)
  BY <1>1, Inserted DEF EventsGrow, Used
<1>2. CASE events' = events
  BY <1>2 DEF EventsGrow, StoreInv, TablesOK
<1> QED BY <1>1, <1>2 DEF Shape, Ends, Prepares, Prepare

\* A case is created where there was none, or moves and keeps its type.
LEMMA CaseInserted ==
    ASSUME RsmInv, NEW h \in Handlers, InsertsCase(h), Inserts(h)
    PROVE  \E c \in Keys, t \in ServiceCaseType :
              /\ c = call[h].row.case /\ call[h].row.type = "CASE_CREATED" /\ t = call[h].row.data
              /\ cases[c] = None
              /\ cases'[c] = CaseRow(t, "NEW", 1)
              /\ \A k \in Keys \ {c} : cases'[k] = cases[k]
              /\ approvals' = approvals
<1>1. call[h].row.case \in Keys /\ call[h].row.data \in ServiceCaseType /\ At(h, "CASE_CREATED")
  BY DEF RsmInv, CreationOK, InsertsCase, CommitCreate
<1>2. PICK c \in Keys, t \in ServiceCaseType : c = call[h].row.case /\ t = call[h].row.data
  BY <1>1
<1>3. cases' = [cases EXCEPT ![c] = CaseRow(t, "NEW", 1)] /\ cases[c] = None /\ approvals' = approvals
  BY <1>2 DEF InsertsCase, CommitCreate, Inserts, Exists
<1>4. cases'[c] = CaseRow(t, "NEW", 1) /\ \A k \in Keys \ {c} : cases'[k] = cases[k]
  BY <1>3 DEF RsmInv, CasesOK
<1> QED BY <1>1, <1>2, <1>3, <1>4 DEF At

LEMMA MoveInserted ==
    ASSUME RsmInv, NEW h \in Handlers, InsertsMove(h), Inserts(h)
    PROVE  \E c \in Keys, old \in CaseRecord, s \in ServiceCaseState :
              /\ c = call[h].row.case /\ old = cases[c] /\ s = call[h].row.to
              /\ call[h].row.type = "STATE_TRANSITIONED" /\ call[h].row.from = old.state
              /\ cases'[c] = CaseRow(old.type, s, old.version + 1)
              /\ \A k \in Keys \ {c} : cases'[k] = cases[k]
              /\ approvals' = approvals
<1>1. MoveOK(h) /\ At(h, "STATE_TRANSITIONED")
  BY DEF RsmInv, InsertsMove, CommitTransition
<1>2. PICK c \in Keys : c = call[h].row.case
  BY <1>1 DEF MoveOK
<1>3. PICK s \in ServiceCaseState : s = call[h].row.to
  BY <1>1 DEF MoveOK, ServiceCaseState, Lifecycle!ServiceCaseState
<1>4. PICK old \in CaseRecord : old = cases[c]
  BY <1>1, <1>2 DEF MoveOK, RsmInv, CasesOK
<1>5. call[h].version = old.version
  BY <1>2, <1>4 DEF InsertsMove
<1>6. call[h].row.from = old.state
  BY <1>1, <1>2, <1>4, <1>5 DEF MoveOK
<1>7. cases' = [cases EXCEPT ![c] = CaseRow(old.type, s, old.version + 1)] /\ approvals' = approvals
  BY <1>2, <1>3, <1>4, <1>5 DEF InsertsMove, CommitTransition, Inserts
<1>8. /\ cases'[c] = CaseRow(old.type, s, old.version + 1)
      /\ \A k \in Keys \ {c} : cases'[k] = cases[k]
  BY <1>7 DEF RsmInv, CasesOK
<1> QED BY <1>1, <1>2, <1>3, <1>4, <1>6, <1>7, <1>8 DEF At

LEMMA CasesKept ==
    ASSUME RsmInv, StoreInv, NEW h \in Handlers, Shape(h)
    PROVE  CasesGrow
<1>1. CASE cases' = cases
  BY <1>1 DEF CasesGrow, Exists
<1>2. CASE Inserts(h) /\ InsertsCase(h)
  BY <1>2, CaseInserted DEF CasesGrow, Exists
<1>3. CASE Inserts(h) /\ InsertsMove(h)
  <2>1. PICK c \in Keys, old \in CaseRecord, s \in ServiceCaseState :
           /\ old = cases[c] /\ cases'[c] = CaseRow(old.type, s, old.version + 1)
           /\ \A k \in Keys \ {c} : cases'[k] = cases[k]
    BY <1>3, MoveInserted
  <2>2. PICK t \in ServiceCaseType, v \in Nat : t = old.type /\ v = old.version + 1
    BY DEF CaseRecord
  <2>3. cases'[c] # None
    BY <2>1, <2>2, RowTyped DEF ServiceCaseState, Lifecycle!ServiceCaseState
  <2>4. cases'[c].type = old.type
    BY <2>1 DEF CaseRow
  <2> QED BY <2>1, <2>3, <2>4 DEF CasesGrow, Exists
<1> QED BY <1>1, <1>2, <1>3 DEF Shape, Ends, Prepares, Prepare, InsertsPlain, InsertsApproval,
                             InsertsDecision, CommitApproval, CommitDecision

\* So what is sound stays so.
LEMMA SoundStays ==
    ASSUME NEW row, Sound(row), EventsGrow, CasesGrow
    PROVE  Sound(row)'
<1>1. row \in EventRecord /\ row.case \in Keys
  BY DEF Sound, EventRecord
<1>2. Columns(row)'
  BY <1>1 DEF Sound, Columns, CasesGrow, Exists
<1>5. DecidesOwn(row)'
  <2>1. SUFFICES ASSUME row.type = "APPROVAL_DECIDED"
        PROVE  /\ row.data \in DecisionData /\ Used(row.data.approval)'
               /\ events'[row.data.approval].case = row.case
    BY DEF DecidesOwn
  <2>2. /\ row.data \in DecisionData /\ Used(row.data.approval)
        /\ events[row.data.approval].case = row.case
    BY <2>1 DEF Sound, DecidesOwn
  <2>3. row.data.approval \in Events
    BY <2>2 DEF DecisionData
  <2> QED BY <2>2, <2>3 DEF EventsGrow, Used
<1> QED BY <1>1, <1>2, <1>5 DEF Sound

\* An approval changes only by a decision, whose event was not stored before.
ApprovalsGrow ==
    \A a \in Events : approvals[a] # None =>
        \/ approvals'[a] = approvals[a]
        \/ approvals'[a] # None /\ ~ Used(approvals'[a].decided)

LEMMA ApprovalsKept ==
    ASSUME StoreInv, NEW h \in Handlers, Shape(h)
    PROVE  ApprovalsGrow
<1>1. CASE approvals' = approvals
  BY <1>1 DEF ApprovalsGrow
<1>2. approvals \in [Events -> ApprovalRecord \cup {None}]
  BY DEF StoreInv, TablesOK
<1>3. CASE Inserts(h) /\ InsertsApproval(h)
  <2>1. PICK e \in Events : e = call[h].event /\ events[e] = None
    BY <1>3, Inserted
  <2>2. approvals[e] = None
    BY <2>1 DEF StoreInv, ApprovalOK, Used
  <2>3. \A a \in Events \ {e} : approvals'[a] = approvals[a]
    BY <1>2, <1>3, <2>1 DEF InsertsApproval, CommitApproval, Inserts
  <2> QED BY <2>2, <2>3 DEF ApprovalsGrow
<1>4. CASE Inserts(h) /\ InsertsDecision(h)
  <2>1. PICK e \in Events, row \in {call[h].row} : e = call[h].event /\ events[e] = None /\ row = call[h].row
    BY <1>4, Inserted
  <2>2. PICK b, x : b = row.data.approval /\ x = [status |-> row.data.decision, decided |-> e]
    OBVIOUS
  <2>3. approvals' = [approvals EXCEPT ![b] = x] /\ x.decided = e
    BY <1>4, <2>1, <2>2 DEF InsertsDecision, CommitDecision, Inserts
  <2>4. x # None
    <3>1. row.type = "APPROVAL_DECIDED" /\ Sound(row)
      BY <1>4, <2>1 DEF InsertsDecision, CommitDecision, At, StoreInv, InHand, Inserts
    <3>2. row.data.decision \in Decisions
      BY <3>1 DEF Sound, DecidesOwn, DecisionData
    <3>3. x \in ApprovalRecord
      BY <2>2, <3>2 DEF ApprovalRecord
    <3> QED BY <3>3, ServiceCasesAssumption
  <2>5. \A a \in Events : approvals'[a] = IF a = b THEN x ELSE approvals[a]
    BY <1>2, <2>3
  <2> QED BY <2>1, <2>3, <2>4, <2>5 DEF ApprovalsGrow, Used
<1> QED BY <1>1, <1>3, <1>4 DEF Shape, Ends, Prepares, Prepare, InsertsPlain, InsertsCase, InsertsMove,
                             CommitCreate, CommitTransition

\* What a handler has seen stays as it was, so what its row rests on does too.
LEMMA TimelyStays ==
    ASSUME NEW row, NEW v, NEW S, Sound(row), Timely(row, v, S), EventsGrow, CasesGrow, ApprovalsGrow
    PROVE  Timely(row, v, S)'
<1>1. \A e \in S : e \in Events /\ Used(e) /\ events'[e] = events[e]
  BY DEF Timely, EventsGrow
<1>2. PICK c \in Keys : c = row.case
  BY DEF Sound, EventRecord
<1>3. ASSUME NEW type PROVE Rows(c, type)' \cap S = Rows(c, type) \cap S
  BY <1>1 DEF Rows, Used
<1>4. Moves(c)' \cap S = Moves(c) \cap S
  BY <1>1 DEF Moves, Used
<1>5. ApprovalHeld(c, S) => ApprovalHeld(c, S)'
  <2>1. SUFFICES ASSUME NEW d \in Rows(c, "APPROVAL_DECIDED") \cap S, NEW a \in Events,
                        events[d].data.decision = "APPROVED", events[d].data.approval = a,
                        approvals[a] # None,
                        approvals[a].status = "APPROVED" \/ approvals[a].decided \notin S
                 PROVE  ApprovalHeld(c, S)'
    BY DEF ApprovalHeld
  <2>2. d \in Rows(c, "APPROVAL_DECIDED")' \cap S /\ events'[d] = events[d]
    BY <1>1, <1>3
  <2>3. /\ approvals'[a] # None
        /\ approvals'[a].status = "APPROVED" \/ approvals'[a].decided \notin S
    BY <1>1, <2>1 DEF ApprovalsGrow
  <2> QED BY <2>1, <2>2, <2>3 DEF ApprovalHeld
<1>6. EvidenceStands(c, S) => EvidenceStands(c, S)'
  <2>1. Evidence(c)' \cap S = Evidence(c) \cap S
    BY <1>3 DEF Evidence
  <2> QED BY <1>1, <2>1 DEF EvidenceStands, AllowsClose
<1>7. TimelyMove(row, v, S)'
  <2>1. SUFFICES ASSUME row.type = "STATE_TRANSITIONED" PROVE TimelyMove(row, v, S)'
    BY DEF TimelyMove
  <2>2. IsA(c, "CHANGE")' => IsA(c, "CHANGE")
    BY <1>2, <2>1 DEF Sound, Columns, CasesGrow, Exists, IsA
  <2>3. /\ Cardinality(Moves(c) \cap S) = v
        /\ (row.from = "PENDING_APPROVAL" /\ row.to = "IN_PROGRESS") => ApprovalHeld(c, S)
        /\ (row.to = "CLOSED" /\ IsA(c, "CHANGE")) => EvidenceStands(c, S)
    BY <1>2, <2>1 DEF Timely, TimelyMove
  <2> QED BY <1>2, <1>4, <1>5, <1>6, <2>2, <2>3 DEF TimelyMove
<1>8. row.type = "SLA_APPLIED" => Rows(row.case, "SLA_APPLIED")' \cap S = {}
  BY <1>2, <1>3 DEF Timely
<1>9. row.type = "APPROVAL_DECIDED" => Undecided(row.data.approval, S)'
  <2>1. SUFFICES ASSUME row.type = "APPROVAL_DECIDED" PROVE Undecided(row.data.approval, S)'
    OBVIOUS
  <2>2. PICK a \in Events : a = row.data.approval
    BY <2>1 DEF Sound, DecidesOwn, DecisionData
  <2>3. Undecided(a, S)
    BY <2>1, <2>2 DEF Timely
  <2>4. Undecided(a, S)'
    BY <1>1, <2>3 DEF Undecided, ApprovalsGrow
  <2> QED BY <2>2, <2>4
<1>10. \A e \in S : e \in Events /\ Used(e)'
  BY <1>1 DEF Used
<1> QED BY <1>7, <1>8, <1>9, <1>10 DEF Timely

-----------------------------------------------------------------------------
\* The parts of the invariant, one by one.
LEMMA HandsStep ==
    ASSUME RsmInv, StoreInv, NEW h \in Handlers, Shape(h)
    PROVE  \A g \in Handlers : InHand(g)'
<1> SUFFICES ASSUME NEW g \in Handlers PROVE InHand(g)'
  OBVIOUS
<1>0. EventsGrow /\ CasesGrow /\ ApprovalsGrow
  BY EventsKept, CasesKept, ApprovalsKept
<1>1. CASE g # h
  <2>1. call'[g] = call[g]
    BY <1>1 DEF RsmInv, CallsOK, Shape, Ends, Prepares, Prepare, Inserts, Answer, Refuse
  <2>2. PICK row, v, S : row = call[g].row /\ v = call[g].version /\ S = call[g].seen
    OBVIOUS
  <2>3. call[g].phase = "ready" => call[g].event \in Events /\ Sound(row) /\ Timely(row, v, S)
    BY <2>2 DEF StoreInv, InHand
  <2>4. call[g].phase = "ready" => Sound(row)' /\ Timely(row, v, S)'
    BY <1>0, <2>3, SoundStays, TimelyStays
  <2> QED BY <2>1, <2>2, <2>3, <2>4 DEF InHand
<1>2. CASE g = h /\ Prepares(h)
  <2>1. PICK e \in Events, row \in EventRecord, v \in Nat :
           Sound(row) /\ Timely(row, v, Seen(row)) /\ Prepare(h, e, row, v)
    BY <1>2 DEF Prepares
  <2>4. PICK S : S = Seen(row)
    OBVIOUS
  <2>2. call'[h] = Ready(e, row, v, S)
    BY <2>1, <2>4 DEF Prepare, RsmInv, CallsOK
  <2>3. Sound(row)' /\ Timely(row, v, S)'
    BY <1>0, <2>1, <2>4, SoundStays, TimelyStays
  <2>5. /\ call'[h].event = e /\ call'[h].row = row
        /\ call'[h].version = v /\ call'[h].seen = S
    BY <2>2 DEF Ready
  <2> QED BY <1>2, <2>3, <2>5 DEF InHand
<1>3. CASE g = h /\ (Answer(h) \/ Refuse(h))
  <2>1. call'[h].phase # "ready"
    BY <1>3 DEF RsmInv, CallsOK, Answer, Refuse, Done, NoCall
  <2> QED BY <1>3, <2>1 DEF InHand
<1> QED BY <1>1, <1>2, <1>3 DEF Shape, Ends, Inserts

LEMMA RowsStep ==
    ASSUME RsmInv, StoreInv, NEW h \in Handlers, Shape(h)
    PROVE  \A e \in Events : Stored(e)'
<1> SUFFICES ASSUME NEW e \in Events, Used(e)' PROVE Sound(events[e])'
  BY DEF Stored
<1>0. EventsGrow /\ CasesGrow
  BY EventsKept, CasesKept
<1>1. PICK row : row = events'[e]
  OBVIOUS
<1>2. Sound(row)
  <2>1. CASE Used(e)
    BY <1>0, <1>1, <2>1 DEF EventsGrow, StoreInv, Stored
  <2>2. CASE ~ Used(e)
    <3>1. Inserts(h)
      BY <2>2 DEF Shape, Ends, Prepares, Prepare, Used
    <3> QED BY <1>1, <2>2, <3>1, Inserted DEF Used
  <2> QED BY <2>1, <2>2
<1>3. Sound(row)'
  BY <1>0, <1>2, SoundStays
<1> QED BY <1>1, <1>3

LEMMA ApprovalsStep ==
    ASSUME RsmInv, StoreInv, NEW h \in Handlers, Shape(h)
    PROVE  /\ approvals' \in [Events -> ApprovalRecord \cup {None}]
           /\ \A a \in Events : ApprovalOK(a)'
<1>0. EventsGrow /\ events' \in [Events -> EventRecord \cup {None}]
  BY EventsKept
<1>t. /\ events \in [Events -> EventRecord \cup {None}]
      /\ approvals \in [Events -> ApprovalRecord \cup {None}]
  BY DEF StoreInv, TablesOK
\* An approval that is not written, of an event that is not inserted.
<1>1. ASSUME NEW a \in Events, approvals'[a] = approvals[a], events'[a] = events[a]
      PROVE  ApprovalOK(a)'
  <2>1. ApprovalOK(a)
    BY DEF StoreInv
  <2>2. PICK d : d = approvals[a].decided
    OBVIOUS
  <2>3. (approvals[a] # None /\ approvals[a].status = "APPROVED") => d \in Events /\ DecidedBy(a, d)
    BY <2>1, <2>2 DEF ApprovalOK
  <2>4. (approvals[a] # None /\ approvals[a].status = "APPROVED") => d \in Events /\ DecidedBy(a, d)'
    BY <1>0, <1>1, <2>3 DEF DecidedBy, EventsGrow, Used
  <2> QED BY <1>1, <2>1, <2>2, <2>4 DEF ApprovalOK, Used
<1>2. CASE Ends(h) \/ Prepares(h)
  BY <1>2, <1>1, <1>t DEF Ends, Prepares, Prepare
<1>3. CASE Inserts(h)
  <2>1. PICK e \in Events, row \in EventRecord :
              /\ e = call[h].event /\ row = call[h].row /\ Sound(row) /\ row # None
              /\ events[e] = None /\ events'[e] = row
              /\ \A d \in Events \ {e} : events'[d] = events[d]
    BY <1>3, Inserted
  <2>2. approvals[e] = None
    BY <2>1 DEF StoreInv, ApprovalOK, Used
  <2>3. CASE approvals' = approvals /\ row.type # "APPROVAL_REQUESTED"
    <3>1. ApprovalOK(e)'
      BY <2>1, <2>2, <2>3 DEF ApprovalOK, Used
    <3> QED BY <1>1, <1>t, <2>1, <2>3, <3>1
  <2>4. CASE InsertsApproval(h)
    <3>1. PICK x \in ApprovalRecord : x = [status |-> "PENDING", decided |-> None]
      BY DEF ApprovalRecord
    <3>2. /\ approvals' = [approvals EXCEPT ![e] = x]
          /\ x.status = "PENDING" /\ x.decided = None /\ x # None
      BY <1>3, <2>1, <2>4, <3>1, ServiceCasesAssumption DEF InsertsApproval, CommitApproval, Inserts
    <3>3. ApprovalOK(e)'
      BY <1>t, <2>1, <3>2 DEF ApprovalOK, Used
    <3> QED BY <1>1, <1>t, <2>1, <3>2, <3>3
  <2>5. CASE InsertsDecision(h)
    <3>1. PICK b \in Events, d \in Decisions :
             /\ row.data.approval = b /\ row.data.decision = d
             /\ row.type = "APPROVAL_DECIDED" /\ Used(b) /\ events[b].case = row.case
      <4>1. row.type = "APPROVAL_DECIDED"
        BY <2>1, <2>5 DEF InsertsDecision, CommitDecision, At
      <4>2. DecidesOwn(row)
        BY <2>1 DEF Sound
      <4> QED BY <4>1, <4>2 DEF DecidesOwn, DecisionData
    <3>2. PICK x \in ApprovalRecord : x = [status |-> d, decided |-> e]
      BY DEF ApprovalRecord
    <3>3. approvals' = [approvals EXCEPT ![b] = x] /\ x.status = d /\ x.decided = e /\ x # None
      BY <1>3, <2>1, <2>5, <3>1, <3>2, ServiceCasesAssumption DEF InsertsDecision, CommitDecision, Inserts
    <3>4. b # e /\ events'[b] = events[b]
      BY <2>1, <3>1 DEF Used
    <3>5. ApprovalOK(e)'
      BY <1>t, <2>1, <2>2, <3>1, <3>3, <3>4 DEF ApprovalOK, Used
    <3>6. ApprovalOK(b)'
      <4>2. d = "APPROVED" => DecidedBy(b, e)'
        BY <2>1, <3>1, <3>4 DEF DecidedBy, Used
      <4>3. approvals'[b] = x
        BY <1>t, <3>3
      <4>4. d # "PENDING"
        BY DEF Decisions
      <4> QED BY <3>1, <3>3, <3>4, <4>2, <4>3, <4>4 DEF ApprovalOK, Used
    <3>7. approvals' \in [Events -> ApprovalRecord \cup {None}]
      BY <1>t, <3>3
    <3>8. ASSUME NEW a \in Events, a # e, a # b PROVE ApprovalOK(a)'
      BY <1>1, <1>t, <2>1, <3>3, <3>8
    <3> QED BY <3>5, <3>6, <3>7, <3>8
  <2>6. CASE InsertsPlain(h) \/ InsertsCase(h) \/ InsertsMove(h)
    BY <2>1, <2>3, <2>6 DEF InsertsPlain, Plain, InsertsCase, CommitCreate, InsertsMove,
                            CommitTransition, At
  <2> QED BY <1>2, <2>4, <2>5, <2>6 DEF Shape
<1> QED BY <1>2, <1>3 DEF Shape

-----------------------------------------------------------------------------
\* The history of a case that gets no move.
LEMMA HistorySame ==
    ASSUME NEW c \in Keys, HistoryOK(c), cases'[c] = cases[c],
           \A e \in Events : \/ events'[e] = events[e]
                             \/ events[e] = None /\ (events'[e].case # c \/ events'[e].to = None)
    PROVE  HistoryOK(c)'
<1>1. Moves(c)' = Moves(c)
  BY DEF Moves, Used
<1>2. \A e \in Moves(c) : events'[e] = events[e]
  BY DEF Moves, Used
<1>3. ASSUME NEW s \in ServiceCaseState
      PROVE  Entered(c, s)' = Entered(c, s) /\ Left(c, s)' = Left(c, s)
  BY <1>1, <1>2 DEF Entered, Left
<1>4. ASSUME NEW s \in ServiceCaseState, Exists(c)
      PROVE  Cardinality(Entered(c, s))'
                = Cardinality(Left(c, s))' + (IF cases'[c].state = s THEN 1 ELSE 0)
  BY <1>3, <1>4 DEF HistoryOK
<1> QED BY <1>1, <1>4 DEF HistoryOK, Exists

\* A move more in a finite set of moves.
LEMMA OneMore ==
    ASSUME NEW S, NEW T, NEW e, IsFiniteSet(S), e \notin S,
           NEW p \in BOOLEAN, T = IF p THEN S \cup {e} ELSE S
    PROVE  /\ Cardinality(S) \in Nat /\ IsFiniteSet(T)
           /\ Cardinality(T) = Cardinality(S) + (IF p THEN 1 ELSE 0)
<1>1. Cardinality(S) \in Nat
  BY FS_CardinalityType
<1>2. CASE p
  BY <1>1, <1>2, FS_AddElement
<1>3. CASE ~ p
  BY <1>1, <1>3
<1> QED BY <1>1, <1>2, <1>3

\* The history of a case that gets one, from state f, or none, to state t.
LEMMA HistoryGrows ==
    ASSUME NEW c \in Keys, HistoryOK(c), NEW e \in Events, NEW row,
           events[e] = None, events'[e] = row, row # None, row.case = c,
           row.to \in ServiceCaseState,
           \A d \in Events \ {e} : events'[d] = events[d]
    PROVE  /\ IsFiniteSet(Moves(c)') /\ Cardinality(Moves(c)) \in Nat
           /\ Cardinality(Moves(c)') = Cardinality(Moves(c)) + 1
           /\ \A s \in ServiceCaseState :
                /\ Cardinality(Entered(c, s)) \in Nat /\ Cardinality(Left(c, s)) \in Nat
                /\ Cardinality(Entered(c, s)') =
                        Cardinality(Entered(c, s)) + (IF row.to = s THEN 1 ELSE 0)
                /\ Cardinality(Left(c, s)') =
                        Cardinality(Left(c, s)) + (IF row.from = s THEN 1 ELSE 0)
<1>1. e \notin Moves(c) /\ IsFiniteSet(Moves(c))
  BY DEF Moves, Used, HistoryOK
<1>2. Moves(c)' = Moves(c) \cup {e}
  <2>1. row.to # None
    BY ServiceCasesAssumption
  <2>2. e \in Moves(c)'
    BY <2>1 DEF Moves, Used
  <2>3. ASSUME NEW d \in Events, d # e PROVE d \in Moves(c)' <=> d \in Moves(c)
    BY <2>3 DEF Moves, Used
  <2> QED BY <2>2, <2>3 DEF Moves
<1>3. \A d \in Moves(c) : events'[d] = events[d]
  BY <1>1 DEF Moves
<1>4. /\ IsFiniteSet(Moves(c)') /\ Cardinality(Moves(c)) \in Nat
      /\ Cardinality(Moves(c)') = Cardinality(Moves(c)) + 1
  BY <1>1, <1>2, FS_AddElement, FS_CardinalityType
<1>5. ASSUME NEW s \in ServiceCaseState
      PROVE  /\ Cardinality(Entered(c, s)) \in Nat
             /\ Cardinality(Entered(c, s)') =
                        Cardinality(Entered(c, s)) + (IF row.to = s THEN 1 ELSE 0)
  <2>1. Entered(c, s)' = IF row.to = s THEN Entered(c, s) \cup {e} ELSE Entered(c, s)
    BY <1>1, <1>2, <1>3 DEF Entered
  <2>2. IsFiniteSet(Entered(c, s)) /\ e \notin Entered(c, s)
    BY <1>1, FS_Subset DEF Entered
  <2>3. PICK S, T : S = Entered(c, s) /\ T = Entered(c, s)'
    OBVIOUS
  <2>4. PICK p \in BOOLEAN : p <=> row.to = s
    OBVIOUS
  <2>5. T = IF p THEN S \cup {e} ELSE S
    BY <2>1, <2>3, <2>4
  <2>6. Cardinality(S) \in Nat /\ Cardinality(T) = Cardinality(S) + (IF p THEN 1 ELSE 0)
    BY <2>2, <2>3, <2>5, OneMore
  <2> QED BY <2>3, <2>4, <2>6
<1>6. ASSUME NEW s \in ServiceCaseState
      PROVE  /\ Cardinality(Left(c, s)) \in Nat
             /\ Cardinality(Left(c, s)') =
                        Cardinality(Left(c, s)) + (IF row.from = s THEN 1 ELSE 0)
  <2>1. Left(c, s)' = IF row.from = s THEN Left(c, s) \cup {e} ELSE Left(c, s)
    BY <1>1, <1>2, <1>3 DEF Left
  <2>2. IsFiniteSet(Left(c, s)) /\ e \notin Left(c, s)
    BY <1>1, FS_Subset DEF Left
  <2>3. PICK S, T : S = Left(c, s) /\ T = Left(c, s)'
    OBVIOUS
  <2>4. PICK p \in BOOLEAN : p <=> row.from = s
    OBVIOUS
  <2>5. T = IF p THEN S \cup {e} ELSE S
    BY <2>1, <2>3, <2>4
  <2>6. Cardinality(S) \in Nat /\ Cardinality(T) = Cardinality(S) + (IF p THEN 1 ELSE 0)
    BY <2>2, <2>3, <2>5, OneMore
  <2> QED BY <2>3, <2>4, <2>6
<1> QED BY <1>4, <1>5, <1>6

LEMMA HistoryStep ==
    ASSUME RsmInv, StoreInv, NEW h \in Handlers, Shape(h)
    PROVE  \A c \in Keys : HistoryOK(c)'
<1>1. CASE Ends(h) \/ Prepares(h)
  <2>1. ASSUME NEW c \in Keys PROVE HistoryOK(c)'
    <3>1. HistoryOK(c)
      BY DEF StoreInv
    <3>2. cases' = cases /\ events' = events
      BY <1>1 DEF Ends, Prepares, Prepare
    <3> QED BY <3>1, <3>2, HistorySame
  <2> QED BY <2>1
<1>2. CASE Inserts(h)
  <2>1. PICK e \in Events, row \in EventRecord :
              /\ e = call[h].event /\ row = call[h].row /\ Sound(row) /\ row # None
              /\ events[e] = None /\ events'[e] = row
              /\ \A d \in Events \ {e} : events'[d] = events[d]
    BY <1>2, Inserted
  <2>2. ASSUME NEW k \in Keys, cases'[k] = cases[k], row.case # k \/ row.to = None
        PROVE  HistoryOK(k)'
    <3>1. HistoryOK(k)
      BY DEF StoreInv
    <3> QED BY <2>1, <2>2, <3>1, HistorySame
  <2>3. CASE InsertsPlain(h) \/ InsertsApproval(h) \/ InsertsDecision(h)
    <3>1. cases' = cases /\ row.type \notin {"CASE_CREATED", "STATE_TRANSITIONED"}
      BY <2>1, <2>3 DEF InsertsPlain, Plain, InsertsApproval, InsertsDecision, CommitApproval,
                        CommitDecision, At
    <3>2. row.to = None
      BY <2>1, <3>1 DEF Sound, Columns
    <3> QED BY <2>2, <3>1, <3>2
  <2>4. CASE InsertsCase(h)
    <3>1. PICK c \in Keys, t \in ServiceCaseType :
              /\ c = row.case /\ row.type = "CASE_CREATED"
              /\ cases[c] = None /\ cases'[c] = CaseRow(t, "NEW", 1)
              /\ \A k \in Keys \ {c} : cases'[k] = cases[k]
      BY <1>2, <2>1, <2>4, CaseInserted
    <3>2. row.from = None /\ row.to = "NEW"
      BY <2>1, <3>1 DEF Sound, Columns
    <3>3. HistoryOK(c) /\ Moves(c) = {}
      BY <3>1 DEF StoreInv, HistoryOK, Exists
    <3>4. /\ IsFiniteSet(Moves(c)') /\ Cardinality(Moves(c)') = Cardinality(Moves(c)) + 1
          /\ \A s \in ServiceCaseState :
                /\ Cardinality(Entered(c, s)') =
                        Cardinality(Entered(c, s)) + (IF row.to = s THEN 1 ELSE 0)
                /\ Cardinality(Left(c, s)') =
                        Cardinality(Left(c, s)) + (IF row.from = s THEN 1 ELSE 0)
      <4>1. row.to \in ServiceCaseState
        BY <3>2 DEF ServiceCaseState
      <4> QED BY <2>1, <3>1, <3>3, <4>1, HistoryGrows
    <3>5. Cardinality(Moves(c)) = 0
      BY <3>3, FS_EmptySet
    <3>6. ASSUME NEW s \in ServiceCaseState
          PROVE  Cardinality(Entered(c, s)) = 0 /\ Cardinality(Left(c, s)) = 0
      <4>1. Entered(c, s) = {} /\ Left(c, s) = {}
        BY <3>3 DEF Entered, Left
      <4> QED BY <4>1, FS_EmptySet
    <3>7. cases'[c].version = 1 /\ cases'[c].state = "NEW" /\ cases'[c] # None
      BY <3>1, RowTyped DEF Lifecycle!ServiceCaseState
    <3>8. ASSUME NEW s \in ServiceCaseState
          PROVE  Cardinality(Entered(c, s)')
                    = Cardinality(Left(c, s)') + (IF cases'[c].state = s THEN 1 ELSE 0)
      BY <3>2, <3>4, <3>6, <3>7, ServiceCasesAssumption
    <3>9. HistoryOK(c)'
      BY <3>4, <3>5, <3>7, <3>8 DEF HistoryOK, Exists
    <3> QED BY <2>2, <3>1, <3>9
  <2>5. CASE InsertsMove(h)
    <3>1. PICK c \in Keys, old \in CaseRecord, s1 \in ServiceCaseState :
              /\ c = row.case /\ old = cases[c] /\ s1 = row.to /\ row.from = old.state
              /\ cases'[c] = CaseRow(old.type, s1, old.version + 1)
              /\ \A k \in Keys \ {c} : cases'[k] = cases[k]
      BY <1>2, <2>1, <2>5, MoveInserted
    <3>2. HistoryOK(c) /\ Exists(c)
      BY <3>1, ServiceCasesAssumption DEF StoreInv, Exists
    <3>4. /\ IsFiniteSet(Moves(c)') /\ Cardinality(Moves(c)') = Cardinality(Moves(c)) + 1
          /\ Cardinality(Moves(c)) \in Nat
          /\ \A s \in ServiceCaseState :
                /\ Cardinality(Entered(c, s)) \in Nat /\ Cardinality(Left(c, s)) \in Nat
                /\ Cardinality(Entered(c, s)') =
                        Cardinality(Entered(c, s)) + (IF row.to = s THEN 1 ELSE 0)
                /\ Cardinality(Left(c, s)') =
                        Cardinality(Left(c, s)) + (IF row.from = s THEN 1 ELSE 0)
      BY <2>1, <3>1, <3>2, HistoryGrows
    <3>5. PICK t \in ServiceCaseType, v \in Nat : t = old.type /\ v = old.version + 1
      BY DEF CaseRecord
    <3>7. cases'[c].version = old.version + 1 /\ cases'[c].state = s1 /\ cases'[c] # None
      BY <3>1, <3>5, RowTyped DEF Lifecycle!ServiceCaseState, ServiceCaseState
    <3>8. ASSUME NEW s \in ServiceCaseState
          PROVE  Cardinality(Entered(c, s)')
                    = Cardinality(Left(c, s)') + (IF cases'[c].state = s THEN 1 ELSE 0)
      <4>1. Cardinality(Entered(c, s)) = Cardinality(Left(c, s)) + (IF old.state = s THEN 1 ELSE 0)
        BY <3>1, <3>2 DEF HistoryOK
      <4> QED BY <3>1, <3>4, <3>7, <4>1
    <3>9. HistoryOK(c)'
      BY <3>1, <3>2, <3>4, <3>7, <3>8 DEF HistoryOK, Exists
    <3> QED BY <2>2, <3>1, <3>9
  <2> QED BY <1>1, <2>3, <2>4, <2>5 DEF Shape
<1> QED BY <1>1, <1>2 DEF Shape

-----------------------------------------------------------------------------
LEMMA StoreStep ==
    ASSUME RsmInv, StoreInv, scope \in Scope, NEW h \in Handlers, Step(h)
    PROVE  StoreInv'
<1>1. Shape(h)
  BY Shaped
<1>2. TablesOK'
  BY <1>1, EventsKept, ApprovalsStep DEF TablesOK
<1> QED BY <1>1, <1>2, HandsStep, RowsStep, ApprovalsStep, HistoryStep DEF StoreInv

\* The second inductive invariant: rows are sound, a row in hand rests on what
\* its handler has seen, approvals name their decisions, and histories explain
\* their cases.
THEOREM RowsAreSound == Spec => []StoreInv
<1>1. Init => StoreInv
  <2> SUFFICES ASSUME Init PROVE StoreInv
    OBVIOUS
  <2>1. TablesOK
    BY DEF Init, TablesOK
  <2>2. \A h \in Handlers : InHand(h)
    BY DEF Init, InHand, NoCall
  <2>3. \A e \in Events : Stored(e) /\ ApprovalOK(e)
    BY DEF Init, Stored, ApprovalOK, Used
  <2>5. ASSUME NEW c \in Keys PROVE HistoryOK(c)
    <3>1. Moves(c) = {} /\ ~ Exists(c)
      BY DEF Init, Moves, Used, Exists
    <3> QED BY <3>1, FS_EmptySet DEF HistoryOK
  <2> QED BY <2>1, <2>2, <2>3, <2>5 DEF StoreInv
<1>2. RsmInv /\ scope \in Scope /\ StoreInv /\ [Next]_vars => StoreInv'
  <2> SUFFICES ASSUME RsmInv, scope \in Scope, StoreInv, [Next]_vars PROVE StoreInv'
    OBVIOUS
  <2>1. CASE UNCHANGED vars
    <3> DEFINE Same == UNCHANGED vars
    <3>1. ASSUME NEW row PROVE Sound(row) => Sound(row)'
      BY <2>1, SoundStays DEF vars, EventsGrow, CasesGrow, Exists
    <3>2. \A h \in Handlers : InHand(h)'
      <4> SUFFICES ASSUME NEW h \in Handlers PROVE InHand(h)'
        OBVIOUS
      <4>1. PICK row, v, S : row = call[h].row /\ v = call[h].version /\ S = call[h].seen
        OBVIOUS
      <4>2. EventsGrow /\ CasesGrow /\ ApprovalsGrow
        BY <2>1 DEF vars, EventsGrow, CasesGrow, ApprovalsGrow, Exists
      <4>3. call[h].phase = "ready" => call[h].event \in Events /\ Sound(row) /\ Timely(row, v, S)
        BY <4>1 DEF StoreInv, InHand
      <4>4. call[h].phase = "ready" => Sound(row)' /\ Timely(row, v, S)'
        BY <4>2, <4>3, SoundStays, TimelyStays
      <4> QED BY <2>1, <4>1, <4>3, <4>4 DEF InHand, vars
    <3>3. \A e \in Events : Stored(e)'
      <4> SUFFICES ASSUME NEW e \in Events PROVE Stored(e)'
        OBVIOUS
      <4>1. PICK row : row = events[e]
        OBVIOUS
      <4> QED BY <2>1, <3>1, <4>1 DEF StoreInv, Stored, vars, Used
    <3>4. TablesOK' /\ (\A e \in Events : ApprovalOK(e)')
      BY <2>1 DEF StoreInv, TablesOK, ApprovalOK, DecidedBy, Used, vars
    <3>5. \A c \in Keys : HistoryOK(c)'
      BY <2>1, HistorySame DEF StoreInv, vars
    <3> QED BY <3>2, <3>3, <3>4, <3>5 DEF StoreInv
  <2>2. ASSUME NEW h \in Handlers, Step(h) PROVE StoreInv'
    BY <2>2, StoreStep
  <2> QED BY <2>1, <2>2 DEF Next, Step
<1> QED BY <1>1, <1>2, PreparedMovesPermitted, ScopeKept, PTL DEF Spec

\* The version of a case counts its moves, which form one path to its state,
\* however handlers race (transition_service_case).
THEOREM HistoryExplainsCase == Spec => []HistoryMatches
<1>1. StoreInv => HistoryMatches
  BY DEF StoreInv, HistoryMatches, HistoryOK, Entered, Left
<1> QED BY <1>1, RowsAreSound, PTL

-----------------------------------------------------------------------------
\* A handler that holds a row goes on by committing it, or ends.
LEMMA ReadyCommits ==
    ASSUME NEW h \in Handlers, call[h].phase = "ready", Step(h)
    PROVE  \/ CommitCreate(h) \/ CommitTransition(h) \/ CommitRecord(h) \/ CommitLink(h)
           \/ CommitSla(h) \/ CommitAssignment(h) \/ CommitApproval(h) \/ CommitDecision(h)
           \/ Drop(h)
<1>1. ~ Free(h)
  BY DEF Free
<1>2. CASE Transitions(h)
  BY <1>1, <1>2 DEF Transitions, ReadCreate, ReadTransition
<1>3. CASE Records(h)
  BY <1>1, <1>3 DEF Records, ReadCause, ReadEvidence, ReadLink
<1>4. CASE Managed(h)
  BY <1>1, <1>4 DEF Managed, ReadSla, ReadAssignment, ReadApproval, ReadDecision
<1> QED BY <1>2, <1>3, <1>4 DEF Step

LEMMA NotAnswered ==
    ASSUME RsmInv, NEW h \in Handlers, Refuse(h)
    PROVE  call'[h].phase # "answered"
BY DEF RsmInv, CallsOK, Refuse, NoCall

\* A row that is inserted is there, as it was prepared.
LEMMA InsertedIsBrought ==
    ASSUME StoreInv, NEW h \in Handlers, Inserts(h), NEW e, NEW row,
           e = call[h].event, row = call[h].row
    PROVE  Brought(e, row)' /\ row.case \in Keys /\ e \in Events
<1>1. PICK e1 \in Events, row1 \in EventRecord :
         /\ e1 = call[h].event /\ row1 = call[h].row /\ row1 # None /\ events'[e1] = row1
  BY Inserted
<1> QED BY <1>1 DEF Brought, Used, EventRecord

\* The effect that an answer promises, by the type of the row.
Effect(e, row) ==
    /\ row.type = "CASE_CREATED" => IsA(row.case, row.data)
    /\ row.type = "STATE_TRANSITIONED" => Brought(e, row) /\ cases[row.case].state = row.to
    /\ row.type \in {"PROBLEM_ROOT_CAUSE_RECORDED", "CHANGE_RUNTIME_EVIDENCE_RECORDED",
                     "ASSIGNMENT_CHANGED", "APPROVAL_REQUESTED"} => Brought(e, row)
    /\ row.type = "INCIDENT_LINKED_TO_PROBLEM" => Linked(row.case, row.data)

\* An approval is decided for the first time, or over a decision not seen.
LEMMA DecisionTaken ==
    ASSUME StoreInv, NEW h \in Handlers, NEW e, NEW row, CommitDecision(h), ~ Refuse(h),
           e = call[h].event, row = call[h].row
    PROVE  Decided(h, e, row)
<1>1. Inserts(h) /\ row.type = "APPROVAL_DECIDED"
  BY DEF CommitDecision, At, Inserts
<1>2. Brought(e, row)' /\ e \in Events
  BY <1>1, InsertedIsBrought
<1>3. Sound(row) /\ Timely(row, call[h].version, call[h].seen)
  BY <1>1 DEF StoreInv, InHand, Inserts
<1>4. PICK a \in Events : a = row.data.approval
  BY <1>1, <1>3 DEF Sound, DecidesOwn, DecisionData
<1>5. Undecided(a, call[h].seen)
  BY <1>1, <1>3, <1>4 DEF Timely
<1>6. approvals' = [approvals EXCEPT ![a] = [status |-> row.data.decision, decided |-> e]]
  BY <1>1, <1>4 DEF CommitDecision, Inserts
<1>7. approvals'[a] = [status |-> row.data.decision, decided |-> e]
  BY <1>6 DEF StoreInv, TablesOK
<1> QED BY <1>2, <1>4, <1>5, <1>7 DEF Decided, Undecided

\* The SLA of the case is the one asked for, or one not seen.
LEMMA SlaSettled ==
    ASSUME StoreInv, NEW h \in Handlers, NEW row, CommitSla(h), ~ Refuse(h), row = call[h].row
    PROVE  SlaApplied(h, row)
<1>1. PICK e : e = call[h].event
  OBVIOUS
<1>2. row.type = "SLA_APPLIED" /\ call[h].phase = "ready"
  BY DEF CommitSla, At
<1>3. CASE ~ Used(e) /\ Rows(row.case, "SLA_APPLIED") = {}
  <2>1. Inserts(h)
    BY <1>1, <1>2, <1>3 DEF CommitSla, Inserts
  <2>2. Brought(e, row)' /\ e \in Events
    BY <1>1, <2>1, InsertedIsBrought
  <2>3. e \in Rows(row.case, "SLA_APPLIED")' /\ events'[e].data = row.data
    BY <1>2, <2>2 DEF Brought, Rows, Used
  <2> QED BY <2>3 DEF SlaApplied
<1>4. CASE ~ (~ Used(e) /\ Rows(row.case, "SLA_APPLIED") = {})
  <2>1. Rows(row.case, "SLA_APPLIED") # {} /\ events' = events
    BY <1>1, <1>4 DEF CommitSla
  <2>2. PICK d \in Rows(row.case, "SLA_APPLIED") : TRUE
    BY <2>1
  <2>3. Timely(row, call[h].version, call[h].seen)
    BY <1>2 DEF StoreInv, InHand
  <2>4. d \notin call[h].seen
    BY <1>2, <2>2, <2>3 DEF Timely
  <2>5. d \in Rows(row.case, "SLA_APPLIED")' /\ events'[d] = events[d]
    BY <2>1, <2>2 DEF Rows, Used
  <2> QED BY <2>2, <2>4, <2>5 DEF SlaApplied
<1> QED BY <1>3, <1>4

LEMMA AnswerHasEffect ==
    ASSUME RsmInv, StoreInv, NEW h \in Handlers, NEW e, NEW row, Step(h),
           call[h].phase = "ready", call'[h].phase = "answered",
           e = call[h].event, row = call[h].row
    PROVE  /\ Effect(e, row)'
           /\ row.type = "SLA_APPLIED" => SlaApplied(h, row)
           /\ row.type = "APPROVAL_DECIDED" => Decided(h, e, row)
<1>0. ~ Refuse(h)
  BY NotAnswered
<1>i. e \in Events
  BY DEF StoreInv, InHand
<1>1. CASE CommitCreate(h)
  <2>1. row.type = "CASE_CREATED"
    BY <1>1 DEF CommitCreate, At
  <2>2. CASE ~ Exists(row.case) /\ ~ Used(e)
    <3>1. Inserts(h) /\ InsertsCase(h)
      BY <1>1, <2>2 DEF CommitCreate, Inserts, InsertsCase
    <3>2. PICK c \in Keys, t \in ServiceCaseType :
             c = row.case /\ t = row.data /\ cases'[c] = CaseRow(t, "NEW", 1)
      BY <3>1, CaseInserted
    <3>3. cases'[c].type = t /\ cases'[c] # None
      <4>1. CaseRow(t, "NEW", 1) # None
        BY RowTyped DEF Lifecycle!ServiceCaseState
      <4> QED BY <3>2, <4>1 DEF CaseRow
    <3> QED BY <2>1, <3>2, <3>3 DEF Effect, IsA, Exists
  <2>3. CASE ~ (~ Exists(row.case) /\ ~ Used(e))
    <3>1. IsA(row.case, row.data) /\ cases' = cases
      BY <1>0, <1>1, <2>3 DEF CommitCreate
    <3> QED BY <2>1, <3>1 DEF Effect, IsA, Exists
  <2> QED BY <2>2, <2>3
<1>2. CASE CommitTransition(h)
  <2>1. row.type = "STATE_TRANSITIONED" /\ Inserts(h) /\ InsertsMove(h)
    BY <1>0, <1>2 DEF CommitTransition, At, Inserts, InsertsMove
  <2>2. PICK c \in Keys, old \in CaseRecord, s \in ServiceCaseState :
           c = row.case /\ s = row.to /\ cases'[c] = CaseRow(old.type, s, old.version + 1)
    BY <2>1, MoveInserted
  <2>3. cases'[row.case].state = row.to
    BY <2>2 DEF CaseRow
  <2>4. Brought(e, row)'
    BY <2>1, InsertedIsBrought
  <2> QED BY <2>1, <2>3, <2>4 DEF Effect
<1>3. CASE CommitRecord(h)
  <2>1. row.type \in {"PROBLEM_ROOT_CAUSE_RECORDED", "CHANGE_RUNTIME_EVIDENCE_RECORDED"}
    BY <1>3 DEF CommitRecord, At
  <2>2. CASE Used(e)
    BY <1>0, <1>3, <2>1, <2>2 DEF CommitRecord, Effect, Brought, Used
  <2>3. CASE ~ Used(e)
    <3>1. Inserts(h)
      BY <1>3, <2>3 DEF CommitRecord, Inserts
    <3>2. Brought(e, row)'
      BY <3>1, InsertedIsBrought
    <3> QED BY <2>1, <3>2 DEF Effect
  <2> QED BY <2>2, <2>3
<1>4. CASE CommitLink(h)
  <2>1. row.type = "INCIDENT_LINKED_TO_PROBLEM"
    BY <1>4 DEF CommitLink, At
  <2>2. CASE ~ Used(e) /\ ~ Linked(row.case, row.data)
    <3>1. Inserts(h)
      BY <1>4, <2>2 DEF CommitLink, Inserts
    <3>2. Brought(e, row)'
      BY <3>1, InsertedIsBrought
    <3> QED BY <1>i, <2>1, <3>2 DEF Effect, Brought, Linked, Rows
  <2>3. CASE ~ (~ Used(e) /\ ~ Linked(row.case, row.data))
    <3>1. events' = events /\ (Brought(e, row) \/ ~ Used(e))
      BY <1>0, <1>4, <2>3 DEF CommitLink
    <3>2. Linked(row.case, row.data)
      BY <1>i, <2>1, <2>3, <3>1 DEF Brought, Linked, Rows
    <3> QED BY <2>1, <3>1, <3>2 DEF Effect, Linked, Rows, Used
  <2> QED BY <2>2, <2>3
<1>5. CASE CommitSla(h) \/ CommitDecision(h)
  BY <1>0, <1>5, DecisionTaken, SlaSettled DEF CommitSla, CommitDecision, At, Effect
<1>6. CASE CommitAssignment(h) \/ CommitApproval(h)
  <2>1. Inserts(h) /\ row.type \in {"ASSIGNMENT_CHANGED", "APPROVAL_REQUESTED"}
    BY <1>0, <1>6 DEF CommitAssignment, CommitApproval, At, Inserts
  <2>2. Brought(e, row)'
    BY <2>1, InsertedIsBrought
  <2> QED BY <2>1, <2>2 DEF Effect
<1>7. CASE Drop(h)
  BY <1>0, <1>7 DEF Drop
<1> QED BY <1>1, <1>2, <1>3, <1>4, <1>5, <1>6, <1>7, ReadyCommits

\* Only the handler that takes a step is answered by it.
LEMMA OthersWait ==
    ASSUME RsmInv, StoreInv, scope \in Scope, NEW g \in Handlers, Step(g),
           NEW h \in Handlers, call[h].phase = "ready", call'[h].phase = "answered"
    PROVE  g = h
<1>1. Shape(g)
  BY Shaped
<1>2. g # h => call'[h] = call[h]
  BY <1>1 DEF RsmInv, CallsOK, Shape, Ends, Prepares, Prepare, Inserts, Answer, Refuse
<1> QED BY <1>2

\* Whoever commits and is answered finds the effect in the database, after
\* any race (the IntegrityError branches of the handlers), but for an SLA or a
\* decision that another handler stored since the row in hand was prepared.
THEOREM AnswersHaveEffect == Spec => AcknowledgedIsStored
<1> DEFINE Answers ==
      \A h \in Handlers : \A e \in {call[h].event}, row \in {call[h].row} :
        /\ Answered(h, "CASE_CREATED") => IsA(row.case, row.data)'
        /\ Answered(h, "STATE_TRANSITIONED") => (Brought(e, row) /\ cases[row.case].state = row.to)'
        /\ Answered(h, "PROBLEM_ROOT_CAUSE_RECORDED") => Brought(e, row)'
        /\ Answered(h, "CHANGE_RUNTIME_EVIDENCE_RECORDED") => Brought(e, row)'
        /\ Answered(h, "INCIDENT_LINKED_TO_PROBLEM") => Linked(row.case, row.data)'
        /\ Answered(h, "SLA_APPLIED") => SlaApplied(h, row)
        /\ Answered(h, "ASSIGNMENT_CHANGED") => Brought(e, row)'
        /\ Answered(h, "APPROVAL_REQUESTED") => Brought(e, row)'
        /\ Answered(h, "APPROVAL_DECIDED") => Decided(h, e, row)
<1>1. RsmInv /\ StoreInv /\ scope \in Scope /\ [Next]_vars => [Answers]_vars
  <2> SUFFICES ASSUME RsmInv, StoreInv, scope \in Scope, Next PROVE Answers
    OBVIOUS
  <2>1. ASSUME NEW h \in Handlers, NEW e, NEW row, e = call[h].event, row = call[h].row,
               call[h].phase = "ready", call'[h].phase = "answered"
        PROVE  /\ Effect(e, row)'
               /\ row.type = "SLA_APPLIED" => SlaApplied(h, row)
               /\ row.type = "APPROVAL_DECIDED" => Decided(h, e, row)
    <3>1. PICK g \in Handlers : Step(g)
      BY DEF Next, Step
    <3>2. g = h
      BY <2>1, <3>1, OthersWait
    <3> QED BY <2>1, <3>1, <3>2, AnswerHasEffect
  <2> QED BY <2>1 DEF Answered, At, Effect
<1> QED BY <1>1, PreparedMovesPermitted, RowsAreSound, ScopeKept, PTL DEF Spec, AcknowledgedIsStored

\* A move through a gate is written on an approval, and a change is closed on
\* latest evidence, that the rows stored when its handler read the case
\* support; only rows stored since may contradict them, and no other move of
\* the case is among those (_approval_transition_guard, _change_close_guard).
THEOREM GatesAlwaysHold == Spec => GatesHold
<1> DEFINE Passes ==
      \A h \in Handlers : \A row \in {call[h].row}, seen \in {call[h].seen} :
        Answered(h, "STATE_TRANSITIONED") =>
            /\ Moves(row.case) \subseteq seen
            /\ (row.from = "PENDING_APPROVAL" /\ row.to = "IN_PROGRESS")
                 => ApprovalStands(row.case, seen)
            /\ (IsA(row.case, "CHANGE") /\ row.to = "CLOSED")
                 => EvidenceStands(row.case, seen)
<1>1. RsmInv /\ StoreInv /\ scope \in Scope /\ [Next]_vars => [Passes]_vars
  <2> SUFFICES ASSUME RsmInv, StoreInv, scope \in Scope, Next PROVE Passes
    OBVIOUS
  <2>1. ASSUME NEW h \in Handlers, NEW row, NEW S, row = call[h].row, S = call[h].seen,
               Answered(h, "STATE_TRANSITIONED")
        PROVE  /\ Moves(row.case) \subseteq S
               /\ (row.from = "PENDING_APPROVAL" /\ row.to = "IN_PROGRESS")
                    => ApprovalStands(row.case, S)
               /\ (IsA(row.case, "CHANGE") /\ row.to = "CLOSED") => EvidenceStands(row.case, S)
    <3>0. call[h].phase = "ready" /\ row.type = "STATE_TRANSITIONED" /\ call'[h].phase = "answered"
      BY <2>1 DEF Answered, At
    <3>1. PICK g \in Handlers : Step(g)
      BY DEF Next, Step
    <3>2. g = h
      BY <3>0, <3>1, OthersWait
    <3>3. CommitTransition(h) /\ ~ Refuse(h)
      <4>1. ~ Refuse(h)
        BY <3>0, NotAnswered
      <4> QED
        BY <2>1, <3>0, <3>1, <3>2, <4>1, ReadyCommits
        DEF CommitCreate, CommitRecord, CommitLink, CommitSla, CommitAssignment, CommitApproval,
            CommitDecision, Drop, At
    <3>4. PICK c \in Keys : c = row.case
      BY <2>1, <3>0 DEF StoreInv, InHand, Sound, EventRecord
    <3>5. PICK v : v = call[h].version
      OBVIOUS
    <3>6. cases[c].version = v /\ Exists(c)
      <4>1. cases[c].version = v
        BY <2>1, <3>3, <3>4, <3>5 DEF CommitTransition
      <4> QED BY <2>1, <3>0, <3>4, <4>1 DEF StoreInv, InHand, Sound, Columns
    <3>7. TimelyMove(row, v, S)
      BY <2>1, <3>0, <3>5 DEF StoreInv, InHand, Timely
    <3>8. /\ Cardinality(Moves(c) \cap S) = v
          /\ (row.from = "PENDING_APPROVAL" /\ row.to = "IN_PROGRESS") => ApprovalHeld(c, S)
          /\ (row.to = "CLOSED" /\ IsA(c, "CHANGE")) => EvidenceStands(c, S)
      BY <3>0, <3>4, <3>7 DEF TimelyMove
    <3>9. IsFiniteSet(Moves(c)) /\ Cardinality(Moves(c)) = v
      BY <3>6 DEF StoreInv, HistoryOK
    <3>10. Moves(c) \subseteq S
      <4>1. Moves(c) \cap S \subseteq Moves(c)
        OBVIOUS
      <4>2. Moves(c) \cap S = Moves(c)
        BY <3>8, <3>9, <4>1, FS_Subset
      <4> QED BY <4>2
    <3>11. ApprovalHeld(c, S) => ApprovalStands(c, S)
      BY DEF ApprovalHeld, ApprovalStands
    <3> QED BY <3>4, <3>8, <3>10, <3>11
  <2> QED BY <2>1
<1> QED BY <1>1, PreparedMovesPermitted, RowsAreSound, ScopeKept, PTL DEF Spec, GatesHold
=============================================================================
