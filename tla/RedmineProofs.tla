---------------------------- MODULE RedmineProofs ----------------------------
(***************************************************************************)
(* The Redmine queue, for every set of rows and of overlapping calls,      *)
(* every limit of attempts, size of a lot and number of faults.            *)
(***************************************************************************)
EXTENDS MCRedmineQueue, Integers, FiniteSetTheorems, TLAPS

-----------------------------------------------------------------------------
\* A call at each point of processar_fila_redmine.  The lot carries the retry
\* count of each item as it was listed.
InHandPc == {"create", "created", "failed", "fallback", "synced", "unsynced"}
CallOK(r) ==
    /\ r \in [pc : RunPc, stuck : SUBSET Items, lote : {r.lote}, item : Items \cup {None}]
    /\ DOMAIN r.lote \subseteq Items
    /\ r.lote = [i \in DOMAIN r.lote |-> r.lote[i]]
    /\ \A i \in DOMAIN r.lote : r.lote[i] \in Nat
    /\ r.stuck # {} => r.pc = "release"
    /\ r.pc \in InHandPc => r.item \in DOMAIN r.lote
    /\ r.pc \notin InHandPc => r.item = None
    /\ r.pc \in {"idle", "release"} => DOMAIN r.lote = {}

RowsOK  == fila = [i \in Items |-> fila[i]] /\ \A i \in Items : fila[i] # None => fila[i] \in Row
CountOK == /\ agile \in [row : [Items -> AgileRows \cup {None}],
                         status : [AgileRows -> {"-", "SYNCED", "ERROR"}]]
           /\ issues \in [Items -> Nat] /\ attempts \in [Items -> Nat]
           /\ faults \in 0..MaxFaults
RunsOK  == run = [w \in Runs |-> run[w]] /\ \A w \in Runs : CallOK(run[w])

\* A call lists rows that exist.
KnownRows == \A w \in Runs : \A i \in run[w].stuck \cup DOMAIN run[w].lote : fila[i] # None

\* Every state component has a value of its kind, and a call in progress holds
\* what the point it has reached needs (redmine_sync_queue.py
\* processar_fila_redmine).
TypeOK == RowsOK /\ CountOK /\ RunsOK /\ KnownRows

-----------------------------------------------------------------------------
\* What a call may still do to an item: ask Redmine for it or, after a refused
\* update, write its status without having counted.
Ahead(r, i) ==
    \/ r.pc = "release"
    \/ i \in DOMAIN r.lote /\ (r.item = i => r.pc \in {"create", "fallback"})

\* A call that has asked Redmine and has not yet said so in the row.
Asked(r, i)   == r.item = i /\ r.pc \in {"created", "failed"}
Created(r, i) == r.item = i /\ r.pc = "created"
Failed(r, i)  == r.item = i /\ r.pc = "failed"

\* A call that holds the item's count as it was listed and may write it back.
Holds(r, i, n) ==
    /\ i \in DOMAIN r.lote /\ r.lote[i] = n
    /\ r.item = i => r.pc \notin {"synced", "unsynced"}

\* A call that may still make the row say something else.
Threat(r, i) ==
    \/ i \in r.stuck
    \/ i \in DOMAIN r.lote /\ (r.item = i => r.pc \in {"create", "fallback", "failed"})

AheadOf(i)     == {w \in Runs : Ahead(run[w], i)}
PendingOf(i)   == {w \in Runs : Ahead(run[w], i) \/ Failed(run[w], i)}
NoneAsked(i)   == \A w \in Runs : ~Asked(run[w], i)
NoneCreated(i) == \A w \in Runs : ~Created(run[w], i)
HeldCount(i, n) == \E w \in Runs : Holds(run[w], i, n)
Calm(i)        == \A w \in Runs : ~Threat(run[w], i)

Settled(i) == Is(i, "SENT") \/ Is(i, "ERROR")
Quiet(i)   == Settled(i) /\ Calm(i)
RetryOf(i) == IF fila[i] = None THEN 0 ELSE fila[i].retry

(***************************************************************************)
(* The accounts.  A call that starts while another works is paid for by    *)
(* its overlap, and each call asks for an item once.  So the requests made *)
(* and the calls that may still ask stay within the retry count that will  *)
(* be stored, wherever it is now: in the row or in the lot of a call.      *)
(***************************************************************************)
AttemptsWithin(i, n) ==
    /\ attempts[i] + Cardinality(AheadOf(i)) <= n + faults
    /\ NoneAsked(i) => attempts[i] + 1 <= n + faults
AttemptsPaid(i) ==
    IF Quiet(i)
    THEN /\ attempts[i] <= MaxTentativas + faults
         /\ attempts[i] + Cardinality(AheadOf(i)) <= MaxTentativas + faults + 1
    ELSE /\ AttemptsWithin(i, MaxTentativas)
         /\ AttemptsWithin(i, RetryOf(i) + 1)
         /\ \A n \in Nat : HeldCount(i, n) => AttemptsWithin(i, n + 1)

IssuesPaid(i) ==
    IF Quiet(i)
    THEN /\ issues[i] <= 1 + faults
         /\ issues[i] + Cardinality(PendingOf(i)) <= 2 + faults
    ELSE /\ issues[i] + Cardinality(PendingOf(i)) <= 1 + faults
         /\ NoneCreated(i) => issues[i] <= faults

Paid == \A i \in Items : AttemptsPaid(i) /\ IssuesPaid(i)

\* What a call and a row record of the requests was really done.
RowRecord(i) ==
    /\ RetryOf(i) <= attempts[i]
    /\ Is(i, "SENT") => issues[i] > 0
    /\ Is(i, "ERROR") => attempts[i] >= MaxTentativas
CallRecord(r) ==
    /\ \A i \in DOMAIN r.lote : r.lote[i] <= attempts[i]
    /\ r.pc = "created" => issues[r.item] > 0
    /\ r.pc \in {"failed", "fallback"} => r.lote[r.item] + 1 <= attempts[r.item]
Recorded ==
    /\ \A i \in Items : RowRecord(i)
    /\ \A w \in Runs : CallRecord(run[w])

\* A call that is about to tell the planner of its item.
Telling(r, i) == r.item = i /\ r.pc \in {"synced", "unsynced"}
-----------------------------------------------------------------------------
\* The step of a call: it alone changes.
Moves(w, s) == run' = [run EXCEPT ![w] = s]

LEMMA MovesFacts ==
    ASSUME RunsOK, NEW w \in Runs, NEW s, Moves(w, s)
    PROVE  /\ run'[w] = s
           /\ \A v \in Runs : v # w => run'[v] = run[v]
           /\ run' = [v \in Runs |-> run'[v]]
BY DEF Moves, RunsOK

LEMMA RestingOK == CallOK(Resting)
BY RedmineAssumption DEF CallOK, Resting, EmptyLot, RunPc, InHandPc

LEMMA RestingIdle ==
    ASSUME NEW i
    PROVE  /\ ~Ahead(Resting, i) /\ ~Asked(Resting, i) /\ ~Created(Resting, i)
           /\ ~Failed(Resting, i) /\ ~Threat(Resting, i) /\ ~Telling(Resting, i)
           /\ \A n : ~Holds(Resting, i, n)
           /\ DOMAIN Resting.lote = {} /\ Resting.stuck = {} /\ Resting.pc = "idle"
           /\ Resting.item = None
BY DEF Ahead, Asked, Created, Failed, Threat, Telling, Holds, Resting, EmptyLot

\* A call that is idle has nothing to do with any item.
LEMMA IdleCall ==
    ASSUME NEW r, CallOK(r), r.pc = "idle", NEW i
    PROVE  /\ ~Ahead(r, i) /\ ~Asked(r, i) /\ ~Created(r, i)
           /\ ~Failed(r, i) /\ ~Threat(r, i) /\ ~Telling(r, i)
           /\ \A n : ~Holds(r, i, n)
BY DEF Ahead, Asked, Created, Failed, Threat, Telling, Holds, CallOK

LEMMA KindsAreBoolean ==
    ASSUME NEW r, NEW i
    PROVE  /\ Ahead(r, i) \in BOOLEAN /\ Asked(r, i) \in BOOLEAN
           /\ Created(r, i) \in BOOLEAN /\ Failed(r, i) \in BOOLEAN
           /\ Threat(r, i) \in BOOLEAN /\ Telling(r, i) \in BOOLEAN
BY DEF Ahead, Asked, Created, Failed, Threat, Telling

-----------------------------------------------------------------------------
\* The calls counted for an item, before and after a call moves.
AheadNow(S, i)   == {v \in Runs : Ahead(S[v], i)}
PendingNow(S, i) == {v \in Runs : Ahead(S[v], i) \/ Failed(S[v], i)}

LEMMA AheadNext ==
    ASSUME NEW i
    PROVE  /\ \A S : S = run => AheadOf(i) = AheadNow(S, i) /\ PendingOf(i) = PendingNow(S, i)
           /\ \A S : S = run' => AheadOf(i)' = AheadNow(S, i) /\ PendingOf(i)' = PendingNow(S, i)
BY DEF AheadOf, PendingOf, AheadNow, PendingNow, Ahead, Failed

LEMMA FiniteRuns ==
    ASSUME NEW T, T \subseteq Runs
    PROVE  /\ IsFiniteSet(T) /\ Cardinality(T) \in Nat
           /\ \A w \in T : Cardinality(T) >= 1
           /\ T = {} => Cardinality(T) = 0
<1>1. IsFiniteSet(T) /\ Cardinality(T) \in Nat
  BY RedmineAssumption, FS_Subset, FS_CardinalityType
<1>2. ASSUME NEW w \in T PROVE Cardinality(T) >= 1
  BY <1>1, FS_EmptySet
<1> QED BY <1>1, <1>2, FS_EmptySet

\* A set of calls from which one enters or leaves.
LEMMA OneMoves ==
    ASSUME NEW T, T \subseteq Runs, NEW U, U \subseteq Runs, NEW w \in Runs,
           \A v \in Runs : v # w => (v \in T <=> v \in U)
    PROVE  /\ (w \in T <=> w \in U) => Cardinality(U) = Cardinality(T)
           /\ (w \in T /\ w \notin U) => Cardinality(U) + 1 = Cardinality(T)
           /\ (w \notin T /\ w \in U) => Cardinality(U) = Cardinality(T) + 1
<1>1. IsFiniteSet(T) /\ IsFiniteSet(U) /\ Cardinality(T) \in Nat /\ Cardinality(U) \in Nat
  BY FiniteRuns
<1>2. ASSUME w \in T <=> w \in U PROVE Cardinality(U) = Cardinality(T)
  <2>1. U = T BY <1>2
  <2> QED BY <2>1
<1>3. ASSUME w \in T, w \notin U PROVE Cardinality(U) + 1 = Cardinality(T)
  <2>1. U = T \ {w} BY <1>3
  <2>2. Cardinality(T \ {w}) = Cardinality(T) - 1 BY <1>1, <1>3, FS_RemoveElement
  <2> QED BY <2>1, <2>2, <1>1
<1>4. ASSUME w \notin T, w \in U PROVE Cardinality(U) = Cardinality(T) + 1
  <2>1. T = U \ {w} BY <1>4
  <2>2. Cardinality(U \ {w}) = Cardinality(U) - 1 BY <1>1, <1>4, FS_RemoveElement
  <2> QED BY <2>1, <2>2, <1>1
<1> QED BY <1>2, <1>3, <1>4

LEMMA AheadMoves ==
    ASSUME RunsOK, NEW w \in Runs, NEW r, r = run[w], NEW s, Moves(w, s), NEW i,
           NEW p, p = Cardinality(AheadOf(i)), NEW q, q = Cardinality(PendingOf(i)),
           NEW pp, pp = Cardinality(AheadOf(i))', NEW qq, qq = Cardinality(PendingOf(i))'
    PROVE  /\ p \in Nat /\ q \in Nat /\ pp \in Nat /\ qq \in Nat
           /\ (Ahead(r, i) <=> Ahead(s, i)) => pp = p
           /\ (Ahead(r, i) /\ ~Ahead(s, i)) => pp + 1 = p
           /\ (~Ahead(r, i) /\ Ahead(s, i)) => pp = p + 1
           /\ ((Ahead(r, i) \/ Failed(r, i)) <=> (Ahead(s, i) \/ Failed(s, i))) => qq = q
           /\ ((Ahead(r, i) \/ Failed(r, i)) /\ ~(Ahead(s, i) \/ Failed(s, i))) => qq + 1 = q
           /\ (~(Ahead(r, i) \/ Failed(r, i)) /\ (Ahead(s, i) \/ Failed(s, i))) => qq = q + 1
<1>1. PICK R : R = run OBVIOUS
<1>2. PICK S : S = run' OBVIOUS
<1>3. /\ p = Cardinality(AheadNow(R, i)) /\ q = Cardinality(PendingNow(R, i))
      /\ pp = Cardinality(AheadNow(S, i)) /\ qq = Cardinality(PendingNow(S, i))
  BY <1>1, <1>2, AheadNext
<1>4. R[w] = r /\ S[w] = s /\ \A v \in Runs : v # w => S[v] = R[v]
  BY <1>1, <1>2, MovesFacts
<1>5. /\ AheadNow(R, i) \subseteq Runs /\ AheadNow(S, i) \subseteq Runs
      /\ PendingNow(R, i) \subseteq Runs /\ PendingNow(S, i) \subseteq Runs
  BY DEF AheadNow, PendingNow
<1>6. p \in Nat /\ q \in Nat /\ pp \in Nat /\ qq \in Nat
  BY <1>3, <1>5, FiniteRuns
<1>7. /\ \A v \in Runs : v # w => (v \in AheadNow(R, i) <=> v \in AheadNow(S, i))
      /\ \A v \in Runs : v # w => (v \in PendingNow(R, i) <=> v \in PendingNow(S, i))
  BY <1>4 DEF AheadNow, PendingNow
<1>8. /\ w \in AheadNow(R, i) <=> Ahead(r, i)
      /\ w \in AheadNow(S, i) <=> Ahead(s, i)
      /\ w \in PendingNow(R, i) <=> (Ahead(r, i) \/ Failed(r, i))
      /\ w \in PendingNow(S, i) <=> (Ahead(s, i) \/ Failed(s, i))
  BY <1>4 DEF AheadNow, PendingNow
<1>9. /\ (Ahead(r, i) <=> Ahead(s, i)) => pp = p
      /\ (Ahead(r, i) /\ ~Ahead(s, i)) => pp + 1 = p
      /\ (~Ahead(r, i) /\ Ahead(s, i)) => pp = p + 1
  BY <1>3, <1>5, <1>7, <1>8, OneMoves
<1>10. /\ ((Ahead(r, i) \/ Failed(r, i)) <=> (Ahead(s, i) \/ Failed(s, i))) => qq = q
       /\ ((Ahead(r, i) \/ Failed(r, i)) /\ ~(Ahead(s, i) \/ Failed(s, i))) => qq + 1 = q
       /\ (~(Ahead(r, i) \/ Failed(r, i)) /\ (Ahead(s, i) \/ Failed(s, i))) => qq = q + 1
  BY <1>3, <1>5, <1>7, <1>8, OneMoves
<1> QED BY <1>6, <1>9, <1>10

\* What is said of all calls, when one moves.
LEMMA KindsMove ==
    ASSUME RunsOK, NEW w \in Runs, NEW r, r = run[w], NEW s, Moves(w, s), NEW i
    PROVE  /\ NoneAsked(i)' /\ ~Asked(r, i) => NoneAsked(i)
           /\ Asked(s, i) => ~NoneAsked(i)'
           /\ NoneCreated(i)' /\ ~Created(r, i) => NoneCreated(i)
           /\ Created(s, i) => ~NoneCreated(i)'
           /\ \A n : HeldCount(i, n)' => HeldCount(i, n) \/ Holds(s, i, n)
           /\ \A n : Holds(r, i, n) => HeldCount(i, n)
           /\ Calm(i) => ~Threat(r, i)
           /\ Calm(i) /\ ~Threat(s, i) => Calm(i)'
<1>1. PICK R : R = run OBVIOUS
<1>2. PICK S : S = run' OBVIOUS
<1>4. R[w] = r /\ S[w] = s /\ \A v \in Runs : v # w => S[v] = R[v]
  BY <1>1, <1>2, MovesFacts
<1>5. /\ NoneAsked(i)' <=> \A v \in Runs : ~Asked(S[v], i)
      /\ NoneCreated(i)' <=> \A v \in Runs : ~Created(S[v], i)
      /\ \A n : HeldCount(i, n)' <=> \E v \in Runs : Holds(S[v], i, n)
      /\ Calm(i)' <=> \A v \in Runs : ~Threat(S[v], i)
  BY <1>2 DEF NoneAsked, NoneCreated, HeldCount, Calm, Asked, Created, Holds, Threat
<1>6. /\ NoneAsked(i) <=> \A v \in Runs : ~Asked(R[v], i)
      /\ NoneCreated(i) <=> \A v \in Runs : ~Created(R[v], i)
      /\ \A n : HeldCount(i, n) <=> \E v \in Runs : Holds(R[v], i, n)
      /\ Calm(i) <=> \A v \in Runs : ~Threat(R[v], i)
  BY <1>1 DEF NoneAsked, NoneCreated, HeldCount, Calm
<1> QED BY <1>4, <1>5, <1>6

-----------------------------------------------------------------------------
\* The number of calls counted for an item is a number.
LEMMA CountsTyped ==
    ASSUME NEW i
    PROVE  /\ Cardinality(AheadOf(i)) \in Nat /\ Cardinality(PendingOf(i)) \in Nat
           /\ Cardinality(AheadOf(i))' \in Nat /\ Cardinality(PendingOf(i))' \in Nat
<1>1. PICK R : R = run OBVIOUS
<1>2. PICK S : S = run' OBVIOUS
<1>5. /\ AheadNow(R, i) \subseteq Runs /\ AheadNow(S, i) \subseteq Runs
      /\ PendingNow(R, i) \subseteq Runs /\ PendingNow(S, i) \subseteq Runs
  BY DEF AheadNow, PendingNow
<1>6. /\ AheadOf(i) = AheadNow(R, i) /\ PendingOf(i) = PendingNow(R, i)
      /\ AheadOf(i)' = AheadNow(S, i) /\ PendingOf(i)' = PendingNow(S, i)
  BY <1>1, <1>2, AheadNext
<1> QED BY <1>5, <1>6, FiniteRuns

LEMMA RetryTyped == ASSUME RowsOK, NEW i \in Items PROVE RetryOf(i) \in Nat
BY DEF RowsOK, RetryOf, Row

\* The account of requests, when the stored count stays: a request is made by a
\* call that was counted for it, and one more call is counted, or one less has
\* a request to tell of, only with a fault.
LEMMA AttemptsStep ==
    ASSUME RowsOK, CountOK, CountOK', NEW i \in Items, AttemptsPaid(i),
           NEW p, p = Cardinality(AheadOf(i)), NEW pp, pp = Cardinality(AheadOf(i))',
           NEW c, c = attempts[i], NEW cc, cc = attempts'[i],
           Quiet(i) => Quiet(i)' /\ cc = c,
           \/ /\ faults' = faults /\ cc + pp <= c + p
              /\ (~Quiet(i)' /\ NoneAsked(i)') => (pp >= 1 \/ (NoneAsked(i) /\ cc = c))
           \/ faults' = faults + 1 /\ cc + pp <= c + p + 1 /\ cc <= c + p,
           RetryOf(i)' = RetryOf(i),
           \A n \in Nat : HeldCount(i, n)' => HeldCount(i, n) \/ n = RetryOf(i)
    PROVE  AttemptsPaid(i)'
<1>1. PICK f : f = faults OBVIOUS
<1>2. PICK ff : ff = faults' OBVIOUS
<1>3. p \in Nat /\ pp \in Nat /\ c \in Nat /\ cc \in Nat /\ f \in Nat /\ ff \in Nat
      /\ MaxTentativas \in Nat
  BY <1>1, <1>2, CountsTyped, RedmineAssumption DEF CountOK
<1>4. PICK rho \in Nat : rho = RetryOf(i) BY RetryTyped
<1>5. RetryOf(i)' = rho BY <1>4
<1> DEFINE W(n) == c + p <= n + f /\ (NoneAsked(i) => c + 1 <= n + f)
           V(n) == cc + pp <= n + ff /\ (NoneAsked(i)' => cc + 1 <= n + ff)
<1>6. /\ \A n \in Nat : AttemptsWithin(i, n) <=> W(n)
      /\ \A n \in Nat : AttemptsWithin(i, n)' <=> V(n)
  BY <1>1, <1>2 DEF AttemptsWithin
<1>7. CASE Quiet(i)
  <2>1. c <= MaxTentativas + f /\ c + p <= MaxTentativas + f + 1
    BY <1>1, <1>7 DEF AttemptsPaid
  <2>2. cc <= MaxTentativas + ff /\ cc + pp <= MaxTentativas + ff + 1
    BY <1>1, <1>2, <1>3, <1>7, <2>1
  <2> QED BY <1>2, <1>7, <2>2 DEF AttemptsPaid
<1>8. CASE ~Quiet(i)
  <2>1. /\ W(MaxTentativas) /\ W(rho + 1)
        /\ \A n \in Nat : HeldCount(i, n) => W(n + 1)
    <3>1. /\ AttemptsWithin(i, MaxTentativas) /\ AttemptsWithin(i, RetryOf(i) + 1)
          /\ \A n \in Nat : HeldCount(i, n) => AttemptsWithin(i, n + 1)
      BY <1>8 DEF AttemptsPaid
    <3>2. rho + 1 \in Nat /\ \A n \in Nat : n + 1 \in Nat BY <1>4
    <3> HIDE DEF W
    <3> QED BY <3>1, <3>2, <1>3, <1>4, <1>6
  <2>2. CASE Quiet(i)'
    <3>1. cc <= MaxTentativas + ff /\ cc + pp <= MaxTentativas + ff + 1
      BY <1>1, <1>2, <1>3, <2>1
    <3> QED BY <1>2, <2>2, <3>1 DEF AttemptsPaid
  <2>3. CASE ~Quiet(i)'
    <3>1. ASSUME NEW n \in Nat, W(n) PROVE V(n)
      BY <1>1, <1>2, <1>3, <2>3, <3>1
    <3>2. /\ V(MaxTentativas) /\ V(rho + 1)
          /\ \A n \in Nat : HeldCount(i, n)' => V(n + 1)
      <4>1. rho + 1 \in Nat /\ \A n \in Nat : n + 1 \in Nat BY <1>4
      <4> HIDE DEF V, W
      <4> QED BY <3>1, <2>1, <4>1, <1>3, <1>4
    <3>3. AttemptsWithin(i, MaxTentativas)'
      BY <3>2, <1>2 DEF AttemptsWithin
    <3>4. AttemptsWithin(i, RetryOf(i) + 1)'
      BY <3>2, <1>2, <1>5 DEF AttemptsWithin
    <3>5. ASSUME NEW n \in Nat, HeldCount(i, n)' PROVE AttemptsWithin(i, n + 1)'
      <4>1. V(n + 1) BY <3>2, <3>5
      <4> QED BY <4>1, <1>2 DEF AttemptsWithin
    <3> QED BY <2>3, <3>3, <3>4, <3>5 DEF AttemptsPaid
  <2> QED BY <2>2, <2>3
<1> QED BY <1>7, <1>8

\* The account of issues, in the same way.
LEMMA IssuesStep ==
    ASSUME CountOK, CountOK', NEW i \in Items, IssuesPaid(i),
           NEW q, q = Cardinality(PendingOf(i)), NEW qq, qq = Cardinality(PendingOf(i))',
           NEW c, c = issues[i], NEW cc, cc = issues'[i],
           Quiet(i) => Quiet(i)' /\ cc = c,
           \/ /\ faults' = faults /\ cc + qq <= c + q
              /\ (~Quiet(i)' /\ NoneCreated(i)') => (qq >= 1 \/ (NoneCreated(i) /\ cc = c))
           \/ faults' = faults + 1 /\ cc + qq <= c + q + 1 /\ cc <= c + q
    PROVE  IssuesPaid(i)'
<1>1. PICK f : f = faults OBVIOUS
<1>2. PICK ff : ff = faults' OBVIOUS
<1>3. q \in Nat /\ qq \in Nat /\ c \in Nat /\ cc \in Nat /\ f \in Nat /\ ff \in Nat
  BY <1>1, <1>2, CountsTyped DEF CountOK
<1>7. CASE Quiet(i)
  <2>1. c <= 1 + f /\ c + q <= 2 + f
    BY <1>1, <1>7 DEF IssuesPaid
  <2>2. cc <= 1 + ff /\ cc + qq <= 2 + ff
    BY <1>1, <1>2, <1>3, <1>7, <2>1
  <2> QED BY <1>2, <1>7, <2>2 DEF IssuesPaid
<1>8. CASE ~Quiet(i)
  <2>1. c + q <= 1 + f /\ (NoneCreated(i) => c <= f)
    BY <1>1, <1>8 DEF IssuesPaid
  <2>2. CASE Quiet(i)'
    <3>1. cc <= 1 + ff /\ cc + qq <= 2 + ff
      BY <1>1, <1>2, <1>3, <2>1
    <3> QED BY <1>2, <2>2, <3>1 DEF IssuesPaid
  <2>3. CASE ~Quiet(i)'
    <3>1. cc + qq <= 1 + ff /\ (NoneCreated(i)' => cc <= ff)
      BY <1>1, <1>2, <1>3, <2>1, <2>3
    <3> QED BY <1>2, <2>3, <3>1 DEF IssuesPaid
  <2> QED BY <2>2, <2>3
<1> QED BY <1>7, <1>8

-----------------------------------------------------------------------------
\* A row that is written, and a call that moves, keep the type.
LEMMA RowWritten ==
    ASSUME RowsOK, NEW i \in Items, NEW x \in Row, fila' = [fila EXCEPT ![i] = x]
    PROVE  /\ RowsOK' /\ fila'[i] = x /\ fila'[i] # None
           /\ \A j \in Items : j # i => fila'[j] = fila[j]
           /\ \A j \in Items : fila[j] # None => fila'[j] # None
BY NoneIsNoRow DEF RowsOK

LEMMA RowsKept ==
    ASSUME RowsOK, UNCHANGED fila
    PROVE  RowsOK' /\ \A j \in Items : fila[j] # None => fila'[j] # None
BY DEF RowsOK

LEMMA RunTyped ==
    ASSUME TypeOK, NEW w \in Runs, NEW s, Moves(w, s), CallOK(s), RowsOK', CountOK',
           \A i \in s.stuck \cup DOMAIN s.lote : fila[i] # None,
           \A j \in Items : fila[j] # None => fila'[j] # None
    PROVE  TypeOK'
<1> USE DEF TypeOK
<1>1. PICK S : S = run' OBVIOUS
<1>2. S[w] = s /\ (\A v \in Runs : v # w => S[v] = run[v]) /\ S = [v \in Runs |-> S[v]]
  BY <1>1, MovesFacts
<1>3. \A v \in Runs : CallOK(S[v])
  BY <1>2 DEF RunsOK
<1>4. RunsOK'
  <2>1. ASSUME NEW v \in Runs PROVE CallOK(run[v])'
    <3>1. PICK t : t = S[v] OBVIOUS
    <3>2. run'[v] = t BY <1>1, <3>1
    <3>3. CallOK(t) BY <1>3, <3>1
    <3> QED BY <3>2, <3>3, Zenon DEF CallOK
  <2> QED BY <1>1, <1>2, <2>1 DEF RunsOK
<1>5. ASSUME NEW v \in Runs, NEW i \in S[v].stuck \cup DOMAIN S[v].lote PROVE fila'[i] # None
  <2>1. i \in Items BY <1>3, <1>5 DEF CallOK
  <2>2. fila[i] # None BY <1>2, <1>5 DEF KnownRows
  <2> QED BY <2>1, <2>2
<1> QED BY <1>1, <1>4, <1>5 DEF KnownRows

\* The accounts of an item that a step does not ask for.
LEMMA PaidItem ==
    ASSUME TypeOK, TypeOK', NEW w \in Runs, NEW r, r = run[w], NEW s, Moves(w, s),
           NEW i \in Items, AttemptsPaid(i), IssuesPaid(i),
           RetryOf(i)' = RetryOf(i), attempts'[i] = attempts[i], issues'[i] = issues[i],
           (Settled(i) => Settled(i)') \/ Threat(r, i),
           Threat(s, i) => (Threat(r, i) \/ ~Settled(i)),
           \A n \in Nat : Holds(s, i, n) => (Holds(r, i, n) \/ n = RetryOf(i)),
           \/ /\ faults' = faults
              /\ Ahead(s, i) => Ahead(r, i)
              /\ (Ahead(s, i) \/ Failed(s, i)) => (Ahead(r, i) \/ Failed(r, i))
              /\ Asked(r, i) => Asked(s, i)
              /\ Created(r, i) => Created(s, i)
           \/ faults' = faults + 1
    PROVE  AttemptsPaid(i)' /\ IssuesPaid(i)'
<1>1. RowsOK /\ CountOK /\ CountOK' /\ RunsOK BY DEF TypeOK
<1>2. PICK p : p = Cardinality(AheadOf(i)) OBVIOUS
<1>3. PICK pp : pp = Cardinality(AheadOf(i))' OBVIOUS
<1>4. PICK q : q = Cardinality(PendingOf(i)) OBVIOUS
<1>5. PICK qq : qq = Cardinality(PendingOf(i))' OBVIOUS
<1>6. p \in Nat /\ pp \in Nat /\ q \in Nat /\ qq \in Nat
  BY <1>2, <1>3, <1>4, <1>5, CountsTyped
<1>7. /\ (Ahead(s, i) => Ahead(r, i)) => pp <= p
      /\ pp <= p + 1
      /\ ((Ahead(s, i) \/ Failed(s, i)) => (Ahead(r, i) \/ Failed(r, i))) => qq <= q
      /\ qq <= q + 1
  BY <1>1, <1>2, <1>3, <1>4, <1>5, <1>6, AheadMoves
<1>8. Quiet(i) => Quiet(i)'
  BY <1>1, KindsMove DEF Quiet
<1>9. \A n \in Nat : HeldCount(i, n)' => HeldCount(i, n) \/ n = RetryOf(i)
  BY <1>1, KindsMove
<1>10. (Asked(r, i) => Asked(s, i)) => (NoneAsked(i)' => NoneAsked(i))
  BY <1>1, KindsMove
<1>11. (Created(r, i) => Created(s, i)) => (NoneCreated(i)' => NoneCreated(i))
  BY <1>1, KindsMove
<1>12. PICK c \in Nat : c = attempts[i] BY <1>1 DEF CountOK
<1>13. PICK d \in Nat : d = issues[i] BY <1>1 DEF CountOK
<1>14. AttemptsPaid(i)'
  <2>1. c = attempts'[i] BY <1>12
  <2>2. \/ /\ faults' = faults /\ c + pp <= c + p
           /\ (~Quiet(i)' /\ NoneAsked(i)') => (pp >= 1 \/ (NoneAsked(i) /\ c = c))
        \/ faults' = faults + 1 /\ c + pp <= c + p + 1 /\ c <= c + p
    BY <1>6, <1>7, <1>10
  <2> QED BY <1>1, <1>2, <1>3, <1>8, <1>9, <1>12, <2>1, <2>2, AttemptsStep
<1>15. IssuesPaid(i)'
  <2>1. d = issues'[i] BY <1>13
  <2>2. \/ /\ faults' = faults /\ d + qq <= d + q
           /\ (~Quiet(i)' /\ NoneCreated(i)') => (qq >= 1 \/ (NoneCreated(i) /\ d = d))
        \/ faults' = faults + 1 /\ d + qq <= d + q + 1 /\ d <= d + q
    BY <1>6, <1>7, <1>11
  <2> QED BY <1>1, <1>4, <1>5, <1>8, <1>13, <2>1, <2>2, IssuesStep
<1> QED BY <1>14, <1>15

\* The row of an item that nobody writes says the same.
LEMMA RowSame ==
    ASSUME NEW i, fila'[i] = fila[i]
    PROVE  /\ RetryOf(i)' = RetryOf(i) /\ Settled(i)' = Settled(i)
           /\ \A s : Is(i, s)' = Is(i, s)
BY DEF RetryOf, Settled, Is

-----------------------------------------------------------------------------
\* What was recorded of the requests stays true, for the counters only grow.
LEMMA RecordedMove ==
    ASSUME TypeOK, TypeOK', Recorded, NEW w \in Runs, NEW s, Moves(w, s),
           \A i \in Items : attempts[i] <= attempts'[i] /\ issues[i] <= issues'[i],
           \A i \in Items : fila'[i] = fila[i] \/ RowRecord(i)',
           CallRecord(s)'
    PROVE  Recorded'
<1>1. /\ \A i \in Items : attempts[i] \in Nat /\ attempts'[i] \in Nat /\ issues[i] \in Nat /\ issues'[i] \in Nat
      /\ MaxTentativas \in Nat
  BY RedmineAssumption DEF TypeOK, CountOK
<1>2. ASSUME NEW i \in Items PROVE RowRecord(i)'
  <2>1. CASE fila'[i] = fila[i]
    <3>1. RetryOf(i)' = RetryOf(i) /\ (Is(i, "SENT")' <=> Is(i, "SENT"))
          /\ (Is(i, "ERROR")' <=> Is(i, "ERROR"))
      BY <2>1 DEF RetryOf, Is
    <3>2. PICK n \in Nat : n = RetryOf(i) BY RetryTyped DEF TypeOK
    <3>3. n <= attempts[i] BY <3>2 DEF Recorded, RowRecord
    <3>4. n <= attempts'[i] BY <3>3, <3>2, <1>1
    <3>5. Is(i, "SENT") => issues'[i] > 0 BY <1>1 DEF Recorded, RowRecord
    <3>6. Is(i, "ERROR") => attempts'[i] >= MaxTentativas BY <1>1 DEF Recorded, RowRecord
    <3> QED BY <3>1, <3>2, <3>4, <3>5, <3>6 DEF RowRecord
  <2> QED BY <2>1
<1>3. ASSUME NEW v \in Runs PROVE CallRecord(run[v])'
  <2>1. PICK r : r = run[v] OBVIOUS
  <2>2. PICK t : t = run'[v] OBVIOUS
  <2>3. CallOK(r) BY <2>1 DEF TypeOK, RunsOK
  <2>4. CASE v = w
    <3>1. t = s BY <2>2, <2>4, MovesFacts DEF TypeOK
    <3> QED BY <2>2, <3>1 DEF CallRecord
  <2>5. CASE v # w
    <3>1. t = r BY <2>1, <2>2, <2>5, MovesFacts DEF TypeOK
    <3>2. CallRecord(r) BY <2>1 DEF Recorded, CallRecord
    <3>3. /\ \A i \in DOMAIN r.lote : i \in Items /\ r.lote[i] \in Nat
          /\ r.pc \in InHandPc => r.item \in DOMAIN r.lote
      BY <2>3 DEF CallOK
    <3>4. \A i \in DOMAIN r.lote : r.lote[i] <= attempts'[i]
      BY <3>2, <3>3, <1>1 DEF CallRecord
    <3>5. r.pc = "created" => issues'[r.item] > 0
      BY <3>2, <3>3, <1>1 DEF CallRecord, InHandPc
    <3>6. r.pc \in {"failed", "fallback"} => r.lote[r.item] + 1 <= attempts'[r.item]
      BY <3>2, <3>3, <1>1 DEF CallRecord, InHandPc
    <3> QED BY <2>2, <3>1, <3>4, <3>5, <3>6 DEF CallRecord
  <2> QED BY <2>4, <2>5
<1> QED BY <1>2, <1>3 DEF Recorded

-----------------------------------------------------------------------------
IInv == TypeOK /\ Paid /\ Recorded

\* A call that moves and writes neither a row nor a counter of effects.  With a
\* fault it may drop anything; without one it drops no request it made.
Entitled(r, s, i) ==
    /\ Ahead(s, i) => Ahead(r, i)
    /\ (Ahead(s, i) \/ Failed(s, i)) => (Ahead(r, i) \/ Failed(r, i))
    /\ Asked(r, i) => Asked(s, i)
    /\ Created(r, i) => Created(s, i)

LEMMA CallMoves ==
    ASSUME IInv, NEW w \in Runs, NEW r, r = run[w], NEW s, Moves(w, s), CallOK(s),
           UNCHANGED <<fila, issues, attempts>>, CountOK',
           \A i \in s.stuck \cup DOMAIN s.lote : fila[i] # None,
           \A i \in Items : Threat(s, i) => (Threat(r, i) \/ ~Settled(i)),
           \A i \in DOMAIN s.lote :
               \/ i \in DOMAIN r.lote /\ s.lote[i] = r.lote[i]
               \/ s.lote[i] = RetryOf(i),
           \A i \in Items : \A n \in Nat : Holds(s, i, n) => (Holds(r, i, n) \/ n = RetryOf(i)),
           \/ faults' = faults /\ \A i \in Items : Entitled(r, s, i)
           \/ faults' = faults + 1,
           s.pc \in {"created", "failed", "fallback"} =>
               /\ s.item = r.item /\ s.lote = r.lote
               /\ s.pc = r.pc \/ (s.pc = "fallback" /\ r.pc = "failed")
    PROVE  IInv'
<1>1. TypeOK /\ CallOK(r) /\ Recorded /\ CallRecord(r)
  BY DEF IInv, TypeOK, RunsOK, Recorded, CallRecord
<1>2. TypeOK' BY <1>1, RowsKept, RunTyped DEF TypeOK
<1>3. Paid'
  <2> SUFFICES ASSUME NEW i \in Items PROVE AttemptsPaid(i)' /\ IssuesPaid(i)'
    BY DEF Paid
  <2>1. AttemptsPaid(i) /\ IssuesPaid(i) BY DEF IInv, Paid
  <2>2. /\ RetryOf(i)' = RetryOf(i) /\ Settled(i)' = Settled(i)
        /\ attempts'[i] = attempts[i] /\ issues'[i] = issues[i]
    BY RowSame
  <2>3. \/ faults' = faults /\ Entitled(r, s, i)
        \/ faults' = faults + 1
    OBVIOUS
  <2> QED BY <1>1, <1>2, <2>1, <2>2, <2>3, PaidItem DEF Entitled
<1>4. Recorded'
  <2>1. \A i \in Items : attempts[i] \in Nat /\ issues[i] \in Nat BY <1>1 DEF TypeOK, CountOK
  <2>2. \A i \in DOMAIN s.lote : s.lote[i] <= attempts[i]
    <3> SUFFICES ASSUME NEW i \in DOMAIN s.lote PROVE s.lote[i] <= attempts[i]
      OBVIOUS
    <3>1. i \in Items BY DEF CallOK
    <3>2. RetryOf(i) <= attempts[i] BY <1>1, <3>1 DEF Recorded, RowRecord
    <3> QED BY <1>1, <3>2 DEF CallRecord
  <2>3. s.pc = "created" => issues[s.item] > 0 BY <1>1 DEF CallRecord
  <2>4. s.pc \in {"failed", "fallback"} => s.lote[s.item] + 1 <= attempts[s.item]
    BY <1>1 DEF CallRecord
  <2>5. CallRecord(s)' BY <2>2, <2>3, <2>4 DEF CallRecord
  <2> QED BY <1>1, <1>2, <2>1, <2>5, RecordedMove
<1> QED BY <1>2, <1>3, <1>4 DEF IInv

\* The call ends with a fault, wherever it was.
LEMMA CallEnds ==
    ASSUME IInv, NEW w \in Runs, Moves(w, Resting), faults' = faults + 1, faults < MaxFaults,
           UNCHANGED <<fila, agile, issues, attempts>>
    PROVE  IInv'
<1>1. PICK r : r = run[w] OBVIOUS
<1>2. CountOK'
  BY RedmineAssumption DEF IInv, TypeOK, CountOK
<1>3. /\ \A i : ~Threat(Resting, i) /\ \A n : ~Holds(Resting, i, n)
      /\ Resting.stuck \cup DOMAIN Resting.lote = {}
      /\ Resting.pc = "idle"
  BY RestingIdle
<1> QED BY <1>1, <1>2, <1>3, RestingOK, CallMoves

LEMMA CrashKeeps == ASSUME IInv, NEW w \in Runs, Crash(w) PROVE IInv'
BY CallEnds DEF Crash, Fault, Moves

\* The call ends when its lot is done.
LEMMA TerminarKeeps == ASSUME IInv, NEW w \in Runs, Terminar(w) PROVE IInv'
<1>1. PICK r : r = run[w] OBVIOUS
<1>2. CallOK(r) /\ r.pc = "batch" /\ DOMAIN r.lote = {} /\ r.item = None /\ r.stuck = {}
  BY <1>1 DEF IInv, TypeOK, RunsOK, CallOK, InHandPc, Terminar, At, EmptyLot
<1>3. /\ Moves(w, Resting) /\ faults' = faults /\ UNCHANGED <<fila, agile, issues, attempts>>
  BY DEF Terminar, Moves
<1>4. CountOK'
  BY <1>3 DEF IInv, TypeOK, CountOK
<1>5. /\ \A i : ~Threat(Resting, i) /\ ~Telling(Resting, i) /\ \A n : ~Holds(Resting, i, n)
      /\ Resting.stuck \cup DOMAIN Resting.lote = {}
      /\ Resting.pc = "idle"
  BY RestingIdle
<1>6. \A i \in Items : Entitled(r, Resting, i)
  BY <1>2, RestingIdle DEF Entitled, Asked, Created
<1> HIDE DEF Resting
<1> QED BY <1>1, <1>3, <1>4, <1>5, <1>6, RestingOK, CallMoves

\* The item in hand is done.
Done(r) == [r EXCEPT !.pc = "batch", !.item = None, !.lote = Without(@, r.item)]

LEMMA DoneFacts ==
    ASSUME NEW r, CallOK(r), r.pc \in {"synced", "unsynced"}, NEW s, s = Done(r)
    PROVE  /\ CallOK(s) /\ s.stuck = {} /\ s.pc = "batch" /\ s.item = None
           /\ DOMAIN s.lote \subseteq DOMAIN r.lote
           /\ \A i \in DOMAIN s.lote : s.lote[i] = r.lote[i]
           /\ \A i \in Items : (Threat(s, i) => Threat(r, i)) /\ Entitled(r, s, i) /\ ~Telling(s, i)
           /\ \A i \in Items : \A n \in Nat : Holds(s, i, n) => Holds(r, i, n)
<1>1. /\ s.stuck = {} /\ s.pc = "batch" /\ s.item = None
      /\ s.lote = Without(r.lote, r.item)
      /\ s \in [pc : RunPc, stuck : SUBSET Items, lote : {s.lote}, item : Items \cup {None}]
  <2>1. PICK m : m = Without(r.lote, r.item) OBVIOUS
  <2>2. PICK l : l = r.lote OBVIOUS
  <2>3. s = [r EXCEPT !.pc = "batch", !.item = None, !.lote = m]
    BY <2>1 DEF Done
  <2>4. r \in [pc : RunPc, stuck : SUBSET Items, lote : {l}, item : Items \cup {None}] /\ r.stuck = {}
    BY <2>2 DEF CallOK
  <2>5. /\ s \in [pc : RunPc, stuck : SUBSET Items, lote : {m}, item : Items \cup {None}]
        /\ s.stuck = {} /\ s.pc = "batch" /\ s.item = None /\ s.lote = m
    BY <2>3, <2>4 DEF RunPc
  <2> QED BY <2>1, <2>5
<1>2. /\ DOMAIN s.lote = DOMAIN r.lote \ {r.item}
      /\ \A i \in DOMAIN s.lote : s.lote[i] = r.lote[i]
      /\ s.lote = [i \in DOMAIN s.lote |-> s.lote[i]]
  BY <1>1 DEF Without
<1>3. CallOK(s)
  BY <1>1, <1>2 DEF CallOK, RunPc, InHandPc
<1>4. ASSUME NEW i \in Items
      PROVE  /\ Threat(s, i) => Threat(r, i)
             /\ Entitled(r, s, i) /\ ~Telling(s, i)
             /\ \A n \in Nat : Holds(s, i, n) => Holds(r, i, n)
  <2>1. None # i BY RedmineAssumption, <1>4
  <2> QED BY <1>1, <1>2, <2>1 DEF Threat, Entitled, Ahead, Failed, Asked, Created, Telling, Holds
<1> QED BY <1>1, <1>2, <1>3, <1>4

LEMMA NextItemIsDone ==
    ASSUME NEW w, NEW r, r = run[w] PROVE NextItem(w) = Done(r)
BY DEF NextItem, Done

-----------------------------------------------------------------------------
\* The planner is told of the item in hand.
LEMMA AgilesyncKeeps == ASSUME IInv, NEW w \in Runs, AtualizarAgilesync(w) PROVE IInv'
<1>1. PICK r : r = run[w] OBVIOUS
<1>2. PICK s : s = Done(r) OBVIOUS
<1>3. PICK j : j = r.item OBVIOUS
<1>4. PICK a \in {"SYNCED", "ERROR"} : a = IF r.pc = "synced" THEN "SYNCED" ELSE "ERROR" OBVIOUS
<1>5. PICK c : c = agile.row[j] OBVIOUS
<1>6. /\ r.pc \in {"synced", "unsynced"} /\ Moves(w, s)
      /\ \/ c = None /\ agile' = agile
         \/ c # None /\ agile' = [agile EXCEPT !.status[c] = a]
      /\ UNCHANGED <<fila, issues, attempts, faults>>
  BY <1>1, <1>2, <1>3, <1>4, <1>5, NextItemIsDone DEF AtualizarAgilesync, Moves, At
<1>7. CallOK(r) /\ TypeOK BY <1>1 DEF IInv, TypeOK, RunsOK
<1>8. j \in DOMAIN r.lote /\ j \in Items BY <1>3, <1>6, <1>7 DEF CallOK, InHandPc
<1>9. CountOK'
  <2>1. agile \in [row : [Items -> AgileRows \cup {None}],
                   status : [AgileRows -> {"-", "SYNCED", "ERROR"}]]
    BY <1>7 DEF TypeOK, CountOK
  <2>2. c \in AgileRows \cup {None} BY <1>5, <1>8, <2>1
  <2>3. agile' \in [row : [Items -> AgileRows \cup {None}],
                    status : [AgileRows -> {"-", "SYNCED", "ERROR"}]]
    BY <1>6, <2>1, <2>2
  <2> QED BY <1>6, <1>7, <2>3 DEF TypeOK, CountOK
<1>10. /\ CallOK(s) /\ s.stuck = {} /\ s.pc = "batch" /\ s.item = None
       /\ DOMAIN s.lote \subseteq DOMAIN r.lote
       /\ \A i \in DOMAIN s.lote : s.lote[i] = r.lote[i]
       /\ \A i \in Items : (Threat(s, i) => Threat(r, i)) /\ Entitled(r, s, i)
       /\ \A i \in Items : \A n \in Nat : Holds(s, i, n) => Holds(r, i, n)
  BY <1>2, <1>6, <1>7, DoneFacts
<1>11. \A i \in s.stuck \cup DOMAIN s.lote : fila[i] # None
  BY <1>1, <1>7, <1>10 DEF TypeOK, KnownRows
<1>12. s.pc \notin {"created", "failed", "fallback"} BY <1>10
<1> QED BY <1>1, <1>6, <1>9, <1>10, <1>11, <1>12, CallMoves

\* A call that goes on after a fault with less than it had.
LEMMA FaultMoves ==
    ASSUME IInv, NEW w \in Runs, NEW r, r = run[w], NEW s, Moves(w, s), CallOK(s),
           faults' = faults + 1, faults < MaxFaults, UNCHANGED <<fila, agile, issues, attempts>>,
           s.stuck \subseteq r.stuck, DOMAIN s.lote \subseteq DOMAIN r.lote,
           \A i \in DOMAIN s.lote : s.lote[i] = r.lote[i],
           \A i \in Items : Threat(s, i) => Threat(r, i),
           \A i \in Items : \A n \in Nat : Holds(s, i, n) => Holds(r, i, n),
           s.pc \in {"created", "failed", "fallback"} =>
               /\ s.item = r.item /\ s.lote = r.lote
               /\ s.pc = r.pc \/ (s.pc = "fallback" /\ r.pc = "failed")
    PROVE  IInv'
<1>1. CountOK' BY RedmineAssumption DEF IInv, TypeOK, CountOK
<1>2. \A i \in s.stuck \cup DOMAIN s.lote : fila[i] # None
  BY DEF IInv, TypeOK, KnownRows
<1> QED BY <1>1, <1>2, CallMoves

LEMMA ErroDataverseKeeps == ASSUME IInv, NEW w \in Runs, ErroDataverse(w) PROVE IInv'
<1>1. PICK r : r = run[w] OBVIOUS
<1>2. CallOK(r) /\ TypeOK BY <1>1 DEF IInv, TypeOK, RunsOK
<1>3. faults' = faults + 1 /\ faults < MaxFaults /\ UNCHANGED <<fila, agile, issues, attempts>>
  BY DEF ErroDataverse, Fault
<1>4. CASE At(w, "failed") /\ Goto(w, "fallback")
  <2>1. PICK s : s = [r EXCEPT !.pc = "fallback"] OBVIOUS
  <2>2. PICK l : l = r.lote OBVIOUS
  <2>3. Moves(w, s) /\ r.pc = "failed"
    BY <1>1, <1>4, <2>1 DEF Goto, Moves, At
  <2>4. r \in [pc : RunPc, stuck : SUBSET Items, lote : {l}, item : Items \cup {None}]
    BY <1>2, <2>2 DEF CallOK
  <2>5. /\ s \in [pc : RunPc, stuck : SUBSET Items, lote : {l}, item : Items \cup {None}]
        /\ s.stuck = r.stuck /\ s.pc = "fallback" /\ s.item = r.item /\ s.lote = l
    BY <2>1, <2>4 DEF RunPc
  <2>6. CallOK(s) BY <1>2, <2>2, <2>3, <2>5 DEF CallOK, InHandPc
  <2>7. \A i \in Items : Threat(s, i) => Threat(r, i)
    BY <2>2, <2>3, <2>5 DEF Threat
  <2>8. \A i \in Items : \A n \in Nat : Holds(s, i, n) => Holds(r, i, n)
    BY <2>2, <2>3, <2>5 DEF Holds
  <2> QED BY <1>1, <1>3, <2>2, <2>3, <2>5, <2>6, <2>7, <2>8, FaultMoves
<1>5. CASE run[w].pc \in {"synced", "unsynced"} /\ run' = [run EXCEPT ![w] = NextItem(w)]
  <2>1. PICK s : s = Done(r) OBVIOUS
  <2>2. Moves(w, s) BY <1>1, <1>5, <2>1, NextItemIsDone DEF Moves
  <2>3. /\ CallOK(s) /\ s.stuck = {} /\ s.pc = "batch"
        /\ DOMAIN s.lote \subseteq DOMAIN r.lote
        /\ \A i \in DOMAIN s.lote : s.lote[i] = r.lote[i]
        /\ \A i \in Items : Threat(s, i) => Threat(r, i)
        /\ \A i \in Items : \A n \in Nat : Holds(s, i, n) => Holds(r, i, n)
    BY <1>1, <1>2, <1>5, <2>1, DoneFacts
  <2> QED BY <1>1, <1>3, <2>2, <2>3, FaultMoves
<1>6. CASE run' = [run EXCEPT ![w] = Resting]
  BY <1>3, <1>6, CallEnds DEF Moves
<1> QED BY <1>4, <1>5, <1>6 DEF ErroDataverse

LEMMA ErroDataverseItemKeeps ==
    ASSUME IInv, NEW w \in Runs, NEW i \in Items, ErroDataverseItem(w, i) PROVE IInv'
<1>1. PICK r : r = run[w] OBVIOUS
<1>2. CallOK(r) /\ TypeOK BY <1>1 DEF IInv, TypeOK, RunsOK
<1>3. faults' = faults + 1 /\ faults < MaxFaults /\ UNCHANGED <<fila, agile, issues, attempts>>
  BY DEF ErroDataverseItem, Fault
<1>4. PICK l : l = r.lote OBVIOUS
<1>5. r \in [pc : RunPc, stuck : SUBSET Items, lote : {l}, item : Items \cup {None}]
  BY <1>2, <1>4 DEF CallOK
<1>6. CASE At(w, "release") /\ run' = [run EXCEPT ![w].stuck = @ \ {i}]
  <2>1. PICK T : T = r.stuck \ {i} OBVIOUS
  <2>2. PICK s : s = [r EXCEPT !.stuck = T] OBVIOUS
  <2>3. Moves(w, s) /\ r.pc = "release"
    BY <1>1, <1>6, <2>1, <2>2 DEF Moves, At
  <2>4. T \subseteq Items BY <1>5, <2>1
  <2>5. /\ s \in [pc : RunPc, stuck : SUBSET Items, lote : {l}, item : Items \cup {None}]
        /\ s.stuck = T /\ s.pc = r.pc /\ s.item = r.item /\ s.lote = l
    BY <2>2, <2>4, <1>5
  <2>6. CallOK(s) BY <1>2, <1>4, <2>3, <2>5 DEF CallOK, InHandPc
  <2>7. \A j \in Items : Threat(s, j) => Threat(r, j)
    BY <2>1, <1>4, <2>5 DEF Threat
  <2>8. \A j \in Items : \A n \in Nat : Holds(s, j, n) => Holds(r, j, n)
    BY <1>4, <2>5 DEF Holds
  <2> QED BY <1>1, <1>3, <1>4, <2>1, <2>3, <2>5, <2>6, <2>7, <2>8, FaultMoves
<1>7. CASE At(w, "batch") /\ run' = [run EXCEPT ![w].lote = Without(@, i)]
  <2>1. PICK m : m = Without(l, i) OBVIOUS
  <2>2. PICK s : s = [r EXCEPT !.lote = m] OBVIOUS
  <2>3. Moves(w, s) /\ r.pc = "batch"
    BY <1>1, <1>4, <1>7, <2>1, <2>2 DEF Moves, At
  <2>4. /\ DOMAIN m = DOMAIN l \ {i} /\ (\A j \in DOMAIN m : m[j] = l[j])
        /\ m = [j \in DOMAIN m |-> m[j]]
    BY <2>1 DEF Without
  <2>5. /\ s \in [pc : RunPc, stuck : SUBSET Items, lote : {m}, item : Items \cup {None}]
        /\ s.stuck = r.stuck /\ s.pc = r.pc /\ s.item = r.item /\ s.lote = m
    BY <2>2, <1>5
  <2>6. CallOK(s) BY <1>2, <1>4, <2>3, <2>4, <2>5 DEF CallOK, InHandPc
  <2>7. \A j \in Items : Threat(s, j) => Threat(r, j)
    BY <2>4, <1>4, <2>5 DEF Threat
  <2>8. \A j \in Items : \A n \in Nat : Holds(s, j, n) => Holds(r, j, n)
    BY <1>4, <2>4, <2>5 DEF Holds
  <2>9. s.pc \notin {"created", "failed", "fallback"} BY <2>3, <2>5
  <2> QED BY <1>1, <1>3, <1>4, <2>3, <2>4, <2>5, <2>6, <2>7, <2>8, <2>9, FaultMoves
<1> QED BY <1>6, <1>7 DEF ErroDataverseItem

-----------------------------------------------------------------------------
\* The call lists the stuck rows: a new call.
LEMMA StartShape ==
    ASSUME TypeOK, NEW w \in Runs, ListarTravadas(w)
    PROVE  \E s : /\ Moves(w, s) /\ CallOK(s) /\ s.pc = "release" /\ DOMAIN s.lote = {} /\ s.item = None
                  /\ \A i \in s.stuck : i \in Items /\ Is(i, "PROCESSING")
<1>1. PICK T : T = {i \in Items : Is(i, "PROCESSING") /\ fila[i].old} OBVIOUS
<1>2. PICK s : s = [Resting EXCEPT !.pc = "release", !.stuck = T] OBVIOUS
<1>3. Moves(w, s) BY <1>1, <1>2 DEF ListarTravadas, Moves
<1>4. PICK l : l = EmptyLot OBVIOUS
<1>5. Resting = [pc |-> "idle", stuck |-> {}, lote |-> l, item |-> None] BY <1>4 DEF Resting
<1>6. T \subseteq Items BY <1>1
<1>7. /\ s \in [pc : RunPc, stuck : SUBSET Items, lote : {l}, item : Items \cup {None}]
      /\ s.pc = "release" /\ s.stuck = T /\ s.lote = l /\ s.item = None
  BY <1>2, <1>5, <1>6 DEF RunPc
<1>8. DOMAIN l = {} /\ l = [i \in DOMAIN l |-> l[i]] BY <1>4 DEF EmptyLot
<1>9. CallOK(s) BY <1>7, <1>8 DEF CallOK, InHandPc
<1> QED BY <1>1, <1>3, <1>7, <1>8, <1>9

LEMMA StartFacts ==
    ASSUME NEW s, s.pc = "release", DOMAIN s.lote = {}, s.item = None,
           \A i \in s.stuck : i \in Items /\ Is(i, "PROCESSING"), NEW i \in Items
    PROVE  /\ Threat(s, i) => ~Settled(i)
           /\ \A n : ~Holds(s, i, n)
           /\ Ahead(s, i) /\ ~Failed(s, i) /\ ~Telling(s, i)
BY DEF Threat, Settled, Is, Holds, Ahead, Failed, Telling

\* A call that starts while no other works is not paid for, and finds nobody
\* else who may ask.
LEMMA FirstCall ==
    ASSUME IInv, TypeOK', NEW w \in Runs, NEW s, Moves(w, s), s.pc = "release",
           DOMAIN s.lote = {}, s.item = None, \A i \in s.stuck : i \in Items /\ Is(i, "PROCESSING"),
           \A v \in Runs : At(v, "idle"), UNCHANGED <<fila, issues, attempts, faults>>,
           NEW i \in Items
    PROVE  AttemptsPaid(i)' /\ IssuesPaid(i)'
<1>1. PICK r : r = run[w] OBVIOUS
<1>2. PICK R : R = run OBVIOUS
<1>3. TypeOK /\ RunsOK /\ CountOK /\ RowsOK /\ AttemptsPaid(i) /\ IssuesPaid(i)
  BY DEF IInv, TypeOK, Paid
<1>4. \A v \in Runs : CallOK(R[v]) /\ R[v].pc = "idle" BY <1>2, <1>3 DEF RunsOK, At
<1>5. /\ \A v \in Runs : ~Ahead(R[v], i) /\ ~Asked(R[v], i) /\ ~Created(R[v], i)
                         /\ ~Failed(R[v], i) /\ ~Threat(R[v], i)
      /\ \A v \in Runs : \A n : ~Holds(R[v], i, n)
  BY <1>4, IdleCall
<1>6. NoneAsked(i) /\ NoneCreated(i) /\ Calm(i) /\ \A n : ~HeldCount(i, n)
  BY <1>2, <1>5 DEF NoneAsked, NoneCreated, Calm, HeldCount
<1>7. AheadNow(R, i) = {} /\ PendingNow(R, i) = {}
  BY <1>5 DEF AheadNow, PendingNow
<1>8. Cardinality(AheadOf(i)) = 0 /\ Cardinality(PendingOf(i)) = 0
  BY <1>2, <1>7, AheadNext, FiniteRuns
<1>9. /\ Threat(s, i) => ~Settled(i)
      /\ \A n : ~Holds(s, i, n)
      /\ Ahead(s, i) /\ ~Failed(s, i)
  BY StartFacts
<1>10. ~Ahead(r, i) /\ ~Failed(r, i) BY <1>1, <1>2, <1>5
<1>11. Cardinality(AheadOf(i))' = 1 /\ Cardinality(PendingOf(i))' = 1
  <2>1. PICK p : p = Cardinality(AheadOf(i)) OBVIOUS
  <2>2. PICK pp : pp = Cardinality(AheadOf(i))' OBVIOUS
  <2>3. PICK q : q = Cardinality(PendingOf(i)) OBVIOUS
  <2>4. PICK qq : qq = Cardinality(PendingOf(i))' OBVIOUS
  <2>5. pp = p + 1 /\ qq = q + 1
    BY <1>1, <1>3, <1>9, <1>10, <2>1, <2>2, <2>3, <2>4, AheadMoves
  <2> QED BY <1>8, <2>1, <2>2, <2>3, <2>4, <2>5
<1>12. \A n : ~HeldCount(i, n)' BY <1>1, <1>3, <1>6, <1>9, KindsMove
<1>13. RetryOf(i)' = RetryOf(i) /\ Settled(i)' = Settled(i) /\ RetryOf(i) \in Nat
  BY <1>3, RowSame, RetryTyped
<1>14. Quiet(i)' <=> Quiet(i)
  BY <1>1, <1>3, <1>6, <1>9, <1>13, KindsMove DEF Quiet
<1>15. attempts[i] \in Nat /\ issues[i] \in Nat /\ faults \in Nat /\ MaxTentativas \in Nat
  BY <1>3, RedmineAssumption DEF CountOK
<1>16. CASE Quiet(i)
  <2>1. attempts[i] <= MaxTentativas + faults /\ issues[i] <= 1 + faults
    BY <1>3, <1>16 DEF AttemptsPaid, IssuesPaid
  <2>2. attempts[i] + 1 <= MaxTentativas + faults + 1 /\ issues[i] + 1 <= 2 + faults
    BY <1>15, <2>1
  <2> QED BY <1>11, <1>14, <1>16, <2>1, <2>2 DEF AttemptsPaid, IssuesPaid
<1>17. CASE ~Quiet(i)
  <2>1. /\ attempts[i] + 1 <= MaxTentativas + faults
        /\ attempts[i] + 1 <= (RetryOf(i) + 1) + faults
    BY <1>3, <1>6, <1>17 DEF AttemptsPaid, AttemptsWithin
  <2>2. AttemptsWithin(i, MaxTentativas)' BY <1>11, <2>1 DEF AttemptsWithin
  <2>3. AttemptsWithin(i, RetryOf(i) + 1)' BY <1>11, <1>13, <2>1 DEF AttemptsWithin
  <2>4. AttemptsPaid(i)' BY <1>12, <1>14, <1>17, <2>2, <2>3 DEF AttemptsPaid
  <2>5. issues[i] <= faults BY <1>3, <1>6, <1>17 DEF IssuesPaid
  <2>6. issues[i] + 1 <= 1 + faults BY <1>15, <2>5
  <2>7. IssuesPaid(i)' BY <1>11, <1>14, <1>17, <2>5, <2>6 DEF IssuesPaid
  <2> QED BY <2>4, <2>7
<1> QED BY <1>16, <1>17

LEMMA ListarTravadasKeeps == ASSUME IInv, NEW w \in Runs, ListarTravadas(w) PROVE IInv'
<1>1. PICK r : r = run[w] OBVIOUS
<1>2. TypeOK /\ CallOK(r) /\ r.pc = "idle" /\ UNCHANGED <<fila, agile, issues, attempts>>
  BY <1>1 DEF IInv, TypeOK, RunsOK, ListarTravadas, At
<1>3. PICK s : /\ Moves(w, s) /\ CallOK(s) /\ s.pc = "release" /\ DOMAIN s.lote = {} /\ s.item = None
               /\ \A i \in s.stuck : i \in Items /\ Is(i, "PROCESSING")
  BY <1>2, StartShape
<1>4. \A i \in Items : /\ Threat(s, i) => ~Settled(i)
                       /\ \A n : ~Holds(s, i, n)
                       /\ ~Telling(s, i)
  BY <1>3, StartFacts
<1>5. \A i \in s.stuck \cup DOMAIN s.lote : fila[i] # None
  BY <1>3 DEF Is
<1>6. s.pc \notin {"created", "failed", "fallback", "synced", "unsynced"} BY <1>3
<1>7. CASE faults' = faults + 1 /\ faults < MaxFaults
  <2>1. CountOK' BY <1>2, <1>7, RedmineAssumption DEF TypeOK, CountOK
  <2> QED BY <1>1, <1>2, <1>3, <1>4, <1>5, <1>6, <1>7, <2>1, CallMoves
<1>8. CASE (\A v \in Runs : At(v, "idle")) /\ UNCHANGED faults
  <2>1. CountOK' BY <1>2, <1>8, RedmineAssumption DEF TypeOK, CountOK
  <2>2. TypeOK' BY <1>2, <1>3, <1>5, <2>1, RowsKept, RunTyped DEF TypeOK
  <2>3. Paid' BY <1>2, <1>3, <1>8, <2>2, FirstCall DEF Paid
  <2>4. CallRecord(s)' BY <1>3, <1>6 DEF CallRecord
  <2>5. \A i \in Items : attempts[i] \in Nat /\ issues[i] \in Nat BY <1>2 DEF TypeOK, CountOK
  <2>6. Recorded' BY <1>2, <1>3, <2>2, <2>4, <2>5, RecordedMove DEF IInv
  <2> QED BY <2>2, <2>3, <2>6 DEF IInv
<1> QED BY <1>7, <1>8 DEF ListarTravadas, Comecar, Fault

\* The call lists its lot.
LEMMA ListarPendentesKeeps == ASSUME IInv, NEW w \in Runs, ListarPendentes(w) PROVE IInv'
<1>1. PICK r : r = run[w] OBVIOUS
<1>2. TypeOK /\ CallOK(r) /\ r.pc = "release" /\ UNCHANGED <<fila, agile, issues, attempts, faults>>
  BY <1>1 DEF IInv, TypeOK, RunsOK, ListarPendentes, At
<1>3. PICK lot : /\ lot \subseteq {i \in Items : Is(i, "PENDING")}
                 /\ run' = [run EXCEPT ![w] = [Resting EXCEPT !.pc = "batch",
                               !.lote = [i \in lot |-> fila[i].retry]]]
  BY DEF ListarPendentes
<1>4. PICK m : m = [i \in lot |-> fila[i].retry] OBVIOUS
<1>5. /\ DOMAIN m = lot /\ lot \subseteq Items /\ m = [i \in DOMAIN m |-> m[i]]
      /\ \A i \in lot : Is(i, "PENDING")
  BY <1>3, <1>4
<1>6. ASSUME NEW i \in lot PROVE fila[i] # None /\ m[i] = RetryOf(i) /\ m[i] \in Nat /\ ~Settled(i)
  <2>1. fila[i] # None BY <1>5 DEF Is
  <2>2. m[i] = RetryOf(i) BY <1>4, <2>1 DEF RetryOf
  <2>3. RetryOf(i) \in Nat BY <1>2, <1>5, RetryTyped DEF TypeOK
  <2> QED BY <1>5, <2>1, <2>2, <2>3 DEF Settled, Is
<1>7. PICK s : s = [Resting EXCEPT !.pc = "batch", !.lote = m] OBVIOUS
<1>8. Moves(w, s) BY <1>3, <1>4, <1>7 DEF Moves
<1>9. PICK l : l = EmptyLot OBVIOUS
<1>10. Resting = [pc |-> "idle", stuck |-> {}, lote |-> l, item |-> None] BY <1>9 DEF Resting
<1>11. /\ s \in [pc : RunPc, stuck : SUBSET Items, lote : {m}, item : Items \cup {None}]
       /\ s.pc = "batch" /\ s.stuck = {} /\ s.lote = m /\ s.item = None
  BY <1>7, <1>10 DEF RunPc
<1>12. CallOK(s) BY <1>5, <1>6, <1>11 DEF CallOK, InHandPc
<1>13. CountOK' BY <1>2 DEF TypeOK, CountOK
<1>14. \A i \in s.stuck \cup DOMAIN s.lote : fila[i] # None BY <1>5, <1>6, <1>11
<1>15. \A i \in Items : Threat(s, i) => ~Settled(i) BY <1>5, <1>6, <1>11 DEF Threat
<1>16. \A i \in Items : \A n \in Nat : Holds(s, i, n) => n = RetryOf(i)
  BY <1>5, <1>6, <1>11 DEF Holds
<1>17. \A i \in Items : Entitled(r, s, i)
  <2>1. \A i \in Items : None # i BY RedmineAssumption
  <2> QED BY <1>2, <1>11, <2>1 DEF Entitled, Ahead, Failed, Asked, Created
<1>18. s.pc \notin {"created", "failed", "fallback", "synced", "unsynced"} /\ r.pc # "idle" BY <1>2, <1>11
<1>20. \A i \in DOMAIN s.lote : s.lote[i] = RetryOf(i) BY <1>5, <1>6, <1>11
<1> QED BY <1>1, <1>2, <1>8, <1>12, <1>13, <1>14, <1>15, <1>16, <1>17, <1>18, <1>20, CallMoves

-----------------------------------------------------------------------------
\* A call writes the row of one item and does nothing to the others.
LEMMA RowMoves ==
    ASSUME IInv, NEW w \in Runs, NEW r, r = run[w], r.pc # "idle", NEW s, Moves(w, s), CallOK(s),
           NEW j \in Items, NEW x \in Row, fila' = [fila EXCEPT ![j] = x],
           UNCHANGED <<agile, issues, attempts, faults>>,
           s.stuck \subseteq r.stuck, s.lote = r.lote,
           s.pc \notin {"created", "failed", "fallback"},
           \A i \in Items \ {j} :
               /\ (Threat(s, i) => Threat(r, i)) /\ Entitled(r, s, i)
               /\ \A n \in Nat : Holds(s, i, n) => Holds(r, i, n)
               /\ ~Telling(r, i) /\ ~Telling(s, i),
           TypeOK' => AttemptsPaid(j)' /\ IssuesPaid(j)',
           x.retry <= attempts[j],
           x.status = "SENT" => issues[j] > 0,
           x.status = "ERROR" => attempts[j] >= MaxTentativas
    PROVE  IInv'
<1>1. TypeOK /\ CallOK(r) /\ Recorded /\ CallRecord(r)
  BY DEF IInv, TypeOK, RunsOK, Recorded, CallRecord
<1>2. /\ RowsOK' /\ fila'[j] = x /\ fila'[j] # None
      /\ \A i \in Items : i # j => fila'[i] = fila[i]
      /\ \A i \in Items : fila[i] # None => fila'[i] # None
  BY <1>1, RowWritten DEF TypeOK
<1>3. CountOK' BY <1>1 DEF TypeOK, CountOK
<1>4. \A i \in s.stuck \cup DOMAIN s.lote : fila[i] # None BY <1>1 DEF TypeOK, KnownRows
<1>5. TypeOK' BY <1>1, <1>2, <1>3, <1>4, RunTyped
<1>6. Paid'
  <2> SUFFICES ASSUME NEW i \in Items, i # j PROVE AttemptsPaid(i)' /\ IssuesPaid(i)'
    BY <1>5 DEF Paid
  <2>1. AttemptsPaid(i) /\ IssuesPaid(i) BY DEF IInv, Paid
  <2>2. RetryOf(i)' = RetryOf(i) /\ Settled(i)' = Settled(i) BY <1>2, RowSame
  <2>3. attempts'[i] = attempts[i] /\ issues'[i] = issues[i] OBVIOUS
  <2>4. /\ (Threat(s, i) => Threat(r, i)) /\ Entitled(r, s, i)
        /\ \A n \in Nat : Holds(s, i, n) => Holds(r, i, n)
    OBVIOUS
  <2> QED BY <1>1, <1>5, <2>1, <2>2, <2>3, <2>4, PaidItem DEF Entitled
<1>7. Recorded'
  <2>1. RowRecord(j)' BY <1>2 DEF RowRecord, RetryOf, Is
  <2>2. CallRecord(s)' BY <1>1 DEF CallRecord
  <2>3. \A i \in Items : attempts[i] \in Nat /\ issues[i] \in Nat BY <1>1 DEF TypeOK, CountOK
  <2> QED BY <1>1, <1>2, <1>5, <2>1, <2>2, <2>3, RecordedMove
<1> QED BY <1>5, <1>6, <1>7 DEF IInv

\* The row of an item a call is entitled to write exists.
LEMMA KnownRow ==
    ASSUME TypeOK, NEW w \in Runs, NEW r, r = run[w], NEW j \in r.stuck \cup DOMAIN r.lote
    PROVE  /\ j \in Items /\ fila[j] \in Row /\ RetryOf(j) = fila[j].retry /\ fila[j] # None
           /\ DOMAIN fila = Items
<1>1. CallOK(r) /\ fila[j] # None BY DEF TypeOK, RunsOK, KnownRows
<1>2. j \in Items BY <1>1 DEF CallOK
<1> QED BY <1>1, <1>2 DEF TypeOK, RowsOK, RetryOf

\* Only the status changes, and the call was counted for the item.
LEMMA StatusPaid ==
    ASSUME IInv, TypeOK', NEW w \in Runs, NEW r, r = run[w], NEW s, Moves(w, s),
           NEW j \in Items, RetryOf(j)' = RetryOf(j),
           UNCHANGED <<issues, attempts, faults>>, Threat(r, j), Entitled(r, s, j),
           \A n \in Nat : Holds(s, j, n) => Holds(r, j, n)
    PROVE  AttemptsPaid(j)' /\ IssuesPaid(j)'
<1>1. TypeOK /\ AttemptsPaid(j) /\ IssuesPaid(j) BY DEF IInv, Paid
<1> QED BY <1>1, PaidItem DEF Entitled

LEMMA LiberarKeeps == ASSUME IInv, NEW w \in Runs, NEW j \in Items, LiberarReserva(w, j) PROVE IInv'
<1>1. PICK r : r = run[w] OBVIOUS
<1>2. TypeOK /\ CallOK(r) /\ r.pc = "release" /\ j \in r.stuck /\ UNCHANGED <<agile, issues, attempts, faults>>
  BY <1>1 DEF IInv, TypeOK, RunsOK, LiberarReserva, At
<1>3. PICK l : l = r.lote OBVIOUS
<1>4. r \in [pc : RunPc, stuck : SUBSET Items, lote : {l}, item : Items \cup {None}]
  BY <1>2, <1>3 DEF CallOK
<1>5. PICK T : T = r.stuck \ {j} OBVIOUS
<1>6. PICK s : s = [r EXCEPT !.stuck = T] OBVIOUS
<1>7. Moves(w, s) BY <1>1, <1>5, <1>6 DEF LiberarReserva, Moves
<1>8. T \subseteq Items BY <1>4, <1>5
<1>9. /\ s \in [pc : RunPc, stuck : SUBSET Items, lote : {l}, item : Items \cup {None}]
      /\ s.stuck = T /\ s.pc = r.pc /\ s.item = r.item /\ s.lote = l
  BY <1>6, <1>8, <1>4
<1>10. CallOK(s) BY <1>2, <1>3, <1>9 DEF CallOK, InHandPc
<1>11. PICK y : y = fila[j] OBVIOUS
<1>12. y \in Row /\ y.retry = RetryOf(j) /\ DOMAIN fila = Items
  BY <1>1, <1>2, <1>11, KnownRow
<1>13. PICK x : x = [y EXCEPT !.status = "PENDING", !.old = FALSE] OBVIOUS
<1>14. fila' = [fila EXCEPT ![j] = x] BY <1>11, <1>12, <1>13 DEF LiberarReserva
<1>15. x \in Row /\ x.status = "PENDING" /\ x.retry = y.retry BY <1>12, <1>13 DEF Row, Status
<1>16. fila'[j] = x /\ fila'[j] # None BY <1>2, <1>14, <1>15, RowWritten DEF TypeOK
<1>17. RetryOf(j)' = RetryOf(j) BY <1>12, <1>15, <1>16 DEF RetryOf
<1>18. ASSUME NEW i \in Items
       PROVE  /\ (Threat(s, i) => Threat(r, i)) /\ Entitled(r, s, i)
              /\ \A n \in Nat : Holds(s, i, n) => Holds(r, i, n)
              /\ ~Telling(r, i) /\ ~Telling(s, i)
  BY <1>2, <1>3, <1>5, <1>9 DEF Threat, Entitled, Ahead, Failed, Asked, Created, Holds, Telling
<1>19. Threat(r, j) BY <1>2 DEF Threat
<1>20. TypeOK' => AttemptsPaid(j)' /\ IssuesPaid(j)'
  BY <1>1, <1>2, <1>7, <1>17, <1>18, <1>19, StatusPaid
<1>21. x.retry <= attempts[j] BY <1>12, <1>15 DEF IInv, Recorded, RowRecord
<1> QED BY <1>1, <1>2, <1>3, <1>5, <1>7, <1>9, <1>10, <1>14, <1>15, <1>18, <1>20, <1>21, RowMoves

LEMMA ReservarKeeps == ASSUME IInv, NEW w \in Runs, NEW j \in Items, Reservar(w, j) PROVE IInv'
<1>1. PICK r : r = run[w] OBVIOUS
<1>2. TypeOK /\ CallOK(r) /\ r.pc = "batch" /\ j \in DOMAIN r.lote /\ UNCHANGED <<agile, issues, attempts, faults>>
  BY <1>1 DEF IInv, TypeOK, RunsOK, Reservar, At
<1>3. PICK l : l = r.lote OBVIOUS
<1>4. /\ r \in [pc : RunPc, stuck : SUBSET Items, lote : {l}, item : Items \cup {None}]
      /\ r.item = None
  BY <1>2, <1>3 DEF CallOK, InHandPc
<1>6. PICK s : s = [r EXCEPT !.pc = "create", !.item = j] OBVIOUS
<1>7. Moves(w, s) BY <1>1, <1>6 DEF Reservar, Moves
<1>9. /\ s \in [pc : RunPc, stuck : SUBSET Items, lote : {l}, item : Items \cup {None}]
      /\ s.stuck = r.stuck /\ s.pc = "create" /\ s.item = j /\ s.lote = l
  BY <1>6, <1>4 DEF RunPc
<1>10. CallOK(s) BY <1>2, <1>3, <1>9 DEF CallOK, InHandPc
<1>11. PICK y : y = fila[j] OBVIOUS
<1>12. y \in Row /\ y.retry = RetryOf(j) /\ DOMAIN fila = Items
  BY <1>1, <1>2, <1>11, KnownRow
<1>13. PICK x : x = [y EXCEPT !.status = "PROCESSING", !.old = FALSE] OBVIOUS
<1>14. fila' = [fila EXCEPT ![j] = x] BY <1>11, <1>12, <1>13 DEF Reservar
<1>15. x \in Row /\ x.status = "PROCESSING" /\ x.retry = y.retry BY <1>12, <1>13 DEF Row, Status
<1>16. fila'[j] = x /\ fila'[j] # None BY <1>2, <1>14, <1>15, RowWritten DEF TypeOK
<1>17. RetryOf(j)' = RetryOf(j) BY <1>12, <1>15, <1>16 DEF RetryOf
<1>18. ASSUME NEW i \in Items
       PROVE  /\ (Threat(s, i) => Threat(r, i)) /\ Entitled(r, s, i)
              /\ \A n \in Nat : Holds(s, i, n) => Holds(r, i, n)
              /\ ~Telling(r, i) /\ ~Telling(s, i)
  <2>1. i # None BY RedmineAssumption, <1>18
  <2> QED BY <1>2, <1>3, <1>4, <1>9, <2>1
          DEF Threat, Entitled, Ahead, Failed, Asked, Created, Holds, Telling
<1>19. Threat(r, j)
  <2>1. j # None BY RedmineAssumption
  <2> QED BY <1>2, <1>4, <2>1 DEF Threat
<1>20. TypeOK' => AttemptsPaid(j)' /\ IssuesPaid(j)'
  BY <1>1, <1>2, <1>7, <1>17, <1>18, <1>19, StatusPaid
<1>21. x.retry <= attempts[j] BY <1>12, <1>15 DEF IInv, Recorded, RowRecord
<1> QED BY <1>1, <1>2, <1>3, <1>7, <1>9, <1>10, <1>14, <1>15, <1>18, <1>20, <1>21, RowMoves

-----------------------------------------------------------------------------
\* The call goes from one point of its item to the next.
LEMMA GotoShape ==
    ASSUME TypeOK, NEW w \in Runs, NEW r, r = run[w], r.pc \in InHandPc, NEW pc \in InHandPc,
           Goto(w, pc)
    PROVE  \E s : /\ Moves(w, s) /\ CallOK(s) /\ s.pc = pc /\ s.item = r.item
                  /\ s.lote = r.lote /\ s.stuck = r.stuck
<1>1. CallOK(r) BY DEF TypeOK, RunsOK
<1>2. PICK l : l = r.lote OBVIOUS
<1>3. /\ r \in [pc : RunPc, stuck : SUBSET Items, lote : {l}, item : Items \cup {None}]
      /\ r.stuck = {}
  BY <1>1, <1>2 DEF CallOK, InHandPc
<1>4. PICK s : s = [r EXCEPT !.pc = pc] OBVIOUS
<1>5. Moves(w, s) BY <1>4 DEF Goto, Moves
<1>6. /\ s \in [pc : RunPc, stuck : SUBSET Items, lote : {l}, item : Items \cup {None}]
      /\ s.stuck = r.stuck /\ s.pc = pc /\ s.item = r.item /\ s.lote = l
  BY <1>4, <1>3 DEF RunPc, InHandPc
<1>7. CallOK(s) BY <1>1, <1>2, <1>3, <1>6 DEF CallOK, InHandPc
<1> QED BY <1>2, <1>5, <1>6, <1>7

LEMMA InHand ==
    ASSUME TypeOK, NEW w \in Runs, NEW r, r = run[w], r.pc \in InHandPc, NEW j, j = r.item
    PROVE  CallOK(r) /\ j \in DOMAIN r.lote /\ j \in Items /\ r.lote[j] \in Nat /\ r.stuck = {}
BY DEF TypeOK, RunsOK, CallOK, InHandPc

\* Nothing changes for the items that are not in hand.
LEMMA GotoOthers ==
    ASSUME NEW r, NEW s, r.pc \in InHandPc, s.pc \in InHandPc, s.item = r.item,
           s.lote = r.lote, s.stuck = r.stuck, NEW i, i # r.item
    PROVE  /\ (Threat(s, i) => Threat(r, i)) /\ Entitled(r, s, i)
           /\ \A n \in Nat : Holds(s, i, n) => Holds(r, i, n)
           /\ ~Telling(r, i) /\ ~Telling(s, i)
BY DEF InHandPc, Threat, Entitled, Ahead, Failed, Asked, Created, Holds, Telling

\* A call that may still write an item is counted for it, or has asked.
LEMMA Restless ==
    ASSUME TypeOK', NEW i \in Items
    PROVE  /\ ~Calm(i)' => Cardinality(PendingOf(i))' >= 1
           /\ (~Calm(i)' /\ NoneAsked(i)') => Cardinality(AheadOf(i))' >= 1
           /\ \A n : (HeldCount(i, n)' /\ NoneAsked(i)') => Cardinality(AheadOf(i))' >= 1
<1>1. PICK S : S = run' OBVIOUS
<1>2. \A v \in Runs : CallOK(S[v])
  <2> SUFFICES ASSUME NEW v \in Runs PROVE CallOK(S[v]) OBVIOUS
  <2>1. PICK t : t = S[v] OBVIOUS
  <2>2. run'[v] = t BY <1>1, <2>1
  <2>3. CallOK(run[v])' BY DEF TypeOK, RunsOK
  <2>4. CallOK(t) BY <2>2, <2>3, Zenon DEF CallOK
  <2> QED BY <2>1, <2>4
<1>3. /\ NoneAsked(i)' <=> \A v \in Runs : ~Asked(S[v], i)
      /\ \A n : HeldCount(i, n)' <=> \E v \in Runs : Holds(S[v], i, n)
      /\ Calm(i)' <=> \A v \in Runs : ~Threat(S[v], i)
  BY <1>1 DEF NoneAsked, HeldCount, Calm, Asked, Holds, Threat
<1>4. AheadOf(i)' = AheadNow(S, i) /\ PendingOf(i)' = PendingNow(S, i) BY <1>1, AheadNext
<1>5. /\ \A v \in Runs : Threat(S[v], i) => (Ahead(S[v], i) \/ Failed(S[v], i))
      /\ \A v \in Runs : Failed(S[v], i) => Asked(S[v], i)
      /\ \A v \in Runs : \A n : Holds(S[v], i, n) => (Ahead(S[v], i) \/ Asked(S[v], i))
  <2> SUFFICES ASSUME NEW v \in Runs
               PROVE  /\ Threat(S[v], i) => (Ahead(S[v], i) \/ Failed(S[v], i))
                      /\ Failed(S[v], i) => Asked(S[v], i)
                      /\ \A n : Holds(S[v], i, n) => (Ahead(S[v], i) \/ Asked(S[v], i))
    OBVIOUS
  <2>1. PICK t : t = S[v] OBVIOUS
  <2>2. CallOK(t) BY <1>2, <2>1
  <2>3. i # None BY RedmineAssumption
  <2>4. /\ t.stuck # {} => t.pc = "release"
        /\ t.pc \notin InHandPc => t.item = None
    BY <2>2 DEF CallOK
  <2>5. Threat(t, i) => (Ahead(t, i) \/ Failed(t, i)) BY <2>3, <2>4 DEF Threat, Ahead, Failed, InHandPc
  <2>6. Failed(t, i) => Asked(t, i) BY DEF Failed, Asked
  <2>7. ASSUME NEW n, Holds(t, i, n) PROVE Ahead(t, i) \/ Asked(t, i)
    BY <2>3, <2>4, <2>7 DEF Holds, Ahead, Asked, InHandPc
  <2> QED BY <2>1, <2>5, <2>6, <2>7
<1>6. AheadNow(S, i) \subseteq Runs /\ PendingNow(S, i) \subseteq Runs BY DEF AheadNow, PendingNow
<1>7. /\ \A v \in Runs : Ahead(S[v], i) => Cardinality(AheadNow(S, i)) >= 1
      /\ \A v \in Runs : (Ahead(S[v], i) \/ Failed(S[v], i)) => Cardinality(PendingNow(S, i)) >= 1
  <2>1. /\ \A v \in Runs : Ahead(S[v], i) => v \in AheadNow(S, i)
        /\ \A v \in Runs : (Ahead(S[v], i) \/ Failed(S[v], i)) => v \in PendingNow(S, i)
    BY DEF AheadNow, PendingNow
  <2> QED BY <1>6, <2>1, FiniteRuns
<1> QED BY <1>3, <1>4, <1>5, <1>7

\* The update after a failure that fell back to the status alone.
LEMMA SoStatusKeeps == ASSUME IInv, NEW w \in Runs, MarcarSoStatus(w) PROVE IInv'
<1>1. PICK r : r = run[w] OBVIOUS
<1>2. PICK j : j = r.item OBVIOUS
<1>3. TypeOK /\ r.pc = "fallback" /\ Goto(w, "unsynced") /\ UNCHANGED <<agile, issues, attempts, faults>>
  BY <1>1 DEF IInv, MarcarSoStatus, At
<1>4. CallOK(r) /\ j \in DOMAIN r.lote /\ j \in Items /\ r.lote[j] \in Nat /\ r.stuck = {}
  BY <1>1, <1>2, <1>3, InHand DEF InHandPc
<1>5. PICK s : /\ Moves(w, s) /\ CallOK(s) /\ s.pc = "unsynced" /\ s.item = r.item
               /\ s.lote = r.lote /\ s.stuck = r.stuck
  BY <1>1, <1>3, GotoShape DEF InHandPc
<1>6. PICK y : y = fila[j] OBVIOUS
<1>7. y \in Row /\ y.retry = RetryOf(j) /\ DOMAIN fila = Items
  BY <1>1, <1>3, <1>4, <1>6, KnownRow
<1>8. PICK st : st = IF r.lote[j] + 1 >= MaxTentativas THEN "ERROR" ELSE "PENDING" OBVIOUS
<1>9. PICK x : x = [y EXCEPT !.status = st] OBVIOUS
<1>10. fila' = [fila EXCEPT ![j] = x] BY <1>1, <1>2, <1>6, <1>7, <1>8, <1>9 DEF MarcarSoStatus
<1>11. x \in Row /\ x.status = st /\ x.retry = y.retry BY <1>7, <1>8, <1>9 DEF Row, Status
<1>12. fila'[j] = x /\ fila'[j] # None BY <1>3, <1>4, <1>10, <1>11, RowWritten DEF TypeOK
<1>13. RetryOf(j)' = RetryOf(j) BY <1>7, <1>11, <1>12 DEF RetryOf
<1>14. \A i \in Items \ {j} :
           /\ (Threat(s, i) => Threat(r, i)) /\ Entitled(r, s, i)
           /\ \A n \in Nat : Holds(s, i, n) => Holds(r, i, n)
           /\ ~Telling(r, i) /\ ~Telling(s, i)
  BY <1>2, <1>3, <1>5, GotoOthers DEF InHandPc
<1>15. Threat(r, j) /\ Entitled(r, s, j) /\ \A n \in Nat : ~Holds(s, j, n)
  BY <1>2, <1>3, <1>4, <1>5 DEF Threat, Entitled, Ahead, Failed, Asked, Created, Holds
<1>16. TypeOK' => AttemptsPaid(j)' /\ IssuesPaid(j)'
  BY <1>1, <1>3, <1>4, <1>5, <1>13, <1>15, StatusPaid
<1>17. /\ x.retry <= attempts[j] BY <1>4, <1>7, <1>11 DEF IInv, Recorded, RowRecord
<1>18. r.lote[j] + 1 <= attempts[j]
  <2>1. CallRecord(r) BY <1>1 DEF IInv, Recorded, CallRecord
  <2> QED BY <1>2, <1>3, <2>1 DEF CallRecord
<1>19. x.status # "SENT" /\ (x.status = "ERROR" => attempts[j] >= MaxTentativas)
  <2>1. attempts[j] \in Nat /\ MaxTentativas \in Nat BY <1>3, <1>4, RedmineAssumption DEF TypeOK, CountOK
  <2> QED BY <1>4, <1>8, <1>11, <1>18, <2>1
<1> QED BY <1>1, <1>2, <1>3, <1>4, <1>5, <1>10, <1>11, <1>14, <1>16, <1>17, <1>19, RowMoves

\* The row is marked as sent.
LEMMA EnviadoPaid ==
    ASSUME IInv, TypeOK', NEW w \in Runs, NEW r, r = run[w], NEW s, Moves(w, s),
           NEW j \in Items, r.pc = "created", r.item = j, s.pc = "synced", s.item = j,
           s.lote = r.lote, s.stuck = r.stuck, r.stuck = {},
           UNCHANGED <<issues, attempts, faults>>, RetryOf(j)' = RetryOf(j), Settled(j)'
    PROVE  AttemptsPaid(j)' /\ IssuesPaid(j)'
<1>1. TypeOK /\ RowsOK /\ CountOK /\ CountOK' /\ RunsOK /\ AttemptsPaid(j) /\ IssuesPaid(j)
  BY DEF IInv, TypeOK, Paid
<1>2. /\ ~Ahead(r, j) /\ ~Failed(r, j) /\ ~Ahead(s, j) /\ ~Failed(s, j)
      /\ ~Threat(s, j) /\ \A n : ~Holds(s, j, n)
  BY DEF Ahead, Failed, Threat, Holds
<1>3. PICK p : p = Cardinality(AheadOf(j)) OBVIOUS
<1>4. PICK pp : pp = Cardinality(AheadOf(j))' OBVIOUS
<1>5. PICK q : q = Cardinality(PendingOf(j)) OBVIOUS
<1>6. PICK qq : qq = Cardinality(PendingOf(j))' OBVIOUS
<1>7. p \in Nat /\ q \in Nat /\ pp = p /\ qq = q
  BY <1>1, <1>2, <1>3, <1>4, <1>5, <1>6, AheadMoves
<1>8. /\ \A n : HeldCount(j, n)' => HeldCount(j, n)
      /\ Calm(j) => Calm(j)'
  BY <1>1, <1>2, KindsMove
<1>9. Quiet(j) => Quiet(j)' BY <1>8 DEF Quiet
<1>10. ~Quiet(j)' => ~Calm(j)' BY DEF Quiet
<1>11. /\ (~Quiet(j)' /\ NoneAsked(j)') => pp >= 1
       /\ ~Quiet(j)' => qq >= 1
  BY <1>4, <1>6, <1>10, Restless
<1>12. PICK c \in Nat : c = attempts[j] BY <1>1 DEF CountOK
<1>13. PICK d \in Nat : d = issues[j] BY <1>1 DEF CountOK
<1>14. attempts'[j] = c /\ issues'[j] = d BY <1>12, <1>13
<1>15. /\ faults' = faults /\ c + pp <= c + p
       /\ (~Quiet(j)' /\ NoneAsked(j)') => (pp >= 1 \/ (NoneAsked(j) /\ c = c))
       /\ d + qq <= d + q
       /\ (~Quiet(j)' /\ NoneCreated(j)') => (qq >= 1 \/ (NoneCreated(j) /\ d = d))
  BY <1>7, <1>11
<1>16. AttemptsPaid(j)' BY <1>1, <1>3, <1>4, <1>8, <1>9, <1>12, <1>14, <1>15, AttemptsStep
<1>17. IssuesPaid(j)' BY <1>1, <1>5, <1>6, <1>9, <1>13, <1>14, <1>15, IssuesStep
<1> QED BY <1>16, <1>17

LEMMA EnviadoKeeps == ASSUME IInv, NEW w \in Runs, MarcarEnviado(w) PROVE IInv'
<1>1. PICK r : r = run[w] OBVIOUS
<1>2. PICK j : j = r.item OBVIOUS
<1>3. TypeOK /\ r.pc = "created" /\ Goto(w, "synced") /\ UNCHANGED <<agile, issues, attempts, faults>>
  BY <1>1 DEF IInv, MarcarEnviado, At
<1>4. CallOK(r) /\ j \in DOMAIN r.lote /\ j \in Items /\ r.lote[j] \in Nat /\ r.stuck = {}
  BY <1>1, <1>2, <1>3, InHand DEF InHandPc
<1>5. PICK s : /\ Moves(w, s) /\ CallOK(s) /\ s.pc = "synced" /\ s.item = r.item
               /\ s.lote = r.lote /\ s.stuck = r.stuck
  BY <1>1, <1>3, GotoShape DEF InHandPc
<1>6. PICK y : y = fila[j] OBVIOUS
<1>7. y \in Row /\ y.retry = RetryOf(j) /\ DOMAIN fila = Items
  BY <1>1, <1>3, <1>4, <1>6, KnownRow
<1>9. PICK x : x = [y EXCEPT !.status = "SENT"] OBVIOUS
<1>10. fila' = [fila EXCEPT ![j] = x] BY <1>1, <1>2, <1>6, <1>7, <1>9 DEF MarcarEnviado
<1>11. x \in Row /\ x.status = "SENT" /\ x.retry = y.retry BY <1>7, <1>9 DEF Row, Status
<1>12. fila'[j] = x /\ fila'[j] # None BY <1>3, <1>4, <1>10, <1>11, RowWritten DEF TypeOK
<1>13. RetryOf(j)' = RetryOf(j) /\ Settled(j)' BY <1>7, <1>11, <1>12 DEF RetryOf, Settled, Is
<1>14. \A i \in Items \ {j} :
           /\ (Threat(s, i) => Threat(r, i)) /\ Entitled(r, s, i)
           /\ \A n \in Nat : Holds(s, i, n) => Holds(r, i, n)
           /\ ~Telling(r, i) /\ ~Telling(s, i)
  BY <1>2, <1>3, <1>5, GotoOthers DEF InHandPc
<1>16. TypeOK' => AttemptsPaid(j)' /\ IssuesPaid(j)'
  BY <1>1, <1>2, <1>3, <1>4, <1>5, <1>13, EnviadoPaid
<1>17. x.retry <= attempts[j] BY <1>4, <1>7, <1>11 DEF IInv, Recorded, RowRecord
<1>18. issues[j] > 0
  <2>1. CallRecord(r) BY <1>1 DEF IInv, Recorded, CallRecord
  <2> QED BY <1>2, <1>3, <2>1 DEF CallRecord
<1> QED BY <1>1, <1>2, <1>3, <1>4, <1>5, <1>10, <1>11, <1>14, <1>16, <1>17, <1>18, RowMoves

-----------------------------------------------------------------------------
\* The failure is counted: the count that was listed, plus one, is stored.
LEMMA FalhaPaid ==
    ASSUME IInv, TypeOK', NEW w \in Runs, NEW r, r = run[w], NEW s, Moves(w, s),
           NEW j \in Items, r.pc = "failed", r.item = j, s.pc = "unsynced", s.item = j,
           s.lote = r.lote, s.stuck = r.stuck, r.stuck = {}, j \in DOMAIN r.lote,
           NEW l \in Nat, r.lote[j] = l,
           UNCHANGED <<issues, attempts, faults>>, RetryOf(j)' = l + 1,
           ~Settled(j)' => l + 1 < MaxTentativas
    PROVE  AttemptsPaid(j)' /\ IssuesPaid(j)'
<1>1. TypeOK /\ RowsOK /\ CountOK /\ CountOK' /\ RunsOK /\ AttemptsPaid(j) /\ IssuesPaid(j)
  BY DEF IInv, TypeOK, Paid
<1>2. /\ ~Ahead(r, j) /\ Failed(r, j) /\ ~Ahead(s, j) /\ ~Failed(s, j)
      /\ Threat(r, j) /\ Holds(r, j, l) /\ (\A n : ~Holds(s, j, n)) /\ ~Created(r, j)
  BY DEF Ahead, Failed, Threat, Holds, Created
<1>3. PICK p : p = Cardinality(AheadOf(j)) OBVIOUS
<1>4. PICK pp : pp = Cardinality(AheadOf(j))' OBVIOUS
<1>5. PICK q : q = Cardinality(PendingOf(j)) OBVIOUS
<1>6. PICK qq : qq = Cardinality(PendingOf(j))' OBVIOUS
<1>7. p \in Nat /\ q \in Nat /\ qq \in Nat /\ pp = p /\ qq + 1 = q
  BY <1>1, <1>2, <1>3, <1>4, <1>5, <1>6, AheadMoves
<1>8. /\ \A n : HeldCount(j, n)' => HeldCount(j, n)
      /\ HeldCount(j, l) /\ ~Calm(j)
      /\ NoneCreated(j)' => NoneCreated(j)
  BY <1>1, <1>2, KindsMove
<1>9. ~Quiet(j) BY <1>8 DEF Quiet
<1>12. PICK c \in Nat : c = attempts[j] BY <1>1 DEF CountOK
<1>13. PICK d \in Nat : d = issues[j] BY <1>1 DEF CountOK
<1>14. attempts'[j] = c /\ issues'[j] = d BY <1>12, <1>13
<1>15. IssuesPaid(j)'
  <2>1. /\ faults' = faults /\ d + qq <= d + q
        /\ (~Quiet(j)' /\ NoneCreated(j)') => (qq >= 1 \/ (NoneCreated(j) /\ d = d))
    BY <1>7, <1>8
  <2> QED BY <1>1, <1>5, <1>6, <1>9, <1>13, <1>14, <2>1, IssuesStep
<1>16. PICK f \in Nat : f = faults BY <1>1 DEF CountOK
<1>17. faults' = f /\ MaxTentativas \in Nat BY <1>16, RedmineAssumption
<1>18. /\ c + p <= MaxTentativas + f
       /\ c + p <= (l + 1) + f
       /\ \A n \in Nat : HeldCount(j, n) => c + p <= (n + 1) + f
  BY <1>1, <1>3, <1>8, <1>9, <1>12, <1>16 DEF AttemptsPaid, AttemptsWithin
<1>19. CASE Quiet(j)'
  <2>1. c <= MaxTentativas + f /\ c + p <= MaxTentativas + f + 1 BY <1>7, <1>17, <1>18
  <2> QED BY <1>4, <1>7, <1>14, <1>15, <1>17, <1>19, <2>1 DEF AttemptsPaid
<1>20. CASE ~Quiet(j)'
  <2>1. CASE NoneAsked(j)'
    <3>1. CASE p >= 1
      <4>1. /\ c + 1 <= MaxTentativas + f
            /\ c + p <= (l + 1) + 1 + f /\ c + 1 <= (l + 1) + 1 + f
            /\ \A n \in Nat : HeldCount(j, n)' => c + 1 <= (n + 1) + f
        BY <1>7, <1>8, <1>17, <1>18, <3>1
      <4>2. AttemptsWithin(j, MaxTentativas)' BY <1>4, <1>7, <1>14, <1>17, <1>18, <4>1 DEF AttemptsWithin
      <4>3. AttemptsWithin(j, RetryOf(j) + 1)' BY <1>4, <1>7, <1>14, <1>17, <4>1 DEF AttemptsWithin
      <4>4. ASSUME NEW n \in Nat, HeldCount(j, n)' PROVE AttemptsWithin(j, n + 1)'
        BY <1>4, <1>7, <1>8, <1>14, <1>17, <1>18, <4>1, <4>4 DEF AttemptsWithin
      <4> QED BY <1>15, <1>20, <4>2, <4>3, <4>4 DEF AttemptsPaid
    <3>2. CASE p = 0
      <4>1. ~(Cardinality(AheadOf(j))' >= 1) BY <1>4, <1>7, <3>2
      <4>2. Calm(j)' /\ \A n : ~HeldCount(j, n)' BY <2>1, <4>1, Restless
      <4>3. ~Settled(j)' BY <1>20, <4>2 DEF Quiet
      <4>4. /\ c + 1 <= MaxTentativas + f
            /\ c + p <= (l + 1) + 1 + f /\ c + 1 <= (l + 1) + 1 + f
        BY <1>17, <1>18, <3>2, <4>3
      <4>5. AttemptsWithin(j, MaxTentativas)' BY <1>4, <1>7, <1>14, <1>17, <1>18, <4>4 DEF AttemptsWithin
      <4>6. AttemptsWithin(j, RetryOf(j) + 1)' BY <1>4, <1>7, <1>14, <1>17, <4>4 DEF AttemptsWithin
      <4> QED BY <1>15, <1>20, <4>2, <4>5, <4>6 DEF AttemptsPaid
    <3> QED BY <1>7, <3>1, <3>2
  <2>2. CASE ~NoneAsked(j)'
    <3>1. c + p <= (l + 1) + 1 + f BY <1>7, <1>18
    <3>2. AttemptsWithin(j, MaxTentativas)' BY <1>4, <1>7, <1>14, <1>17, <1>18, <2>2 DEF AttemptsWithin
    <3>3. AttemptsWithin(j, RetryOf(j) + 1)' BY <1>4, <1>7, <1>14, <1>17, <2>2, <3>1 DEF AttemptsWithin
    <3>4. ASSUME NEW n \in Nat, HeldCount(j, n)' PROVE AttemptsWithin(j, n + 1)'
      BY <1>4, <1>7, <1>8, <1>14, <1>17, <1>18, <2>2, <3>4 DEF AttemptsWithin
    <3> QED BY <1>15, <1>20, <3>2, <3>3, <3>4 DEF AttemptsPaid
  <2> QED BY <2>1, <2>2
<1> QED BY <1>19, <1>20

LEMMA FalhaKeeps == ASSUME IInv, NEW w \in Runs, MarcarFalha(w) PROVE IInv'
<1>1. PICK r : r = run[w] OBVIOUS
<1>2. PICK j : j = r.item OBVIOUS
<1>3. TypeOK /\ r.pc = "failed" /\ Goto(w, "unsynced") /\ UNCHANGED <<agile, issues, attempts, faults>>
  BY <1>1 DEF IInv, MarcarFalha, At
<1>4. CallOK(r) /\ j \in DOMAIN r.lote /\ j \in Items /\ r.lote[j] \in Nat /\ r.stuck = {}
  BY <1>1, <1>2, <1>3, InHand DEF InHandPc
<1>5. PICK s : /\ Moves(w, s) /\ CallOK(s) /\ s.pc = "unsynced" /\ s.item = r.item
               /\ s.lote = r.lote /\ s.stuck = r.stuck
  BY <1>1, <1>3, GotoShape DEF InHandPc
<1>6. PICK y : y = fila[j] OBVIOUS
<1>7. y \in Row /\ y.retry = RetryOf(j) /\ DOMAIN fila = Items
  BY <1>1, <1>3, <1>4, <1>6, KnownRow
<1>8. PICK l \in Nat : l = r.lote[j] BY <1>4
<1>9. PICK n \in Nat : n = l + 1 BY <1>8
<1>10. PICK st : st = IF n >= MaxTentativas THEN "ERROR" ELSE "PENDING" OBVIOUS
<1>11. PICK x : x = [y EXCEPT !.status = st, !.retry = n] OBVIOUS
<1>12. fila' = [fila EXCEPT ![j] = x]
  BY <1>1, <1>2, <1>6, <1>7, <1>8, <1>9, <1>10, <1>11 DEF MarcarFalha
<1>13. x \in Row /\ x.status = st /\ x.retry = n BY <1>7, <1>9, <1>10, <1>11 DEF Row, Status
<1>14. fila'[j] = x /\ fila'[j] # None BY <1>3, <1>4, <1>12, <1>13, RowWritten DEF TypeOK
<1>15. MaxTentativas \in Nat BY RedmineAssumption
<1>16. /\ RetryOf(j)' = l + 1 /\ (~Settled(j)' => l + 1 < MaxTentativas)
  BY <1>9, <1>10, <1>13, <1>14, <1>15 DEF RetryOf, Settled, Is
<1>17. \A i \in Items \ {j} :
           /\ (Threat(s, i) => Threat(r, i)) /\ Entitled(r, s, i)
           /\ \A m \in Nat : Holds(s, i, m) => Holds(r, i, m)
           /\ ~Telling(r, i) /\ ~Telling(s, i)
  BY <1>2, <1>3, <1>5, GotoOthers DEF InHandPc
<1>18. TypeOK' => AttemptsPaid(j)' /\ IssuesPaid(j)'
  BY <1>1, <1>2, <1>3, <1>4, <1>5, <1>8, <1>16, FalhaPaid
<1>19. x.retry <= attempts[j]
  <2>1. CallRecord(r) BY <1>1 DEF IInv, Recorded, CallRecord
  <2>2. r.lote[j] + 1 <= attempts[j] BY <1>2, <1>3, <2>1 DEF CallRecord
  <2> QED BY <1>8, <1>9, <1>13, <2>2
<1>20. x.status # "SENT" /\ (x.status = "ERROR" => attempts[j] >= MaxTentativas)
  <2>1. attempts[j] \in Nat /\ MaxTentativas \in Nat BY <1>3, <1>4, RedmineAssumption DEF TypeOK, CountOK
  <2> QED BY <1>9, <1>10, <1>13, <1>19, <2>1
<1> QED BY <1>1, <1>2, <1>3, <1>4, <1>5, <1>12, <1>13, <1>17, <1>18, <1>19, <1>20, RowMoves

-----------------------------------------------------------------------------
\* A counter of effects after one more.
LEMMA CountOneFacts ==
    ASSUME NEW f, f \in [Items -> Nat], NEW j \in Items, NEW g, g = CountOne(f, j)
    PROVE  /\ g \in [Items -> Nat] /\ g[j] > 0
           /\ f[j] <= g[j] /\ g[j] <= f[j] + 1
           /\ f[j] < CountLimit => g[j] = f[j] + 1
           /\ \A i \in Items : i # j => g[i] = f[i]
<1>1. CountLimit \in Nat \ {0} BY RedmineAssumption DEF CountLimit
<1> QED BY <1>1 DEF CountOne

LEMMA AttemptsBelowLimit ==
    ASSUME IInv, NEW j \in Items PROVE attempts[j] <= MaxTentativas + faults /\ attempts[j] < CountLimit
<1>1. attempts[j] \in Nat /\ faults \in 0..MaxFaults /\ MaxTentativas \in Nat /\ MaxFaults \in Nat
      /\ Cardinality(AheadOf(j)) \in Nat
  BY RedmineAssumption, CountsTyped DEF IInv, TypeOK, CountOK
<1>2. attempts[j] <= MaxTentativas + faults
  BY <1>1 DEF IInv, Paid, AttemptsPaid, AttemptsWithin
<1> QED BY <1>1, <1>2 DEF CountLimit

\* A request to Redmine, answered or not.
LEMMA AskMoves ==
    ASSUME IInv, NEW w \in Runs, NEW r, r = run[w], r.pc = "create", NEW j, j = r.item,
           NEW s, Moves(w, s), CallOK(s), attempts' = CountOne(attempts, j),
           issues' \in {issues, CountOne(issues, j)}, UNCHANGED <<fila, agile>>,
           \/ /\ faults' = faults /\ s.item = j /\ s.lote = r.lote /\ s.stuck = r.stuck
              /\ \/ s.pc = "created" /\ issues' = CountOne(issues, j)
                 \/ s.pc = "failed" /\ issues' = issues
           \/ /\ faults' = faults + 1 /\ faults < MaxFaults
              /\ \/ s = Resting
                 \/ s.pc = "failed" /\ s.item = j /\ s.lote = r.lote /\ s.stuck = r.stuck
    PROVE  IInv'
<1>1. TypeOK /\ RowsOK /\ CountOK /\ RunsOK /\ Paid /\ Recorded
  BY DEF IInv, TypeOK
<1>2. CallOK(r) /\ j \in DOMAIN r.lote /\ j \in Items /\ r.lote[j] \in Nat /\ r.stuck = {}
  BY <1>1, InHand DEF InHandPc
<1>3. /\ attempts' \in [Items -> Nat] /\ attempts[j] <= attempts'[j] /\ attempts'[j] <= attempts[j] + 1
      /\ \A i \in Items : i # j => attempts'[i] = attempts[i]
      /\ attempts'[j] = attempts[j] + 1
  BY <1>1, <1>2, CountOneFacts, AttemptsBelowLimit DEF CountOK
<1>4. /\ issues' \in [Items -> Nat] /\ issues[j] <= issues'[j] /\ issues'[j] <= issues[j] + 1
      /\ \A i \in Items : i # j => issues'[i] = issues[i]
      /\ s.pc = "created" => issues'[j] > 0
  <2>1. issues \in [Items -> Nat] BY <1>1 DEF CountOK
  <2>2. PICK g : g = CountOne(issues, j) OBVIOUS
  <2>3. /\ g \in [Items -> Nat] /\ g[j] > 0 /\ issues[j] <= g[j] /\ g[j] <= issues[j] + 1
        /\ \A i \in Items : i # j => g[i] = issues[i]
    BY <1>2, <2>1, <2>2, CountOneFacts
  <2>4. s = Resting => s.pc # "created" BY RestingIdle
  <2>5. issues[j] \in Nat BY <1>2, <2>1
  <2> QED BY <2>1, <2>2, <2>3, <2>4, <2>5
<1>5. CountOK' BY <1>1, <1>3, <1>4, RedmineAssumption DEF CountOK
<1>6. \A i \in s.stuck \cup DOMAIN s.lote : fila[i] # None
  BY <1>1, RestingIdle DEF TypeOK, KnownRows
<1>7. TypeOK' BY <1>1, <1>5, <1>6, RowsKept, RunTyped
<1>8. /\ \A i \in Items : (Threat(s, i) => Threat(r, i)) /\ \A n \in Nat : Holds(s, i, n) => Holds(r, i, n)
      /\ faults' = faults => \A i \in Items : i # j => Entitled(r, s, i)
      /\ Threat(r, j) /\ Ahead(r, j) /\ ~Asked(r, j) /\ ~Created(r, j) /\ ~Ahead(s, j)
      /\ faults' = faults => Asked(s, j)
      /\ s.pc = "created" => Created(s, j) /\ ~Failed(s, j)
      /\ s.pc = "failed" => Failed(s, j)
  <2>1. CASE /\ s.item = j /\ s.lote = r.lote /\ s.stuck = r.stuck
             /\ s.pc \in {"created", "failed"}
    BY <1>2, <2>1 DEF Threat, Holds, Entitled, Ahead, Asked, Created, Failed
  <2>2. CASE faults' = faults + 1 /\ s = Resting
    <3>1. faults' # faults BY <1>1, <2>2 DEF CountOK
    <3>2. Threat(r, j) /\ Ahead(r, j) /\ ~Asked(r, j) /\ ~Created(r, j)
      BY <1>2 DEF Threat, Ahead, Asked, Created
    <3>3. /\ \A i : ~Threat(s, i) /\ ~Ahead(s, i) /\ ~Failed(s, i) /\ \A n : ~Holds(s, i, n)
          /\ s.pc = "idle"
      BY <2>2, RestingIdle
    <3> QED BY <3>1, <3>2, <3>3
  <2> QED BY <2>1, <2>2
<1>9. ASSUME NEW i \in Items, i # j PROVE AttemptsPaid(i)' /\ IssuesPaid(i)'
  <2>1. AttemptsPaid(i) /\ IssuesPaid(i) BY <1>1 DEF Paid
  <2>2. RetryOf(i)' = RetryOf(i) /\ Settled(i)' = Settled(i) BY RowSame
  <2>3. attempts'[i] = attempts[i] /\ issues'[i] = issues[i] BY <1>3, <1>4, <1>9
  <2>4. \/ faults' = faults /\ Entitled(r, s, i)
        \/ faults' = faults + 1
    BY <1>8, <1>9
  <2>5. /\ Threat(s, i) => Threat(r, i)
        /\ \A n \in Nat : Holds(s, i, n) => Holds(r, i, n)
    BY <1>8
  <2> QED BY <1>1, <1>7, <2>1, <2>2, <2>3, <2>4, <2>5, PaidItem DEF Entitled
<1>10. AttemptsPaid(j)' /\ IssuesPaid(j)'
  <2>1. AttemptsPaid(j) /\ IssuesPaid(j) BY <1>1, <1>2 DEF Paid
  <2>2. RetryOf(j)' = RetryOf(j) BY RowSame
  <2>3. PICK p : p = Cardinality(AheadOf(j)) OBVIOUS
  <2>4. PICK pp : pp = Cardinality(AheadOf(j))' OBVIOUS
  <2>5. PICK q : q = Cardinality(PendingOf(j)) OBVIOUS
  <2>6. PICK qq : qq = Cardinality(PendingOf(j))' OBVIOUS
  <2>7. p \in Nat /\ q \in Nat /\ pp \in Nat /\ qq \in Nat /\ pp + 1 = p
        /\ (Failed(s, j) => qq = q) /\ (~Failed(s, j) => qq + 1 = q)
    BY <1>1, <1>8, <2>3, <2>4, <2>5, <2>6, AheadMoves
  <2>8. PICK c \in Nat : c = attempts[j] BY <1>1, <1>2 DEF CountOK
  <2>9. PICK cc \in Nat : cc = attempts'[j] /\ cc <= c + 1 BY <1>2, <1>3, <2>8
  <2>10. PICK d \in Nat : d = issues[j] BY <1>1, <1>2 DEF CountOK
  <2>11. PICK dd \in Nat : dd = issues'[j] /\ dd <= d + 1 BY <1>2, <1>4, <2>10
  <2>12. ~Quiet(j) BY <1>1, <1>8, KindsMove DEF Quiet
  <2>13. /\ \A n \in Nat : HeldCount(j, n)' => HeldCount(j, n)
         /\ Asked(s, j) => ~NoneAsked(j)'
         /\ Created(s, j) => ~NoneCreated(j)'
         /\ NoneCreated(j)' => NoneCreated(j)
    <3>1. \A n \in Nat : HeldCount(j, n)' => HeldCount(j, n) BY <1>1, <1>2, <1>8, KindsMove
    <3>2. /\ Asked(s, j) => ~NoneAsked(j)'
          /\ Created(s, j) => ~NoneCreated(j)'
          /\ NoneCreated(j)' => NoneCreated(j)
      BY <1>1, <1>2, <1>8, KindsMove
    <3> QED BY <3>1, <3>2
  <2>14. \/ /\ faults' = faults /\ cc + pp <= c + p
            /\ (~Quiet(j)' /\ NoneAsked(j)') => (pp >= 1 \/ (NoneAsked(j) /\ cc = c))
         \/ faults' = faults + 1 /\ cc + pp <= c + p + 1 /\ cc <= c + p
    BY <1>8, <2>7, <2>9, <2>13
  <2>15. AttemptsPaid(j)'
    BY <1>1, <1>2, <1>5, <2>1, <2>2, <2>3, <2>4, <2>8, <2>9, <2>12, <2>13, <2>14, AttemptsStep
  <2>16. \/ /\ faults' = faults /\ dd + qq <= d + q
            /\ (~Quiet(j)' /\ NoneCreated(j)') => (qq >= 1 \/ (NoneCreated(j) /\ dd = d))
         \/ faults' = faults + 1 /\ dd + qq <= d + q + 1 /\ dd <= d + q
    <3>1. CASE faults' = faults /\ s.pc = "created"
      BY <1>8, <2>7, <2>11, <2>13, <3>1
    <3>2. CASE faults' = faults /\ s.pc = "failed" /\ issues' = issues
      <4>1. dd = d BY <2>10, <2>11, <3>2
      <4> QED BY <1>8, <2>7, <2>13, <3>2, <4>1
    <3>3. CASE faults' = faults + 1
      <4>1. w \in PendingOf(j) /\ PendingOf(j) \subseteq Runs BY <1>8 DEF PendingOf
      <4>2. q >= 1 BY <2>5, <4>1, FiniteRuns
      <4> QED BY <2>7, <2>11, <3>3, <4>2
    <3> QED BY <3>1, <3>2, <3>3
  <2>17. IssuesPaid(j)'
    BY <1>1, <1>2, <1>5, <2>1, <2>5, <2>6, <2>10, <2>11, <2>12, <2>16, IssuesStep
  <2> QED BY <2>15, <2>17
<1>11. Paid' BY <1>9, <1>10 DEF Paid
<1>12. \A i \in Items : attempts[i] <= attempts'[i] /\ issues[i] <= issues'[i]
  <2>1. \A i \in Items : attempts[i] \in Nat /\ issues[i] \in Nat BY <1>1 DEF CountOK
  <2> QED BY <1>3, <1>4, <2>1
<1>13. CallRecord(s)'
  <2>1. CallRecord(r) BY <1>1 DEF Recorded, CallRecord
  <2>2. CASE s = Resting BY <2>2, RestingIdle DEF CallRecord
  <2>3. CASE s.item = j /\ s.lote = r.lote /\ s.pc \in {"created", "failed"}
    <3>1. \A i \in DOMAIN r.lote : r.lote[i] \in Nat /\ i \in Items BY <1>2 DEF CallOK
    <3>2. \A i \in Items : attempts[i] \in Nat /\ attempts'[i] \in Nat BY <1>1, <1>3 DEF CountOK
    <3>3. \A i \in DOMAIN r.lote : r.lote[i] <= attempts'[i]
      BY <2>1, <3>1, <3>2, <1>12 DEF CallRecord
    <3>4. r.lote[j] + 1 <= attempts'[j] BY <1>2, <1>3, <2>1, <3>2 DEF CallRecord
    <3> QED BY <1>4, <2>3, <3>3, <3>4 DEF CallRecord
  <2> QED BY <2>2, <2>3
<1>14. Recorded' BY <1>1, <1>7, <1>12, <1>13, RecordedMove
<1> QED BY <1>7, <1>11, <1>14 DEF IInv


LEMMA CriarIssueKeeps == ASSUME IInv, NEW w \in Runs, CriarIssue(w) PROVE IInv'
<1>1. PICK r : r = run[w] OBVIOUS
<1>2. PICK j : j = r.item OBVIOUS
<1>3. TypeOK /\ r.pc = "create" /\ attempts' = CountOne(attempts, j) /\ UNCHANGED <<fila, agile, faults>>
  BY <1>1, <1>2 DEF IInv, CriarIssue, At
<1>4. CASE IssueCriada(w)
  <2>1. PICK s : /\ Moves(w, s) /\ CallOK(s) /\ s.pc = "created" /\ s.item = r.item
                 /\ s.lote = r.lote /\ s.stuck = r.stuck
    BY <1>1, <1>3, <1>4, GotoShape DEF InHandPc, IssueCriada
  <2>2. faults' = faults /\ issues' = CountOne(issues, j) BY <1>1, <1>2, <1>3, <1>4 DEF IssueCriada
  <2> QED BY <1>1, <1>2, <1>3, <2>1, <2>2, AskMoves
<1>5. CASE IssueRecusada(w)
  <2>1. PICK s : /\ Moves(w, s) /\ CallOK(s) /\ s.pc = "failed" /\ s.item = r.item
                 /\ s.lote = r.lote /\ s.stuck = r.stuck
    BY <1>1, <1>3, <1>5, GotoShape DEF InHandPc, IssueRecusada
  <2>2. faults' = faults /\ issues' = issues BY <1>3, <1>5 DEF IssueRecusada
  <2> QED BY <1>1, <1>2, <1>3, <2>1, <2>2, AskMoves
<1> QED BY <1>4, <1>5 DEF CriarIssue

LEMMA RespostaPerdidaKeeps == ASSUME IInv, NEW w \in Runs, RespostaPerdida(w) PROVE IInv'
<1>1. PICK r : r = run[w] OBVIOUS
<1>2. PICK j : j = r.item OBVIOUS
<1>3. /\ r.pc = "create" /\ attempts' = CountOne(attempts, j) /\ UNCHANGED <<fila, agile>>
      /\ issues' \in {issues, CountOne(issues, j)}
      /\ faults' = faults + 1 /\ faults < MaxFaults
      /\ Moves(w, Resting) \/ Goto(w, "failed")
  BY <1>1, <1>2 DEF RespostaPerdida, At, Fault, Moves
<1>4. CASE Moves(w, Resting) BY <1>1, <1>2, <1>3, <1>4, RestingOK, AskMoves
<1>5. CASE Goto(w, "failed")
  <2>1. TypeOK BY DEF IInv
  <2>2. PICK s : /\ Moves(w, s) /\ CallOK(s) /\ s.pc = "failed" /\ s.item = r.item
                 /\ s.lote = r.lote /\ s.stuck = r.stuck
    BY <1>1, <1>3, <1>5, <2>1, GotoShape DEF InHandPc
  <2> QED BY <1>1, <1>2, <1>3, <2>2, AskMoves
<1> QED BY <1>3, <1>4, <1>5

-----------------------------------------------------------------------------
\* A row that is added or grows old: no call moves.
LEMMA CallsSame ==
    ASSUME run' = run, NEW i
    PROVE  /\ Cardinality(AheadOf(i))' = Cardinality(AheadOf(i))
           /\ Cardinality(PendingOf(i))' = Cardinality(PendingOf(i))
           /\ NoneAsked(i)' <=> NoneAsked(i)
           /\ NoneCreated(i)' <=> NoneCreated(i)
           /\ Calm(i)' <=> Calm(i)
           /\ \A n : HeldCount(i, n)' <=> HeldCount(i, n)
<1>1. PICK S : S = run OBVIOUS
<1>2. S = run' BY <1>1
<1>3. AheadOf(i) = AheadNow(S, i) /\ PendingOf(i) = PendingNow(S, i)
  BY <1>1, AheadNext
<1>4. AheadOf(i)' = AheadNow(S, i) /\ PendingOf(i)' = PendingNow(S, i)
  BY <1>2, AheadNext
<1>5. /\ NoneAsked(i)' <=> \A v \in Runs : ~Asked(S[v], i)
      /\ NoneCreated(i)' <=> \A v \in Runs : ~Created(S[v], i)
      /\ \A n : HeldCount(i, n)' <=> \E v \in Runs : Holds(S[v], i, n)
      /\ Calm(i)' <=> \A v \in Runs : ~Threat(S[v], i)
  BY <1>2 DEF NoneAsked, NoneCreated, HeldCount, Calm, Asked, Created, Holds, Threat
<1>6. /\ NoneAsked(i) <=> \A v \in Runs : ~Asked(S[v], i)
      /\ NoneCreated(i) <=> \A v \in Runs : ~Created(S[v], i)
      /\ \A n : HeldCount(i, n) <=> \E v \in Runs : Holds(S[v], i, n)
      /\ Calm(i) <=> \A v \in Runs : ~Threat(S[v], i)
  BY <1>1 DEF NoneAsked, NoneCreated, HeldCount, Calm
<1> QED BY <1>3, <1>4, <1>5, <1>6

LEMMA RowOnly ==
    ASSUME IInv, UNCHANGED <<agile, issues, run, attempts>>,
           NEW j \in Items, NEW x \in Row, fila' = [fila EXCEPT ![j] = x],
           x.status \notin {"SENT", "ERROR"}, ~Settled(j), x.retry = RetryOf(j),
           \/ faults' = faults
           \/ faults' = faults + 1 /\ faults < MaxFaults
    PROVE  IInv'
<1>1. TypeOK /\ RowsOK /\ CountOK /\ RunsOK /\ KnownRows /\ Paid /\ Recorded
  BY DEF IInv, TypeOK
<1>2. /\ RowsOK' /\ fila'[j] = x /\ fila'[j] # None
      /\ \A i \in Items : i # j => fila'[i] = fila[i]
      /\ \A i \in Items : fila[i] # None => fila'[i] # None
  BY <1>1, RowWritten
<1>3. CountOK' BY <1>1, RedmineAssumption DEF CountOK
<1>4. RunsOK'
  <2>1. ASSUME NEW v \in Runs PROVE CallOK(run[v])'
    <3>1. PICK t : t = run[v] OBVIOUS
    <3>2. run'[v] = t BY <3>1
    <3>3. CallOK(t) BY <1>1, <3>1 DEF RunsOK
    <3> QED BY <3>2, <3>3, Zenon DEF CallOK
  <2> QED BY <1>1, <2>1 DEF RunsOK
<1>5. KnownRows'
  <2>1. ASSUME NEW v \in Runs, NEW i \in run[v].stuck \cup DOMAIN run[v].lote PROVE fila'[i] # None
    <3>1. i \in Items BY <1>1, <2>1 DEF RunsOK, CallOK
    <3>2. fila[i] # None BY <1>1, <2>1 DEF KnownRows
    <3> QED BY <1>2, <3>1, <3>2
  <2> QED BY <2>1 DEF KnownRows
<1>6. TypeOK' BY <1>2, <1>3, <1>4, <1>5 DEF TypeOK
<1>7. ~Settled(j)' /\ RetryOf(j)' = RetryOf(j) BY <1>2 DEF Settled, Is, RetryOf
<1>8. ASSUME NEW i \in Items PROVE RetryOf(i)' = RetryOf(i) /\ (Settled(i)' <=> Settled(i))
  BY <1>2, <1>7, RowSame
<1>9. Paid'
  <2> SUFFICES ASSUME NEW i \in Items PROVE AttemptsPaid(i)' /\ IssuesPaid(i)'
    BY DEF Paid
  <2>1. AttemptsPaid(i) /\ IssuesPaid(i) BY <1>1 DEF Paid
  <2>2. PICK p : p = Cardinality(AheadOf(i)) OBVIOUS
  <2>3. PICK q : q = Cardinality(PendingOf(i)) OBVIOUS
  <2>4. p = Cardinality(AheadOf(i))' /\ q = Cardinality(PendingOf(i))'
    BY <2>2, <2>3, CallsSame
  <2>5. p \in Nat /\ q \in Nat BY <2>2, <2>3, CountsTyped
  <2>6. /\ NoneAsked(i)' <=> NoneAsked(i)
        /\ NoneCreated(i)' <=> NoneCreated(i)
        /\ \A n : HeldCount(i, n)' <=> HeldCount(i, n)
    BY CallsSame
  <2>7. Quiet(i) => Quiet(i)' BY <1>8, CallsSame DEF Quiet
  <2>8. PICK c \in Nat : c = attempts[i] BY <1>1 DEF CountOK
  <2>9. PICK d \in Nat : d = issues[i] BY <1>1 DEF CountOK
  <2>10. c = attempts'[i] /\ d = issues'[i] BY <2>8, <2>9
  <2>11. \/ /\ faults' = faults /\ c + p <= c + p
            /\ (~Quiet(i)' /\ NoneAsked(i)') => (p >= 1 \/ (NoneAsked(i) /\ c = c))
         \/ faults' = faults + 1 /\ c + p <= c + p + 1 /\ c <= c + p
    BY <2>5, <2>6
  <2>12. \/ /\ faults' = faults /\ d + q <= d + q
            /\ (~Quiet(i)' /\ NoneCreated(i)') => (q >= 1 \/ (NoneCreated(i) /\ d = d))
         \/ faults' = faults + 1 /\ d + q <= d + q + 1 /\ d <= d + q
    BY <2>5, <2>6
  <2>13. AttemptsPaid(i)'
    BY <1>1, <1>3, <1>8, <2>1, <2>2, <2>4, <2>6, <2>7, <2>8, <2>10, <2>11, AttemptsStep
  <2>14. IssuesPaid(i)'
    BY <1>1, <1>3, <2>1, <2>3, <2>4, <2>7, <2>9, <2>10, <2>12, IssuesStep
  <2> QED BY <2>13, <2>14
<1>10. Recorded'
  <2>1. ASSUME NEW i \in Items PROVE RowRecord(i)'
    <3>1. RowRecord(i) BY <1>1 DEF Recorded
    <3>2. CASE i = j
      BY <1>2, <1>7, <3>1, <3>2 DEF RowRecord, Is
    <3>3. CASE i # j
      <4>1. fila'[i] = fila[i] BY <1>2, <3>3
      <4> QED BY <3>1, <4>1 DEF RowRecord, Is, RetryOf
    <3> QED BY <3>2, <3>3
  <2>2. ASSUME NEW v \in Runs PROVE CallRecord(run[v])'
    BY <1>1 DEF Recorded, CallRecord
  <2> QED BY <2>1, <2>2 DEF Recorded
<1> QED BY <1>6, <1>9, <1>10 DEF IInv


LEMMA EnfileirarKeeps == ASSUME IInv, NEW i \in Items, Enfileirar(i) PROVE IInv'
<1>1. PICK x : x = [status |-> "PENDING", retry |-> 0, old |-> FALSE] OBVIOUS
<1>2. x \in Row /\ x.status = "PENDING" /\ x.retry = 0 BY <1>1 DEF Row, Status
<1>3. fila[i] = None /\ fila' = [fila EXCEPT ![i] = x] /\ UNCHANGED <<agile, issues, run, attempts, faults>>
  BY <1>1 DEF Enfileirar
<1>4. ~Settled(i) /\ RetryOf(i) = 0 BY <1>3 DEF Settled, Is, RetryOf
<1> QED BY <1>2, <1>3, <1>4, RowOnly

LEMMA GrowsOld ==
    ASSUME IInv, NEW i \in Items, Is(i, "PROCESSING"), fila' = [fila EXCEPT ![i].old = TRUE],
           UNCHANGED <<agile, issues, run, attempts>>,
           \/ faults' = faults
           \/ faults' = faults + 1 /\ faults < MaxFaults
    PROVE  IInv'
<1>1. PICK y : y = fila[i] OBVIOUS
<1>2. y \in Row /\ y.status = "PROCESSING" /\ y.retry = RetryOf(i) /\ ~Settled(i)
  BY <1>1 DEF IInv, TypeOK, RowsOK, Is, RetryOf, Settled
<1>3. PICK x : x = [y EXCEPT !.old = TRUE] OBVIOUS
<1>4. x \in Row /\ x.status = "PROCESSING" /\ x.retry = y.retry BY <1>2, <1>3 DEF Row, Status
<1>5. fila' = [fila EXCEPT ![i] = x] BY <1>1, <1>3
<1> QED BY <1>2, <1>4, <1>5, RowOnly

LEMMA TimeKeeps == ASSUME IInv, NEW i \in Items, Envelhecer(i) \/ Demorar(i) PROVE IInv'
BY GrowsOld DEF Envelhecer, Demorar, Fault

-----------------------------------------------------------------------------
LEMMA InitKeeps == ASSUME Init PROVE IInv
<1>1. \A w \in Runs : run[w] = Resting BY DEF Init
<1>2. TypeOK
  <2>1. RunsOK BY <1>1, RestingOK DEF Init, RunsOK
  <2>2. KnownRows BY <1>1, RestingIdle DEF KnownRows
  <2> QED BY <2>1, <2>2, RedmineAssumption DEF Init, TypeOK, RowsOK, CountOK
<1>3. ASSUME NEW i \in Items PROVE AttemptsPaid(i) /\ IssuesPaid(i)
  <2>1. AheadOf(i) = {} /\ PendingOf(i) = {} BY <1>1, RestingIdle DEF AheadOf, PendingOf
  <2>2. Cardinality(AheadOf(i)) = 0 /\ Cardinality(PendingOf(i)) = 0 BY <2>1, FS_EmptySet
  <2>3. \A n : ~HeldCount(i, n) BY <1>1, RestingIdle DEF HeldCount
  <2>4. ~Quiet(i) /\ RetryOf(i) = 0 BY <1>3 DEF Init, Quiet, Settled, Is, RetryOf
  <2>5. attempts[i] = 0 /\ issues[i] = 0 /\ faults = 0 BY <1>3 DEF Init
  <2> QED BY <2>2, <2>3, <2>4, <2>5, RedmineAssumption DEF AttemptsPaid, IssuesPaid, AttemptsWithin
<1>4. Recorded
  <2>1. \A i \in Items : RowRecord(i) BY DEF Init, RowRecord, RetryOf, Is
  <2>2. \A w \in Runs : CallRecord(run[w]) BY <1>1, RestingIdle DEF CallRecord
  <2> QED BY <2>1, <2>2 DEF Recorded
<1> QED BY <1>2, <1>3, <1>4 DEF IInv, Paid

LEMMA StutterKeeps == ASSUME IInv, UNCHANGED vars PROVE IInv'
<1>1. UNCHANGED <<fila, agile, issues, run, attempts, faults>> BY DEF vars
<1>2. TypeOK'
  <2>1. ASSUME NEW v \in Runs PROVE CallOK(run[v])'
    <3>1. PICK t : t = run[v] OBVIOUS
    <3>2. run'[v] = t BY <1>1, <3>1
    <3>3. CallOK(t) BY <3>1 DEF IInv, TypeOK, RunsOK
    <3> QED BY <3>2, <3>3, Zenon DEF CallOK
  <2>2. RunsOK' BY <1>1, <2>1 DEF IInv, TypeOK, RunsOK
  <2> QED BY <1>1, <2>2 DEF IInv, TypeOK, RowsOK, CountOK, KnownRows
<1>3. Paid'
  <2> SUFFICES ASSUME NEW i \in Items PROVE AttemptsPaid(i)' /\ IssuesPaid(i)'
    BY DEF Paid
  <2>1. AttemptsPaid(i) /\ IssuesPaid(i) BY DEF IInv, Paid
  <2>2. /\ Cardinality(AheadOf(i))' = Cardinality(AheadOf(i))
        /\ Cardinality(PendingOf(i))' = Cardinality(PendingOf(i))
        /\ NoneAsked(i)' <=> NoneAsked(i)
        /\ NoneCreated(i)' <=> NoneCreated(i)
        /\ Calm(i)' <=> Calm(i)
        /\ \A n : HeldCount(i, n)' <=> HeldCount(i, n)
    BY <1>1, CallsSame
  <2>3. RetryOf(i)' = RetryOf(i) /\ (Settled(i)' <=> Settled(i)) BY <1>1, RowSame
  <2>4. Quiet(i)' <=> Quiet(i) BY <2>2, <2>3 DEF Quiet
  <2>5. \A n : AttemptsWithin(i, n)' <=> AttemptsWithin(i, n) BY <1>1, <2>2 DEF AttemptsWithin
  <2>6. AttemptsPaid(i)'
    <3>1. PICK rho : rho = RetryOf(i) OBVIOUS
    <3>2. RetryOf(i)' = rho BY <3>1, <2>3
    <3>3. AttemptsWithin(i, RetryOf(i) + 1)' <=> AttemptsWithin(i, RetryOf(i) + 1)
      BY <1>1, <2>2, <3>1, <3>2 DEF AttemptsWithin
    <3> QED BY <1>1, <2>1, <2>2, <2>4, <2>5, <3>3 DEF AttemptsPaid
  <2>7. IssuesPaid(i)' BY <1>1, <2>1, <2>2, <2>4 DEF IssuesPaid
  <2> QED BY <2>6, <2>7
<1>4. Recorded' BY <1>1 DEF IInv, Recorded, RowRecord, CallRecord, RetryOf, Is
<1> QED BY <1>2, <1>3, <1>4 DEF IInv

LEMMA NextKeeps == ASSUME IInv, [Next]_vars PROVE IInv'
<1>1. CASE UNCHANGED vars BY <1>1, StutterKeeps
<1>2. ASSUME NEW i \in Items, Enfileirar(i) \/ Envelhecer(i) \/ Demorar(i) PROVE IInv'
  BY <1>2, EnfileirarKeeps, TimeKeeps
<1>3. ASSUME NEW w \in Runs, Processar(w) PROVE IInv'
  <2>1. CASE ListarTravadas(w) BY <2>1, ListarTravadasKeeps
  <2>2. CASE ListarPendentes(w) BY <2>2, ListarPendentesKeeps
  <2>3. CASE CriarIssue(w) BY <2>3, CriarIssueKeeps
  <2>4. CASE MarcarEnviado(w) BY <2>4, EnviadoKeeps
  <2>5. CASE MarcarFalha(w) BY <2>5, FalhaKeeps
  <2>6. CASE MarcarSoStatus(w) BY <2>6, SoStatusKeeps
  <2>7. CASE AtualizarAgilesync(w) BY <2>7, AgilesyncKeeps
  <2>8. CASE Terminar(w) BY <2>8, TerminarKeeps
  <2>9. ASSUME NEW i \in Items, LiberarReserva(w, i) PROVE IInv' BY <2>9, LiberarKeeps
  <2>10. ASSUME NEW i \in Items, Reservar(w, i) PROVE IInv' BY <2>10, ReservarKeeps
  <2> QED BY <1>3, <2>1, <2>2, <2>3, <2>4, <2>5, <2>6, <2>7, <2>8, <2>9, <2>10 DEF Processar
<1>4. ASSUME NEW w \in Runs, ErroDataverse(w) PROVE IInv' BY <1>4, ErroDataverseKeeps
<1>5. ASSUME NEW w \in Runs, RespostaPerdida(w) PROVE IInv' BY <1>5, RespostaPerdidaKeeps
<1>6. ASSUME NEW w \in Runs, Crash(w) PROVE IInv' BY <1>6, CrashKeeps
<1>7. ASSUME NEW w \in Runs, NEW i \in Items, ErroDataverseItem(w, i) PROVE IInv'
  BY <1>7, ErroDataverseItemKeeps
<1> QED BY <1>1, <1>2, <1>3, <1>4, <1>5, <1>6, <1>7 DEF Next

LEMMA RedmineInductive == Spec => []IInv
<1>1. Init => IInv BY InitKeeps
<1>2. IInv /\ [Next]_vars => IInv' BY NextKeeps
<1> QED BY <1>1, <1>2, PTL DEF Spec

\* Every call of processar_fila_redmine works on rows that exist, holds the
\* count of each item of its lot, and has an item in hand exactly where the code
\* has one, whatever calls overlap, end or fail.
THEOREM RedmineTyped == Spec => []TypeOK
<1>1. IInv => TypeOK BY DEF IInv
<1> QED BY <1>1, RedmineInductive, PTL

-----------------------------------------------------------------------------
(***************************************************************************)
(* The planner.  Without faults one call works at a time.  No row of its   *)
(* lot says SENT but the one in hand, once it is marked, so that no row    *)
(* ever loses what the planner shows of it; and the planner lacks only     *)
(* what the call at work is about to write.                                *)
(***************************************************************************)
Alone == \A v, w \in Runs : v # w => At(v, "idle") \/ At(w, "idle")
CallShows(r) ==
    /\ r.pc # "fallback"
    /\ r.pc = "synced" => Is(r.item, "SENT")
    /\ r.pc = "unsynced" => ~Is(r.item, "SENT") /\ RetryOf(r.item) > 0
    /\ \A i \in r.stuck \cup DOMAIN r.lote : Is(i, "SENT") => (r.pc = "synced" /\ r.item = i)
TellsOf(r, c) == r.pc \in {"synced", "unsynced"} /\ agile.row[r.item] = c
Planner ==
    faults = 0 =>
        /\ Alone
        /\ \A w \in Runs : CallShows(run[w])
        /\ \A c \in AgileRows : PlannerShows(c) \/ \E w \in Runs : TellsOf(run[w], c)

\* What a row of the planner shows depends on the rows of the items that find it.
LEMMA ShowsKept ==
    ASSUME NEW c, agile' = agile, PlannerShows(c),
           \A i \in Items : agile.row[i] = c =>
               /\ Is(i, "SENT")' <=> Is(i, "SENT")
               /\ Is(i, "ERROR")' => Is(i, "ERROR")
               /\ RetryOf(i) > 0 => RetryOf(i)' > 0
    PROVE  PlannerShows(c)'
<1>1. \A i \in Items : (fila[i] # None /\ fila[i].retry > 0) <=> RetryOf(i) > 0
  BY DEF RetryOf
<1>2. \A i \in Items : (fila'[i] # None /\ fila'[i].retry > 0) <=> RetryOf(i)' > 0
  BY DEF RetryOf
<1>3. agile.status[c] = "SYNCED" => \E i \in Items : agile'.row[i] = c /\ Is(i, "SENT")'
  BY DEF PlannerShows
<1>4. agile.status[c] = "ERROR" =>
          \E i \in Items : /\ agile'.row[i] = c
                           /\ fila'[i] # None /\ fila'[i].retry > 0 /\ ~Is(i, "SENT")'
  BY <1>1, <1>2 DEF PlannerShows
<1>5. agile.status[c] = "-" =>
          \A i \in Items : agile'.row[i] = c => ~Is(i, "SENT")' /\ ~Is(i, "ERROR")'
  BY DEF PlannerShows
<1> QED BY <1>3, <1>4, <1>5 DEF PlannerShows

\* What is known where one call is at work, or none.
LEMMA PlannerKnows ==
    ASSUME TypeOK, Planner, faults = 0, NEW w \in Runs, NEW r, r = run[w],
           r.pc # "idle" \/ \A v \in Runs : At(v, "idle")
    PROVE  /\ CallShows(r)
           /\ \A v \in Runs : v # w => run[v].pc = "idle"
           /\ \A c \in AgileRows : PlannerShows(c) \/ TellsOf(r, c)
<1>1. \A v \in Runs : v # w => run[v].pc = "idle" BY DEF Planner, Alone, At
<1>2. CallShows(r) BY DEF Planner
<1>3. ASSUME NEW c \in AgileRows PROVE PlannerShows(c) \/ TellsOf(r, c)
  <2>1. ASSUME NEW v \in Runs, TellsOf(run[v], c) PROVE TellsOf(r, c)
    BY <1>1, <2>1 DEF TellsOf
  <2> QED BY <2>1 DEF Planner
<1> QED BY <1>1, <1>2, <1>3

\* It is enough to look at the call that moves.
LEMMA PlannerStep ==
    ASSUME TypeOK, Planner, faults = 0, faults' = faults, NEW w \in Runs, NEW r, r = run[w],
           r.pc # "idle" \/ \A v \in Runs : At(v, "idle"),
           NEW s, Moves(w, s), CallShows(s)',
           \A c \in AgileRows : PlannerShows(c)' \/ TellsOf(s, c)'
    PROVE  Planner'
<1>1. PICK S : S = run' OBVIOUS
<1>2. S[w] = s /\ \A v \in Runs : v # w => S[v] = run[v]
  BY <1>1, MovesFacts DEF TypeOK
<1>3. \A v \in Runs : v # w => run[v].pc = "idle" BY PlannerKnows
<1>4. \A v \in Runs : v # w => S[v].pc = "idle" BY <1>2, <1>3
<1>5. Alone' BY <1>1, <1>4 DEF Alone, At
<1>6. ASSUME NEW v \in Runs PROVE CallShows(run[v])'
  <2>1. PICK t : t = S[v] OBVIOUS
  <2>2. run'[v] = t BY <1>1, <2>1
  <2>3. CASE v = w
    <3>1. t = s BY <1>2, <2>1, <2>3
    <3>2. CallShows(t)' BY <3>1
    <3> QED BY <2>2, <3>2 DEF CallShows
  <2>4. CASE v # w
    <3>1. t = run[v] /\ t.pc = "idle" BY <1>2, <1>3, <2>1, <2>4
    <3>2. CallOK(t) BY <3>1 DEF TypeOK, RunsOK
    <3>3. t.stuck = {} /\ DOMAIN t.lote = {} BY <3>1, <3>2 DEF CallOK
    <3> QED BY <2>2, <3>1, <3>3 DEF CallShows
  <2> QED BY <2>3, <2>4
<1>7. ASSUME NEW c \in AgileRows PROVE PlannerShows(c)' \/ (\E v \in Runs : TellsOf(run[v], c))'
  <2>1. CASE TellsOf(s, c)'
    <3>1. run'[w] = s BY <1>1, <1>2
    <3>2. TellsOf(run[w], c)' BY <2>1, <3>1 DEF TellsOf
    <3> QED BY <3>2
  <2> QED BY <2>1
<1> QED BY <1>5, <1>6, <1>7 DEF Planner

\* A call that moves without writing anything, when it had nothing to tell.
LEMMA PlannerMove ==
    ASSUME TypeOK, Planner, faults = 0, faults' = faults, NEW w \in Runs, NEW r, r = run[w],
           r.pc # "idle" \/ \A v \in Runs : At(v, "idle"), r.pc \notin {"synced", "unsynced"},
           NEW s, Moves(w, s), UNCHANGED <<fila, agile>>,
           s.pc \notin {"fallback", "synced", "unsynced"},
           \A i \in s.stuck \cup DOMAIN s.lote : ~Is(i, "SENT")
    PROVE  Planner'
<1>1. ASSUME NEW c \in AgileRows PROVE PlannerShows(c)'
  <2>1. PlannerShows(c) BY PlannerKnows DEF TellsOf
  <2>2. \A i \in Items : /\ RetryOf(i)' = RetryOf(i) /\ (Is(i, "SENT")' <=> Is(i, "SENT"))
                         /\ (Is(i, "ERROR")' <=> Is(i, "ERROR"))
    BY DEF RetryOf, Is
  <2> QED BY <2>1, <2>2, ShowsKept
<1>2. CallShows(s)' BY DEF CallShows, Is
<1> QED BY <1>1, <1>2, PlannerStep

\* A call that writes the row of one item: nothing changes for the others.
LEMMA PlannerWrites ==
    ASSUME TypeOK, Planner, faults = 0, faults' = faults, NEW w \in Runs, NEW r, r = run[w],
           r.pc \notin {"idle", "synced", "unsynced"},
           NEW s, Moves(w, s), s.stuck \subseteq r.stuck, s.lote = r.lote, agile' = agile,
           NEW j \in Items, NEW x \in Row, fila' = [fila EXCEPT ![j] = x], j \in r.stuck \cup DOMAIN r.lote,
           \/ /\ s.pc \notin {"fallback", "synced", "unsynced"}
              /\ x.status \notin {"SENT", "ERROR"} /\ x.retry = RetryOf(j)
           \/ s.pc = "synced" /\ s.item = j /\ x.status = "SENT"
           \/ s.pc = "unsynced" /\ s.item = j /\ x.status # "SENT" /\ x.retry > 0
    PROVE  Planner'
<1>1. /\ fila'[j] = x /\ fila'[j] # None
      /\ \A i \in Items : i # j => fila'[i] = fila[i]
  BY RowWritten DEF TypeOK
<1>2. /\ Is(j, "SENT")' <=> x.status = "SENT"
      /\ Is(j, "ERROR")' <=> x.status = "ERROR"
      /\ RetryOf(j)' = x.retry
  BY <1>1 DEF Is, RetryOf
<1>3. CallShows(r) /\ CallOK(r) BY PlannerKnows DEF TypeOK, RunsOK
<1>4. \A i \in r.stuck \cup DOMAIN r.lote : i \in Items /\ ~Is(i, "SENT")
  BY <1>3 DEF CallShows, CallOK
<1>5. \A i \in Items : i # j => /\ RetryOf(i)' = RetryOf(i) /\ (Is(i, "SENT")' <=> Is(i, "SENT"))
                                /\ (Is(i, "ERROR")' <=> Is(i, "ERROR"))
  BY <1>1 DEF RetryOf, Is
<1>6. CallShows(s)'
  <2>1. \A i \in s.stuck \cup DOMAIN s.lote : Is(i, "SENT")' => (s.pc = "synced" /\ s.item = i)
    BY <1>2, <1>4, <1>5
  <2>2. /\ s.pc # "fallback"
        /\ s.pc = "synced" => Is(s.item, "SENT")'
        /\ s.pc = "unsynced" => ~Is(s.item, "SENT")' /\ RetryOf(s.item)' > 0
    <3>1. s.pc # "fallback" OBVIOUS
    <3>2. CASE s.item = j BY <1>2, <3>2
    <3>3. CASE s.item # j BY <3>3
    <3> QED BY <3>1, <3>2, <3>3
  <2> QED BY <2>1, <2>2 DEF CallShows
<1>7. ASSUME NEW c \in AgileRows PROVE PlannerShows(c)' \/ TellsOf(s, c)'
  <2>1. PlannerShows(c) BY PlannerKnows DEF TellsOf
  <2>2. CASE agile.row[j] = c /\ s.pc \in {"synced", "unsynced"}
    BY <2>2 DEF TellsOf
  <2>3. CASE agile.row[j] # c BY <1>5, <2>1, <2>3, ShowsKept
  <2>4. CASE s.pc \notin {"synced", "unsynced"}
    <3>1. ~Is(j, "SENT") BY <1>4
    <3>2. ~Is(j, "SENT")' /\ ~Is(j, "ERROR")' /\ RetryOf(j)' = RetryOf(j) BY <1>2, <2>4
    <3> QED BY <1>5, <2>1, <3>1, <3>2, ShowsKept
  <2> QED BY <2>2, <2>3, <2>4
<1> QED BY <1>6, <1>7, PlannerStep

-----------------------------------------------------------------------------
\* The steps of a call, without faults.
LEMMA StartTells ==
    ASSUME TypeOK, Planner, faults = 0, faults' = faults, NEW w \in Runs, ListarTravadas(w)
    PROVE  Planner'
<1>1. PICK r : r = run[w] OBVIOUS
<1>2. r.pc = "idle" /\ UNCHANGED <<fila, agile>> BY <1>1 DEF ListarTravadas, At
<1>3. PICK s : /\ Moves(w, s) /\ CallOK(s) /\ s.pc = "release" /\ DOMAIN s.lote = {} /\ s.item = None
               /\ \A i \in s.stuck : i \in Items /\ Is(i, "PROCESSING")
  BY StartShape
<1>4. \A v \in Runs : At(v, "idle") BY DEF ListarTravadas, Comecar, Fault, TypeOK, CountOK
<1>5. \A i \in s.stuck \cup DOMAIN s.lote : ~Is(i, "SENT") BY <1>3 DEF Is
<1> QED BY <1>1, <1>2, <1>3, <1>4, <1>5, PlannerMove

LEMMA ListTells ==
    ASSUME TypeOK, Planner, faults = 0, NEW w \in Runs, ListarPendentes(w)
    PROVE  Planner'
<1>1. PICK r : r = run[w] OBVIOUS
<1>2. r.pc = "release" /\ UNCHANGED <<fila, agile, faults>> BY <1>1 DEF ListarPendentes, At
<1>3. PICK lot : /\ lot \subseteq {i \in Items : Is(i, "PENDING")}
                 /\ run' = [run EXCEPT ![w] = [Resting EXCEPT !.pc = "batch",
                               !.lote = [i \in lot |-> fila[i].retry]]]
  BY DEF ListarPendentes
<1>4. PICK m : m = [i \in lot |-> fila[i].retry] OBVIOUS
<1>5. PICK s : s = [Resting EXCEPT !.pc = "batch", !.lote = m] OBVIOUS
<1>6. Moves(w, s) BY <1>3, <1>4, <1>5 DEF Moves
<1>7. s.pc = "batch" /\ s.stuck = {} /\ s.lote = m BY <1>5 DEF Resting
<1>8. DOMAIN m = lot BY <1>4
<1>9. \A i \in s.stuck \cup DOMAIN s.lote : ~Is(i, "SENT") BY <1>3, <1>7, <1>8 DEF Is
<1>10. s.pc \notin {"fallback", "synced", "unsynced"} BY <1>7
<1> QED BY <1>1, <1>2, <1>6, <1>9, <1>10, PlannerMove

LEMMA EndTells ==
    ASSUME TypeOK, Planner, faults = 0, NEW w \in Runs, Terminar(w)
    PROVE  Planner'
<1>1. PICK r : r = run[w] OBVIOUS
<1>2. r.pc = "batch" /\ UNCHANGED <<fila, agile, faults>> /\ Moves(w, Resting)
  BY <1>1 DEF Terminar, At, Moves
<1>3. Resting.pc = "idle" /\ Resting.stuck \cup DOMAIN Resting.lote = {} BY RestingIdle
<1>4. Resting.pc \notin {"fallback", "synced", "unsynced"} BY <1>3
<1>5. r.pc \notin {"idle", "synced", "unsynced"} BY <1>2
<1> HIDE DEF Resting
<1> QED BY <1>1, <1>2, <1>3, <1>4, <1>5, PlannerMove

LEMMA AskTells ==
    ASSUME TypeOK, Planner, faults = 0, NEW w \in Runs, CriarIssue(w)
    PROVE  Planner'
<1>1. PICK r : r = run[w] OBVIOUS
<1>2. r.pc = "create" /\ UNCHANGED <<fila, agile, faults>> BY <1>1 DEF CriarIssue, At
<1>3. PICK pc \in {"created", "failed"} : Goto(w, pc) BY DEF CriarIssue, IssueCriada, IssueRecusada
<1>4. PICK s : /\ Moves(w, s) /\ CallOK(s) /\ s.pc = pc /\ s.item = r.item
               /\ s.lote = r.lote /\ s.stuck = r.stuck
  BY <1>1, <1>2, <1>3, GotoShape DEF InHandPc
<1>5. CallShows(r) BY <1>1, <1>2, PlannerKnows
<1>6. \A i \in s.stuck \cup DOMAIN s.lote : ~Is(i, "SENT") BY <1>2, <1>4, <1>5 DEF CallShows
<1> QED BY <1>1, <1>2, <1>3, <1>4, <1>6, PlannerMove

LEMMA LiberarTells ==
    ASSUME TypeOK, Planner, faults = 0, NEW w \in Runs, NEW j \in Items, LiberarReserva(w, j)
    PROVE  Planner'
<1>1. PICK r : r = run[w] OBVIOUS
<1>2. r.pc = "release" /\ j \in r.stuck /\ UNCHANGED <<agile, faults>>
  BY <1>1 DEF LiberarReserva, At
<1>3. PICK T : T = r.stuck \ {j} OBVIOUS
<1>4. PICK s : s = [r EXCEPT !.stuck = T] OBVIOUS
<1>5. Moves(w, s) BY <1>1, <1>3, <1>4 DEF LiberarReserva, Moves
<1>6. CallOK(r) BY <1>1 DEF TypeOK, RunsOK
<1>7. PICK l : l = r.lote OBVIOUS
<1>8. r \in [pc : RunPc, stuck : SUBSET Items, lote : {l}, item : Items \cup {None}]
  BY <1>6, <1>7 DEF CallOK
<1>9. s.stuck = T /\ s.pc = r.pc /\ s.lote = r.lote BY <1>4, <1>8
<1>10. PICK y : y = fila[j] OBVIOUS
<1>11. y \in Row /\ y.retry = RetryOf(j) /\ DOMAIN fila = Items
  BY <1>1, <1>2, <1>10, KnownRow
<1>12. PICK x : x = [y EXCEPT !.status = "PENDING", !.old = FALSE] OBVIOUS
<1>13. fila' = [fila EXCEPT ![j] = x] BY <1>10, <1>11, <1>12 DEF LiberarReserva
<1>14. x \in Row /\ x.status = "PENDING" /\ x.retry = y.retry BY <1>11, <1>12 DEF Row, Status
<1>15. s.stuck \subseteq r.stuck BY <1>3, <1>9
<1>16. /\ r.pc \notin {"idle", "synced", "unsynced"} /\ j \in r.stuck \cup DOMAIN r.lote
       /\ s.pc \notin {"fallback", "synced", "unsynced"} /\ x.status \notin {"SENT", "ERROR"}
       /\ x.retry = RetryOf(j) /\ faults' = faults /\ agile' = agile
  BY <1>2, <1>9, <1>11, <1>14
<1> QED BY <1>1, <1>5, <1>9, <1>13, <1>14, <1>15, <1>16, PlannerWrites

LEMMA ReservarTells ==
    ASSUME TypeOK, Planner, faults = 0, NEW w \in Runs, NEW j \in Items, Reservar(w, j)
    PROVE  Planner'
<1>1. PICK r : r = run[w] OBVIOUS
<1>2. r.pc = "batch" /\ j \in DOMAIN r.lote /\ UNCHANGED <<agile, faults>>
  BY <1>1 DEF Reservar, At
<1>4. PICK s : s = [r EXCEPT !.pc = "create", !.item = j] OBVIOUS
<1>5. Moves(w, s) BY <1>1, <1>4 DEF Reservar, Moves
<1>6. CallOK(r) BY <1>1 DEF TypeOK, RunsOK
<1>7. PICK l : l = r.lote OBVIOUS
<1>8. r \in [pc : RunPc, stuck : SUBSET Items, lote : {l}, item : Items \cup {None}]
  BY <1>6, <1>7 DEF CallOK
<1>9. s.stuck = r.stuck /\ s.pc = "create" /\ s.lote = r.lote BY <1>4, <1>8
<1>10. PICK y : y = fila[j] OBVIOUS
<1>11. y \in Row /\ y.retry = RetryOf(j) /\ DOMAIN fila = Items
  BY <1>1, <1>2, <1>10, KnownRow
<1>12. PICK x : x = [y EXCEPT !.status = "PROCESSING", !.old = FALSE] OBVIOUS
<1>13. fila' = [fila EXCEPT ![j] = x] BY <1>10, <1>11, <1>12 DEF Reservar
<1>14. x \in Row /\ x.status = "PROCESSING" /\ x.retry = y.retry BY <1>11, <1>12 DEF Row, Status
<1>16. /\ r.pc \notin {"idle", "synced", "unsynced"} /\ j \in r.stuck \cup DOMAIN r.lote
       /\ s.pc \notin {"fallback", "synced", "unsynced"} /\ x.status \notin {"SENT", "ERROR"}
       /\ x.retry = RetryOf(j) /\ faults' = faults /\ agile' = agile
  BY <1>2, <1>9, <1>11, <1>14
<1> QED BY <1>1, <1>5, <1>9, <1>13, <1>14, <1>16, PlannerWrites

LEMMA EnviadoTells ==
    ASSUME TypeOK, Planner, faults = 0, NEW w \in Runs, MarcarEnviado(w)
    PROVE  Planner'
<1>1. PICK r : r = run[w] OBVIOUS
<1>2. PICK j : j = r.item OBVIOUS
<1>3. r.pc = "created" /\ Goto(w, "synced") /\ UNCHANGED <<agile, faults>>
  BY <1>1 DEF MarcarEnviado, At
<1>4. j \in DOMAIN r.lote /\ j \in Items BY <1>1, <1>2, <1>3, InHand DEF InHandPc
<1>5. PICK s : /\ Moves(w, s) /\ CallOK(s) /\ s.pc = "synced" /\ s.item = r.item
               /\ s.lote = r.lote /\ s.stuck = r.stuck
  BY <1>1, <1>3, GotoShape DEF InHandPc
<1>6. PICK y : y = fila[j] OBVIOUS
<1>7. y \in Row /\ DOMAIN fila = Items BY <1>1, <1>4, <1>6, KnownRow
<1>8. PICK x : x = [y EXCEPT !.status = "SENT"] OBVIOUS
<1>9. fila' = [fila EXCEPT ![j] = x] BY <1>1, <1>2, <1>6, <1>7, <1>8 DEF MarcarEnviado
<1>10. x \in Row /\ x.status = "SENT" BY <1>7, <1>8 DEF Row, Status
<1>11. /\ r.pc \notin {"idle", "synced", "unsynced"} /\ j \in r.stuck \cup DOMAIN r.lote
       /\ s.stuck \subseteq r.stuck /\ s.item = j /\ faults' = faults /\ agile' = agile
  BY <1>2, <1>3, <1>4, <1>5
<1> QED BY <1>1, <1>4, <1>5, <1>9, <1>10, <1>11, PlannerWrites

LEMMA FalhaTells ==
    ASSUME TypeOK, Planner, faults = 0, NEW w \in Runs, MarcarFalha(w)
    PROVE  Planner'
<1>1. PICK r : r = run[w] OBVIOUS
<1>2. PICK j : j = r.item OBVIOUS
<1>3. r.pc = "failed" /\ Goto(w, "unsynced") /\ UNCHANGED <<agile, faults>>
  BY <1>1 DEF MarcarFalha, At
<1>4. j \in DOMAIN r.lote /\ j \in Items /\ r.lote[j] \in Nat BY <1>1, <1>2, <1>3, InHand DEF InHandPc
<1>5. PICK s : /\ Moves(w, s) /\ CallOK(s) /\ s.pc = "unsynced" /\ s.item = r.item
               /\ s.lote = r.lote /\ s.stuck = r.stuck
  BY <1>1, <1>3, GotoShape DEF InHandPc
<1>6. PICK y : y = fila[j] OBVIOUS
<1>7. y \in Row /\ DOMAIN fila = Items BY <1>1, <1>4, <1>6, KnownRow
<1>8. PICK n \in Nat : n = r.lote[j] + 1 /\ n > 0 BY <1>4
<1>9. PICK st : st = IF n >= MaxTentativas THEN "ERROR" ELSE "PENDING" OBVIOUS
<1>10. PICK x : x = [y EXCEPT !.status = st, !.retry = n] OBVIOUS
<1>11. fila' = [fila EXCEPT ![j] = x]
  BY <1>1, <1>2, <1>6, <1>7, <1>8, <1>9, <1>10 DEF MarcarFalha
<1>12. x \in Row /\ x.status = st /\ x.retry = n BY <1>7, <1>8, <1>9, <1>10 DEF Row, Status
<1>13. x.status # "SENT" /\ x.retry > 0 BY <1>8, <1>9, <1>12
<1> QED BY <1>1, <1>2, <1>3, <1>4, <1>5, <1>11, <1>12, <1>13, PlannerWrites

LEMMA AgilesyncTells ==
    ASSUME TypeOK, Planner, faults = 0, NEW w \in Runs, AtualizarAgilesync(w)
    PROVE  Planner'
<1>1. PICK r : r = run[w] OBVIOUS
<1>2. PICK s : s = Done(r) OBVIOUS
<1>3. PICK j : j = r.item OBVIOUS
<1>4. PICK a : a = IF r.pc = "synced" THEN "SYNCED" ELSE "ERROR" OBVIOUS
<1>5. PICK d : d = agile.row[j] OBVIOUS
<1>6. /\ r.pc \in {"synced", "unsynced"} /\ Moves(w, s)
      /\ \/ d = None /\ agile' = agile
         \/ d # None /\ agile' = [agile EXCEPT !.status[d] = a]
      /\ UNCHANGED <<fila, faults>>
  BY <1>1, <1>2, <1>3, <1>4, <1>5, NextItemIsDone DEF AtualizarAgilesync, Moves, At
<1>7. CallOK(r) /\ j \in DOMAIN r.lote /\ j \in Items /\ r.stuck = {}
  BY <1>1, <1>3, <1>6, InHand DEF InHandPc
<1>8. /\ CallShows(r)
      /\ \A c \in AgileRows : PlannerShows(c) \/ TellsOf(r, c)
  <2>1. r.pc # "idle" BY <1>6
  <2> QED BY <1>1, <2>1, PlannerKnows
<1>9. s.pc = "batch" /\ s.stuck = {} /\ DOMAIN s.lote \subseteq DOMAIN r.lote
  BY <1>2, <1>6, <1>7, DoneFacts
<1>10. j \notin DOMAIN s.lote
  <2>1. PICK m : m = Without(r.lote, r.item) OBVIOUS
  <2>2. s.lote = m
    <3>1. PICK l : l = r.lote OBVIOUS
    <3>2. r \in [pc : RunPc, stuck : SUBSET Items, lote : {l}, item : Items \cup {None}]
      BY <1>7, <3>1 DEF CallOK
    <3>3. s = [r EXCEPT !.pc = "batch", !.item = None, !.lote = m] BY <1>2, <2>1 DEF Done
    <3> QED BY <3>2, <3>3
  <2> QED BY <1>3, <2>1, <2>2 DEF Without
<1>11. \A i \in Items : /\ RetryOf(i)' = RetryOf(i) /\ (Is(i, "SENT")' <=> Is(i, "SENT"))
                        /\ (Is(i, "ERROR")' <=> Is(i, "ERROR"))
  BY <1>6 DEF RetryOf, Is
<1>12. CallShows(s)'
  <2>1. \A i \in s.stuck \cup DOMAIN s.lote : ~Is(i, "SENT")'
    <3> SUFFICES ASSUME NEW i \in DOMAIN s.lote PROVE ~Is(i, "SENT")'
      BY <1>9
    <3>1. i # j /\ i \in DOMAIN r.lote /\ i \in Items BY <1>7, <1>9, <1>10 DEF CallOK
    <3>2. ~Is(i, "SENT") BY <1>3, <1>8, <3>1 DEF CallShows
    <3> QED BY <1>11, <3>1, <3>2
  <2> QED BY <1>9, <2>1 DEF CallShows
<1>13. /\ r.pc = "synced" => Is(j, "SENT")'
       /\ r.pc = "unsynced" => ~Is(j, "SENT")' /\ fila'[j] # None /\ fila'[j].retry > 0
  <2>1. RetryOf(j) > 0 => fila[j] # None /\ fila[j].retry > 0 BY DEF RetryOf
  <2> QED BY <1>3, <1>6, <1>7, <1>8, <1>11, <2>1 DEF CallShows
<1>14. /\ agile'.row = agile.row
       /\ \A c \in AgileRows : agile'.status[c] = IF c = d THEN a ELSE agile.status[c]
  <2>1. agile \in [row : [Items -> AgileRows \cup {None}],
                   status : [AgileRows -> {"-", "SYNCED", "ERROR"}]]
    BY DEF TypeOK, CountOK
  <2>2. CASE d = None
    <3>1. \A c \in AgileRows : c # d BY <2>2, RedmineAssumption
    <3> QED BY <1>6, <2>2, <3>1
  <2>3. CASE d # None
    <3>1. agile' = [agile EXCEPT !.status[d] = a] BY <1>6, <2>3
    <3> QED BY <2>1, <3>1
  <2> QED BY <2>2, <2>3
<1>15. ASSUME NEW c \in AgileRows PROVE PlannerShows(c)'
  <2>1. CASE c = d
    <3>1. agile'.status[c] = a /\ agile'.row[j] = c BY <1>5, <1>14, <2>1
    <3>2. CASE r.pc = "synced"
      <4>1. a = "SYNCED" /\ Is(j, "SENT")' BY <1>4, <1>13, <3>2
      <4> QED BY <1>7, <3>1, <4>1 DEF PlannerShows
    <3>3. CASE r.pc = "unsynced"
      <4>1. a = "ERROR" /\ ~Is(j, "SENT")' /\ fila'[j] # None /\ fila'[j].retry > 0
        BY <1>4, <1>13, <3>3
      <4> QED BY <1>7, <3>1, <4>1 DEF PlannerShows
    <3> QED BY <1>6, <3>2, <3>3
  <2>2. CASE c # d
    <3>1. PlannerShows(c) BY <1>3, <1>5, <1>8, <2>2 DEF TellsOf
    <3>2. agile'.status[c] = agile.status[c] /\ agile'.row = agile.row BY <1>14, <2>2
    <3>3. fila' = fila BY <1>6
    <3> QED BY <3>1, <3>2, <3>3 DEF PlannerShows, Is
  <2> QED BY <2>1, <2>2
<1>16. r.pc # "idle" /\ faults' = faults BY <1>6
<1> QED BY <1>1, <1>6, <1>12, <1>15, <1>16, PlannerStep

\* A row that is added or grows old: nothing the planner shows is touched.
LEMMA RowTells ==
    ASSUME TypeOK, Planner, faults = 0, NEW j \in Items,
           Enfileirar(j) \/ Envelhecer(j)
    PROVE  Planner'
<1>1. UNCHANGED <<agile, run, faults>> BY DEF Enfileirar, Envelhecer
<1>2. ASSUME NEW i \in Items
      PROVE  /\ Is(i, "SENT")' <=> Is(i, "SENT")
             /\ Is(i, "ERROR")' <=> Is(i, "ERROR")
             /\ RetryOf(i)' = RetryOf(i)
  <2>1. DOMAIN fila = Items BY DEF TypeOK, RowsOK
  <2>2. CASE Enfileirar(j)
    <3>1. PICK x : x = [status |-> "PENDING", retry |-> 0, old |-> FALSE] OBVIOUS
    <3>2. x \in Row /\ x.status = "PENDING" /\ x.retry = 0 BY <3>1 DEF Row, Status
    <3>3. fila[j] = None /\ fila' = [fila EXCEPT ![j] = x] BY <2>2, <3>1 DEF Enfileirar
    <3>4. x # None BY <3>2, NoneIsNoRow
    <3> QED BY <2>1, <3>2, <3>3, <3>4 DEF Is, RetryOf
  <2>3. CASE Envelhecer(j)
    <3>1. PICK y : y = fila[j] OBVIOUS
    <3>2. y \in Row /\ y.status = "PROCESSING" BY <2>3, <3>1 DEF Envelhecer, Is, TypeOK, RowsOK
    <3>3. PICK x : x = [y EXCEPT !.old = TRUE] OBVIOUS
    <3>4. x \in Row /\ x.status = "PROCESSING" /\ x.retry = y.retry BY <3>2, <3>3 DEF Row, Status
    <3>5. fila' = [fila EXCEPT ![j] = x] BY <2>3, <3>1, <3>3 DEF Envelhecer
    <3>6. x # None /\ y # None BY <3>2, <3>4, NoneIsNoRow
    <3> QED BY <2>1, <3>1, <3>2, <3>4, <3>5, <3>6 DEF Is, RetryOf
  <2> QED BY <2>2, <2>3
<1>3. Alone' BY <1>1 DEF Planner, Alone, At
<1>4. ASSUME NEW v \in Runs PROVE CallShows(run[v])'
  <2>1. PICK t : t = run[v] OBVIOUS
  <2>2. run'[v] = t BY <1>1, <2>1
  <2>3. CallShows(t) /\ CallOK(t) BY <2>1 DEF Planner, TypeOK, RunsOK
  <2>4. /\ t.pc \in {"synced", "unsynced"} => t.item \in Items
        /\ \A i \in t.stuck \cup DOMAIN t.lote : i \in Items
    BY <2>3 DEF CallOK, InHandPc
  <2>5. CallShows(t)' BY <1>2, <2>3, <2>4 DEF CallShows
  <2> QED BY <2>2, <2>5 DEF CallShows
<1>5. ASSUME NEW c \in AgileRows PROVE PlannerShows(c)' \/ (\E v \in Runs : TellsOf(run[v], c))'
  <2>1. CASE PlannerShows(c) BY <1>1, <1>2, <2>1, ShowsKept
  <2>2. CASE \E v \in Runs : TellsOf(run[v], c) BY <1>1, <2>2 DEF TellsOf
  <2> QED BY <2>1, <2>2 DEF Planner
<1> QED BY <1>1, <1>3, <1>4, <1>5 DEF Planner

LEMMA NextTells == ASSUME TypeOK, Planner, [Next]_vars PROVE Planner'
<1>1. faults \in Nat BY DEF TypeOK, CountOK
<1>2. CASE faults' # faults
  <2>1. faults' = faults + 1
    BY <1>2 DEF Next, vars, Processar, Enfileirar, Envelhecer, Demorar, ErroDataverse,
                ErroDataverseItem, RespostaPerdida, Crash, ListarTravadas, ListarPendentes,
                CriarIssue, MarcarEnviado, MarcarFalha, MarcarSoStatus, AtualizarAgilesync,
                Terminar, LiberarReserva, Reservar, Comecar, Fault
  <2>2. ~(faults' = 0) BY <1>1, <2>1
  <2> QED BY <2>2 DEF Planner
<1>3. CASE faults' = faults
  <2> SUFFICES ASSUME faults = 0 PROVE Planner' BY <1>3 DEF Planner
  <2>0. ~(faults' = faults + 1) BY <1>1, <1>3
  <2>1. CASE UNCHANGED vars
    BY <2>1 DEF vars, Planner, Alone, At, CallShows, TellsOf, PlannerShows, Is, RetryOf
  <2>2. ASSUME NEW i \in Items, Enfileirar(i) \/ Envelhecer(i) \/ Demorar(i) PROVE Planner'
    BY <2>0, <2>2, RowTells DEF Demorar, Fault
  <2>3. ASSUME NEW w \in Runs, Processar(w) PROVE Planner'
    <3>1. CASE ListarTravadas(w) BY <1>3, <3>1, StartTells
    <3>2. CASE ListarPendentes(w) BY <3>2, ListTells
    <3>3. CASE CriarIssue(w) BY <3>3, AskTells
    <3>4. CASE MarcarEnviado(w) BY <3>4, EnviadoTells
    <3>5. CASE MarcarFalha(w) BY <3>5, FalhaTells
    <3>6. CASE MarcarSoStatus(w) BY <3>6 DEF MarcarSoStatus, At, Planner, CallShows
    <3>7. CASE AtualizarAgilesync(w) BY <3>7, AgilesyncTells
    <3>8. CASE Terminar(w) BY <3>8, EndTells
    <3>9. ASSUME NEW i \in Items, LiberarReserva(w, i) PROVE Planner' BY <3>9, LiberarTells
    <3>10. ASSUME NEW i \in Items, Reservar(w, i) PROVE Planner' BY <3>10, ReservarTells
    <3> QED BY <2>3, <3>1, <3>2, <3>3, <3>4, <3>5, <3>6, <3>7, <3>8, <3>9, <3>10 DEF Processar
  <2>4. ASSUME NEW w \in Runs, ErroDataverse(w) \/ RespostaPerdida(w) \/ Crash(w) PROVE Planner'
    BY <2>0, <2>4 DEF ErroDataverse, RespostaPerdida, Crash, Fault
  <2>5. ASSUME NEW w \in Runs, NEW i \in Items, ErroDataverseItem(w, i) PROVE Planner'
    BY <2>0, <2>5 DEF ErroDataverseItem, Fault
  <2> QED BY <2>1, <2>2, <2>3, <2>4, <2>5 DEF Next
<1> QED BY <1>2, <1>3

LEMMA PlannerTold == Spec => []Planner
<1>1. ASSUME Init PROVE Planner
  <2>1. \A w \in Runs : run[w] = Resting BY <1>1 DEF Init
  <2>2. \A w \in Runs : run[w].pc = "idle" /\ run[w].stuck \cup DOMAIN run[w].lote = {}
    BY <2>1, RestingIdle
  <2>3. Alone BY <2>2 DEF Alone, At
  <2>4. \A w \in Runs : CallShows(run[w]) BY <2>2 DEF CallShows
  <2>5. ASSUME NEW c \in AgileRows PROVE PlannerShows(c)
    <3>1. agile.status[c] = "-" BY <1>1 DEF Init
    <3>2. \A i \in Items : fila[i] = None BY <1>1 DEF Init
    <3> QED BY <3>1, <3>2 DEF PlannerShows, Is
  <2> QED BY <2>3, <2>4, <2>5 DEF Planner
<1>2. IInv => TypeOK BY DEF IInv
<1>3. TypeOK /\ Planner /\ [Next]_vars => Planner' BY NextTells
<1> QED BY <1>1, <1>2, <1>3, RedmineInductive, PTL DEF Spec

\* What the queue and the planner say of an item is true (redmine_sync_queue.py
\* processar_fila_redmine): SENT has an issue, ERROR has had its attempts, and
\* between calls without faults a row of the planner shows what became of an item
\* that finds it, for any number of rows, of overlapping calls and of faults,
\* whichever items share a correlation id, have none or find no row.
THEOREM RedmineStatusIsTrue == Spec => []IssueStatusIsTrue
<1>1. ASSUME IInv, Planner PROVE IssueStatusIsTrue
  <2>1. SentHasIssue BY <1>1 DEF IInv, Recorded, RowRecord, SentHasIssue
  <2>2. ErrorIsExhausted BY <1>1 DEF IInv, Recorded, RowRecord, ErrorIsExhausted
  <2>3. PlannerAgrees
    <3> SUFFICES ASSUME faults = 0, \A w \in Runs : At(w, "idle"), NEW c \in AgileRows
                 PROVE  PlannerShows(c)
      BY DEF PlannerAgrees
    <3>1. \A w \in Runs : ~TellsOf(run[w], c) BY DEF At, TellsOf
    <3> QED BY <1>1, <3>1 DEF Planner
  <2> QED BY <2>1, <2>2, <2>3 DEF IssueStatusIsTrue
<1>2. IInv /\ Planner => IssueStatusIsTrue BY <1>1
<1> QED BY <1>2, RedmineInductive, PlannerTold, PTL

\* Nothing is done twice without a fault to account for it: an item has at most
\* one issue and MaxTentativas attempts, and one more of each for every fault
\* and every call that overlapped another (redmine_sync_queue.py
\* processar_fila_redmine), for any number of rows, calls and faults.
THEOREM RedmineEffectsPaid == Spec => []EffectsPerFault
<1>1. ASSUME IInv PROVE EffectsPerFault
  <2>1. AttemptsPerFault BY <1>1, AttemptsBelowLimit DEF AttemptsPerFault
  <2>2. ASSUME NEW i \in Items PROVE issues[i] <= 1 + faults
    <3>1. PICK q \in Nat : q = Cardinality(PendingOf(i)) BY CountsTyped
    <3>2. issues[i] \in Nat /\ faults \in Nat BY <1>1 DEF IInv, TypeOK, CountOK
    <3> QED BY <1>1, <3>1, <3>2 DEF IInv, Paid, IssuesPaid
  <2> QED BY <2>1, <2>2 DEF EffectsPerFault, IssuesPerFault
<1>2. IInv => EffectsPerFault BY <1>1
<1> QED BY <1>2, RedmineInductive, PTL
=============================================================================
