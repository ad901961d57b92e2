----------------------------- MODULE EmailProofs -----------------------------
(***************************************************************************)
(* The mail queue, for every set of rows and of processes, every limit of  *)
(* sends and of attempts, size of a lot and number of faults.              *)
(* The last part is about the calls that share one breaker.                *)
(***************************************************************************)
EXTENDS MCEmailQueue, CircuitBreaker, Integers, FiniteSetTheorems, TLAPS

-----------------------------------------------------------------------------
\* A call at each point of consumir_fila_email_movimento: what its session has
\* loaded, the rows it still has to do, the one in hand.
LoadedPc == {"send", "try", "sent", "failed"}
InHandPc == LoadedPc \cup {"audit"}
CallOK(r) ==
    /\ r \in [pc : ConsumerPc, rows : {r.rows}, lote : SUBSET Items,
              item : Items \cup {None}, attempt : 0..MaxAttempts]
    /\ DOMAIN r.rows \subseteq Items
    /\ r.rows = [i \in DOMAIN r.rows |-> r.rows[i]]
    /\ \A i \in DOMAIN r.rows : r.rows[i] \in Row
    /\ r.pc \in {"idle", "list", "batch", "audit"} => DOMAIN r.rows = {}
    /\ r.pc \in {"idle", "release", "list"} => r.lote = {}
    /\ r.pc = "release" => \A i \in DOMAIN r.rows : r.rows[i].status = "PROCESSING"
    /\ r.pc = "reserve" => /\ DOMAIN r.rows = r.lote
                           /\ \A i \in r.lote : r.rows[i].status = "PENDING"
    /\ r.pc \in LoadedPc => DOMAIN r.rows = {r.item}
    /\ r.pc \in InHandPc => r.item \in r.lote
    /\ r.pc \notin InHandPc => r.item = None

RowsOK  == fila = [i \in Items |-> fila[i]] /\ \A i \in Items : fila[i] # None => fila[i] \in Row
CountOK == /\ circuit \in [Consumers -> CircuitState]
           /\ mails \in [Items -> Nat] /\ sends \in [Items -> Nat]
           /\ opened \in BOOLEAN /\ faults \in 0..MaxFaults
CallsOK == consumer = [c \in Consumers |-> consumer[c]] /\ \A c \in Consumers : CallOK(consumer[c])

\* A call works on rows that exist.
KnownRows == \A c \in Consumers : \A i \in DOMAIN consumer[c].rows \cup consumer[c].lote : fila[i] # None

\* Every state component has a value of its kind, and a call in progress holds
\* what the point it has reached needs (consumer.py
\* consumir_fila_email_movimento).
TypeOK == RowsOK /\ CountOK /\ CallsOK /\ KnownRows

-----------------------------------------------------------------------------
Over(row) == row.status \in {"SENT", "ERROR"}

\* A call that may still send an item, and one that may still mail it or has
\* failed to without having said so.
Ahead(r, i) ==
    \/ r.pc \in {"release", "list"}
    \/ i \in r.lote /\ (r.item = i => r.pc = "send")
Pending(r, i) == Ahead(r, i) \/ (r.item = i /\ r.pc \in {"try", "failed"})

\* A call that loaded the row after it was settled: what it writes then may be
\* no change, and so no write.
Late(r, i)  == r.item = i /\ r.pc = "send" /\ Over(r.rows[i])
Stale(r, i) == r.item = i /\ r.pc \in {"send", "try", "failed"} /\ Over(r.rows[i])

\* A call that has sent, or mailed, and will say so in the row.
Owes(r, i) == r.item = i /\ r.pc \in {"try", "sent", "failed"} /\ ~Over(r.rows[i])
Made(r, i) == r.item = i /\ r.pc = "sent" /\ ~Over(r.rows[i])

\* A call that may write the retry count it loaded, plus one.
Holds(r, i, n) == r.item = i /\ r.pc \in {"send", "try", "failed"} /\ r.rows[i].retry = n

\* A call that may still make a settled row say something else.
Threat(r, i) ==
    \/ r.pc = "release" /\ i \in DOMAIN r.rows
    \/ i \in r.lote /\ (r.item = i => r.pc \in {"send", "try", "failed"})

AheadOf(i)   == {c \in Consumers : Ahead(consumer[c], i)}
PendingOf(i) == {c \in Consumers : Pending(consumer[c], i)}
LateOf(i)    == {c \in Consumers : Late(consumer[c], i)}
StaleOf(i)   == {c \in Consumers : Stale(consumer[c], i)}
NoneOwes(i)  == \A c \in Consumers : ~Owes(consumer[c], i)
NoneMade(i)  == \A c \in Consumers : ~Made(consumer[c], i)
Calm(i)      == \A c \in Consumers : ~Threat(consumer[c], i)
HeldCount(i, n) == \E c \in Consumers : Holds(consumer[c], i, n)

Settled(i) == Is(i, "SENT") \/ Is(i, "ERROR")
Quiet(i)   == Settled(i) /\ Calm(i)
RetryOf(i) == IF fila[i] = None THEN 0 ELSE fila[i].retry

(***************************************************************************)
(* The accounts.  A call that starts while another works is paid for by    *)
(* its overlap, and each call sends a row once.  So the sends made and the *)
(* calls that may still send stay within the retry count that will be      *)
(* stored, wherever it is now: in the row or in the session of a call.     *)
(* While the row is not settled and no call will tell of a send, there is  *)
(* room for one more.                                                      *)
(***************************************************************************)
SendsWithin(i, n) ==
    /\ sends[i] + Cardinality(AheadOf(i)) <= n + faults
    /\ (~Settled(i) /\ NoneOwes(i)) => sends[i] + Cardinality(LateOf(i)) + 1 <= n + faults
SendsPaid(i) ==
    IF Quiet(i)
    THEN /\ sends[i] <= MaxRetries + faults
         /\ sends[i] + Cardinality(AheadOf(i)) <= MaxRetries + faults + 1
    ELSE /\ SendsWithin(i, MaxRetries)
         /\ SendsWithin(i, RetryOf(i) + 1)
         /\ \A n \in Nat : HeldCount(i, n) =>
                sends[i] + Cardinality(AheadOf(i)) <= n + 1 + faults

MailsPaid(i) ==
    IF Quiet(i)
    THEN /\ mails[i] <= 1 + faults
         /\ mails[i] + Cardinality(PendingOf(i)) <= 2 + faults
    ELSE /\ mails[i] + Cardinality(PendingOf(i)) <= 1 + faults
         /\ (~Settled(i) /\ NoneMade(i)) => mails[i] + Cardinality(StaleOf(i)) <= faults

Paid == \A i \in Items : SendsPaid(i) /\ MailsPaid(i)

\* What a row and a session record of the sends was really done.
RowRecord(i) ==
    /\ RetryOf(i) <= sends[i]
    /\ Is(i, "SENT") => mails[i] > 0
    /\ Is(i, "ERROR") => sends[i] >= MaxRetries
CallRecord(r) ==
    /\ \A i \in DOMAIN r.rows : r.rows[i].retry <= sends[i]
    /\ r.pc = "sent" => mails[r.item] > 0
    /\ r.pc \in {"try", "failed"} => r.rows[r.item].retry + 1 <= sends[r.item]
Recorded ==
    /\ \A i \in Items : RowRecord(i)
    /\ \A c \in Consumers : CallRecord(consumer[c])

\* Until a fault or an open circuit one call works at a time, and the rows that
\* are reserved are exactly those it has still to do.
Working(r, i) == r.pc \notin {"idle", "release", "list", "reserve"} /\ i \in r.lote
                 /\ (r.item = i => r.pc # "audit")
Alone == \A b, c \in Consumers : b # c => At(b, "idle") \/ At(c, "idle")
Reserved ==
    (faults = 0 /\ ~opened) =>
        /\ Alone
        /\ \A i \in Items : Is(i, "PROCESSING") <=> \E c \in Consumers : Working(consumer[c], i)
        /\ \A c \in Consumers : consumer[c].pc \in LoadedPc =>
               consumer[c].rows[consumer[c].item].status = "PROCESSING"

IInv == TypeOK /\ Paid /\ Recorded /\ Reserved


-----------------------------------------------------------------------------
\* What the operations of the circuit return.
LEMMA NewTyped == NewCircuit \in CircuitState /\ NewCircuit.failures = 0 /\ NewCircuit.age = Never
BY CircuitAssumption DEF NewCircuit, CircuitState

LEMMA OlderTyped ==
    ASSUME NEW cb \in CircuitState
    PROVE  /\ Older(cb) \in CircuitState
           /\ Older(cb).failures = cb.failures
           /\ Older(cb).age = Never <=> cb.age = Never
BY CircuitAssumption DEF Older, CircuitState

LEMMA CountedTyped ==
    ASSUME NEW cb \in CircuitState
    PROVE  /\ Counted(cb) \in CircuitState
           /\ Counted(cb).age = cb.age
           /\ Counted(cb).failures >= cb.failures
BY CircuitAssumption DEF Counted, CircuitState

LEMMA OpenedTyped ==
    ASSUME NEW cb \in CircuitState
    PROVE  /\ Opened(cb) \in CircuitState
           /\ Opened(cb).failures = cb.failures
           /\ Opened(cb).age # Never
BY CircuitAssumption DEF Opened, CircuitState

LEMMA FailureTyped ==
    ASSUME NEW cb \in CircuitState
    PROVE  RecordFailure(cb) \in CircuitState
BY CountedTyped, OpenedTyped DEF RecordFailure

-----------------------------------------------------------------------------
\* The step of a call: it alone changes.
Moves(c, s) == consumer' = [consumer EXCEPT ![c] = s]

LEMMA MovesFacts ==
    ASSUME CallsOK, NEW c \in Consumers, NEW s, Moves(c, s)
    PROVE  /\ consumer'[c] = s
           /\ \A b \in Consumers : b # c => consumer'[b] = consumer[b]
           /\ consumer' = [b \in Consumers |-> consumer'[b]]
BY DEF Moves, CallsOK

LEMMA RestingOK == CallOK(Resting)
BY CircuitAssumption DEF CallOK, Resting, Nothing, ConsumerPc, InHandPc, LoadedPc

\* A call that is idle has nothing to do with any row.
LEMMA IdleCall ==
    ASSUME NEW r, CallOK(r), r.pc = "idle", NEW i
    PROVE  /\ ~Ahead(r, i) /\ ~Pending(r, i) /\ ~Late(r, i) /\ ~Stale(r, i)
           /\ ~Owes(r, i) /\ ~Made(r, i) /\ ~Threat(r, i) /\ ~Working(r, i)
           /\ \A n : ~Holds(r, i, n)
           /\ DOMAIN r.rows = {} /\ r.lote = {} /\ r.item = None
BY DEF Ahead, Pending, Late, Stale, Owes, Made, Threat, Working, Holds, CallOK, InHandPc, LoadedPc

LEMMA RestingIdle == Resting.pc = "idle"
BY DEF Resting

-----------------------------------------------------------------------------
\* The calls counted for a row, before and after a call moves.
AheadNow(S, i)   == {b \in Consumers : Ahead(S[b], i)}
PendingNow(S, i) == {b \in Consumers : Pending(S[b], i)}
LateNow(S, i)    == {b \in Consumers : Late(S[b], i)}
StaleNow(S, i)   == {b \in Consumers : Stale(S[b], i)}

LEMMA SetsNow ==
    ASSUME NEW i, NEW S
    PROVE  /\ S = consumer =>
                 /\ AheadOf(i) = AheadNow(S, i) /\ PendingOf(i) = PendingNow(S, i)
                 /\ LateOf(i) = LateNow(S, i) /\ StaleOf(i) = StaleNow(S, i)
           /\ S = consumer' =>
                 /\ AheadOf(i)' = AheadNow(S, i) /\ PendingOf(i)' = PendingNow(S, i)
                 /\ LateOf(i)' = LateNow(S, i) /\ StaleOf(i)' = StaleNow(S, i)
BY DEF AheadOf, PendingOf, LateOf, StaleOf, AheadNow, PendingNow, LateNow, StaleNow,
       Ahead, Pending, Late, Stale, Over

LEMMA FiniteCalls ==
    ASSUME NEW T, T \subseteq Consumers
    PROVE  /\ IsFiniteSet(T) /\ Cardinality(T) \in Nat
           /\ \A c \in T : Cardinality(T) >= 1
           /\ T = {} => Cardinality(T) = 0
           /\ \A U \in SUBSET T : Cardinality(U) <= Cardinality(T)
<1>1. IsFiniteSet(T) /\ Cardinality(T) \in Nat
  BY EmailAssumption, FS_Subset, FS_CardinalityType
<1>2. ASSUME NEW c \in T PROVE Cardinality(T) >= 1
  BY <1>1, FS_EmptySet
<1>3. ASSUME NEW U \in SUBSET T PROVE Cardinality(U) <= Cardinality(T)
  BY <1>1, FS_Subset
<1> QED BY <1>1, <1>2, <1>3, FS_EmptySet

\* A set of calls from which one enters or leaves.
LEMMA OneMoves ==
    ASSUME NEW T, T \subseteq Consumers, NEW U, U \subseteq Consumers, NEW c \in Consumers,
           \A b \in Consumers : b # c => (b \in T <=> b \in U)
    PROVE  /\ (c \in T <=> c \in U) => Cardinality(U) = Cardinality(T)
           /\ (c \in T /\ c \notin U) => Cardinality(U) + 1 = Cardinality(T)
           /\ (c \notin T /\ c \in U) => Cardinality(U) = Cardinality(T) + 1
<1>1. IsFiniteSet(T) /\ IsFiniteSet(U) /\ Cardinality(T) \in Nat /\ Cardinality(U) \in Nat
  BY FiniteCalls
<1>2. ASSUME c \in T <=> c \in U PROVE Cardinality(U) = Cardinality(T)
  <2>1. U = T BY <1>2
  <2> QED BY <2>1
<1>3. ASSUME c \in T, c \notin U PROVE Cardinality(U) + 1 = Cardinality(T)
  <2>1. U = T \ {c} BY <1>3
  <2>2. Cardinality(T \ {c}) = Cardinality(T) - 1 BY <1>1, <1>3, FS_RemoveElement
  <2> QED BY <2>1, <2>2, <1>1
<1>4. ASSUME c \notin T, c \in U PROVE Cardinality(U) = Cardinality(T) + 1
  <2>1. T = U \ {c} BY <1>4
  <2>2. Cardinality(U \ {c}) = Cardinality(U) - 1 BY <1>1, <1>4, FS_RemoveElement
  <2> QED BY <2>1, <2>2, <1>1
<1> QED BY <1>2, <1>3, <1>4

\* A smaller set of calls, and one that lacks a call of the larger.
LEMMA Fewer ==
    ASSUME NEW T, T \subseteq Consumers, NEW U, U \subseteq T
    PROVE  /\ Cardinality(U) <= Cardinality(T)
           /\ \A c \in T : c \notin U => Cardinality(U) + 1 <= Cardinality(T)
<1>1. IsFiniteSet(T) /\ Cardinality(T) \in Nat /\ U \subseteq Consumers /\ Cardinality(U) \in Nat
      /\ Cardinality(U) <= Cardinality(T)
  BY FiniteCalls
<1>2. ASSUME NEW c \in T, c \notin U PROVE Cardinality(U) + 1 <= Cardinality(T)
  <2>1. Cardinality(T \ {c}) = Cardinality(T) - 1 BY <1>1, <1>2, FS_RemoveElement
  <2>2. U \in SUBSET (T \ {c}) /\ T \ {c} \subseteq Consumers BY <1>2
  <2>3. Cardinality(U) <= Cardinality(T \ {c}) BY <2>2, FiniteCalls
  <2> QED BY <1>1, <2>1, <2>3
<1> QED BY <1>1, <1>2

\* The numbers of calls counted for a row are numbers.
LEMMA CountsTyped ==
    ASSUME NEW i
    PROVE  /\ Cardinality(AheadOf(i)) \in Nat /\ Cardinality(PendingOf(i)) \in Nat
           /\ Cardinality(LateOf(i)) \in Nat /\ Cardinality(StaleOf(i)) \in Nat
           /\ Cardinality(AheadOf(i))' \in Nat /\ Cardinality(PendingOf(i))' \in Nat
           /\ Cardinality(LateOf(i))' \in Nat /\ Cardinality(StaleOf(i))' \in Nat
<1>1. PICK R : R = consumer OBVIOUS
<1>2. PICK S : S = consumer' OBVIOUS
<1>3. ASSUME NEW T
      PROVE  /\ AheadNow(T, i) \subseteq Consumers /\ PendingNow(T, i) \subseteq Consumers
             /\ LateNow(T, i) \subseteq Consumers /\ StaleNow(T, i) \subseteq Consumers
  BY DEF AheadNow, PendingNow, LateNow, StaleNow
<1>4. ASSUME NEW T
      PROVE  /\ Cardinality(AheadNow(T, i)) \in Nat /\ Cardinality(PendingNow(T, i)) \in Nat
             /\ Cardinality(LateNow(T, i)) \in Nat /\ Cardinality(StaleNow(T, i)) \in Nat
  BY <1>3, FiniteCalls
<1> QED BY <1>1, <1>2, <1>4, SetsNow


\* How the numbers change when one call moves.
LEMMA CountsMove ==
    ASSUME CallsOK, NEW c \in Consumers, NEW r, r = consumer[c], NEW s, Moves(c, s), NEW i,
           NEW a, a = Cardinality(AheadOf(i)), NEW aa, aa = Cardinality(AheadOf(i))',
           NEW p, p = Cardinality(PendingOf(i)), NEW pp, pp = Cardinality(PendingOf(i))',
           NEW l, l = Cardinality(LateOf(i)), NEW ll, ll = Cardinality(LateOf(i))',
           NEW t, t = Cardinality(StaleOf(i)), NEW tt, tt = Cardinality(StaleOf(i))'
    PROVE  /\ a \in Nat /\ aa \in Nat /\ p \in Nat /\ pp \in Nat
           /\ l \in Nat /\ ll \in Nat /\ t \in Nat /\ tt \in Nat
           /\ /\ (Ahead(r, i) <=> Ahead(s, i)) => aa = a
              /\ (Ahead(r, i) /\ ~Ahead(s, i)) => aa + 1 = a
              /\ (~Ahead(r, i) /\ Ahead(s, i)) => aa = a + 1
           /\ /\ (Pending(r, i) <=> Pending(s, i)) => pp = p
              /\ (Pending(r, i) /\ ~Pending(s, i)) => pp + 1 = p
              /\ (~Pending(r, i) /\ Pending(s, i)) => pp = p + 1
           /\ /\ (Late(r, i) <=> Late(s, i)) => ll = l
              /\ (Late(r, i) /\ ~Late(s, i)) => ll + 1 = l
           /\ /\ (Stale(r, i) <=> Stale(s, i)) => tt = t
              /\ (Stale(r, i) /\ ~Stale(s, i)) => tt + 1 = t
<1>1. PICK R : R = consumer OBVIOUS
<1>2. PICK S : S = consumer' OBVIOUS
<1>3. /\ a = Cardinality(AheadNow(R, i)) /\ p = Cardinality(PendingNow(R, i))
      /\ l = Cardinality(LateNow(R, i)) /\ t = Cardinality(StaleNow(R, i))
  BY <1>1, SetsNow
<1>4. /\ aa = Cardinality(AheadNow(S, i)) /\ pp = Cardinality(PendingNow(S, i))
      /\ ll = Cardinality(LateNow(S, i)) /\ tt = Cardinality(StaleNow(S, i))
  BY <1>2, SetsNow
<1>5. R[c] = r /\ S[c] = s /\ \A b \in Consumers : b # c => S[b] = R[b]
  BY <1>1, <1>2, MovesFacts
<1>6. a \in Nat /\ aa \in Nat /\ p \in Nat /\ pp \in Nat /\ l \in Nat /\ ll \in Nat /\ t \in Nat /\ tt \in Nat
  BY CountsTyped
<1>7. /\ (Ahead(r, i) <=> Ahead(s, i)) => aa = a
      /\ (Ahead(r, i) /\ ~Ahead(s, i)) => aa + 1 = a
      /\ (~Ahead(r, i) /\ Ahead(s, i)) => aa = a + 1
  <2>1. /\ AheadNow(R, i) \subseteq Consumers /\ AheadNow(S, i) \subseteq Consumers
        /\ \A b \in Consumers : b # c => (b \in AheadNow(R, i) <=> b \in AheadNow(S, i))
        /\ c \in AheadNow(R, i) <=> Ahead(r, i)
        /\ c \in AheadNow(S, i) <=> Ahead(s, i)
    BY <1>5 DEF AheadNow
  <2> QED BY <1>3, <1>4, <2>1, OneMoves
<1>8. /\ (Pending(r, i) <=> Pending(s, i)) => pp = p
      /\ (Pending(r, i) /\ ~Pending(s, i)) => pp + 1 = p
      /\ (~Pending(r, i) /\ Pending(s, i)) => pp = p + 1
  <2>1. /\ PendingNow(R, i) \subseteq Consumers /\ PendingNow(S, i) \subseteq Consumers
        /\ \A b \in Consumers : b # c => (b \in PendingNow(R, i) <=> b \in PendingNow(S, i))
        /\ c \in PendingNow(R, i) <=> Pending(r, i)
        /\ c \in PendingNow(S, i) <=> Pending(s, i)
    BY <1>5 DEF PendingNow
  <2> QED BY <1>3, <1>4, <2>1, OneMoves
<1>9. /\ (Late(r, i) <=> Late(s, i)) => ll = l
      /\ (Late(r, i) /\ ~Late(s, i)) => ll + 1 = l
  <2>1. /\ LateNow(R, i) \subseteq Consumers /\ LateNow(S, i) \subseteq Consumers
        /\ \A b \in Consumers : b # c => (b \in LateNow(R, i) <=> b \in LateNow(S, i))
        /\ c \in LateNow(R, i) <=> Late(r, i)
        /\ c \in LateNow(S, i) <=> Late(s, i)
    BY <1>5 DEF LateNow
  <2> QED BY <1>3, <1>4, <2>1, OneMoves
<1>10. /\ (Stale(r, i) <=> Stale(s, i)) => tt = t
       /\ (Stale(r, i) /\ ~Stale(s, i)) => tt + 1 = t
  <2>1. /\ StaleNow(R, i) \subseteq Consumers /\ StaleNow(S, i) \subseteq Consumers
        /\ \A b \in Consumers : b # c => (b \in StaleNow(R, i) <=> b \in StaleNow(S, i))
        /\ c \in StaleNow(R, i) <=> Stale(r, i)
        /\ c \in StaleNow(S, i) <=> Stale(s, i)
    BY <1>5 DEF StaleNow
  <2> QED BY <1>3, <1>4, <2>1, OneMoves
<1> QED BY <1>6, <1>7, <1>8, <1>9, <1>10

\* The calls of a state, each of them whole.
LEMMA CallsTyped ==
    /\ TypeOK => \A c \in Consumers : CallOK(consumer[c])
    /\ TypeOK' => \A S : S = consumer' => \A c \in Consumers : CallOK(S[c])
<1>1. ASSUME TypeOK', NEW S, S = consumer', NEW c \in Consumers PROVE CallOK(S[c])
  <2>1. PICK t : t = S[c] OBVIOUS
  <2>2. consumer'[c] = t BY <1>1, <2>1
  <2>3. CallOK(consumer[c])' BY <1>1 DEF TypeOK, CallsOK
  <2>4. CallOK(t) BY <2>2, <2>3, Zenon DEF CallOK
  <2> QED BY <2>1, <2>4
<1> QED BY <1>1 DEF TypeOK, CallsOK

LEMMA KindsOfCall ==
    ASSUME NEW r, CallOK(r), NEW i \in Items
    PROVE  /\ Late(r, i) => Ahead(r, i)
           /\ Stale(r, i) => Pending(r, i)
           /\ Threat(r, i) => Pending(r, i)
           /\ \A n : Holds(r, i, n) => Pending(r, i) /\ Threat(r, i)
           /\ Pending(r, i) => \/ Ahead(r, i)
                               \/ Owes(r, i)
                               \/ Stale(r, i)
           /\ i # None
<1>1. i # None BY EmailAssumption
<1>2. /\ r.pc \in LoadedPc => r.item \in r.lote
      /\ r.pc \notin InHandPc => r.item = None
  BY DEF CallOK, InHandPc
<1> QED BY <1>1, <1>2 DEF Late, Ahead, Stale, Pending, Threat, Holds, Owes, LoadedPc, InHandPc, Over

\* Calls that loaded a settled row are among those counted.
LEMMA LateBelow ==
    ASSUME TypeOK, NEW i \in Items,
           NEW a, a = Cardinality(AheadOf(i)), NEW l, l = Cardinality(LateOf(i)),
           NEW p, p = Cardinality(PendingOf(i)), NEW t, t = Cardinality(StaleOf(i))
    PROVE  l <= a /\ t <= p
<1>1. PICK R : R = consumer OBVIOUS
<1>2. /\ LateNow(R, i) \subseteq AheadNow(R, i) /\ AheadNow(R, i) \subseteq Consumers
      /\ StaleNow(R, i) \subseteq PendingNow(R, i) /\ PendingNow(R, i) \subseteq Consumers
  BY <1>1, CallsTyped, KindsOfCall DEF LateNow, AheadNow, StaleNow, PendingNow
<1> QED BY <1>1, <1>2, SetsNow, Fewer

LEMMA LateBelowNext ==
    ASSUME TypeOK', NEW i \in Items, CallsOK, NEW c \in Consumers, NEW s, Moves(c, s),
           NEW a, a = Cardinality(AheadOf(i))', NEW l, l = Cardinality(LateOf(i))',
           NEW p, p = Cardinality(PendingOf(i))', NEW t, t = Cardinality(StaleOf(i))'
    PROVE  /\ l <= a /\ t <= p
           /\ (Ahead(s, i) /\ ~Late(s, i)) => l + 1 <= a
           /\ (Pending(s, i) /\ ~Stale(s, i)) => t + 1 <= p
<1>1. PICK S : S = consumer' OBVIOUS
<1>2. \A b \in Consumers : CallOK(S[b]) BY <1>1, CallsTyped
<1>3. S[c] = s BY <1>1, MovesFacts
<1>4. /\ LateNow(S, i) \subseteq AheadNow(S, i) /\ AheadNow(S, i) \subseteq Consumers
      /\ StaleNow(S, i) \subseteq PendingNow(S, i) /\ PendingNow(S, i) \subseteq Consumers
      /\ Ahead(s, i) => c \in AheadNow(S, i)
      /\ ~Late(s, i) => c \notin LateNow(S, i)
      /\ Pending(s, i) => c \in PendingNow(S, i)
      /\ ~Stale(s, i) => c \notin StaleNow(S, i)
  BY <1>2, <1>3, KindsOfCall DEF LateNow, AheadNow, StaleNow, PendingNow
<1>5. /\ a = Cardinality(AheadNow(S, i)) /\ p = Cardinality(PendingNow(S, i))
      /\ l = Cardinality(LateNow(S, i)) /\ t = Cardinality(StaleNow(S, i))
  BY <1>1, SetsNow
<1> QED BY <1>4, <1>5, Fewer

\* What is said of all calls, when one moves.
LEMMA KindsMove ==
    ASSUME CallsOK, NEW c \in Consumers, NEW r, r = consumer[c], NEW s, Moves(c, s), NEW i
    PROVE  /\ (NoneOwes(i)' /\ ~Owes(r, i)) => NoneOwes(i)
           /\ Owes(s, i) => ~NoneOwes(i)'
           /\ (NoneMade(i)' /\ ~Made(r, i)) => NoneMade(i)
           /\ Made(s, i) => ~NoneMade(i)'
           /\ \A n : HeldCount(i, n)' => HeldCount(i, n) \/ Holds(s, i, n)
           /\ \A n : Holds(r, i, n) => HeldCount(i, n)
           /\ Calm(i) => ~Threat(r, i)
           /\ (Calm(i) /\ ~Threat(s, i)) => Calm(i)'
<1>1. PICK R : R = consumer OBVIOUS
<1>2. PICK S : S = consumer' OBVIOUS
<1>4. R[c] = r /\ S[c] = s /\ \A b \in Consumers : b # c => S[b] = R[b]
  BY <1>1, <1>2, MovesFacts
<1>5. /\ NoneOwes(i)' <=> \A b \in Consumers : ~Owes(S[b], i)
      /\ NoneMade(i)' <=> \A b \in Consumers : ~Made(S[b], i)
      /\ \A n : HeldCount(i, n)' <=> \E b \in Consumers : Holds(S[b], i, n)
      /\ Calm(i)' <=> \A b \in Consumers : ~Threat(S[b], i)
  BY <1>2 DEF NoneOwes, NoneMade, HeldCount, Calm, Owes, Made, Holds, Threat, Over
<1>6. /\ NoneOwes(i) <=> \A b \in Consumers : ~Owes(R[b], i)
      /\ NoneMade(i) <=> \A b \in Consumers : ~Made(R[b], i)
      /\ \A n : HeldCount(i, n) <=> \E b \in Consumers : Holds(R[b], i, n)
      /\ Calm(i) <=> \A b \in Consumers : ~Threat(R[b], i)
  BY <1>1 DEF NoneOwes, NoneMade, HeldCount, Calm
<1> QED BY <1>4, <1>5, <1>6

LEMMA RetryTyped == ASSUME RowsOK, NEW i \in Items PROVE RetryOf(i) \in Nat
BY EmailAssumption DEF RowsOK, RetryOf, Row, RetryLimit


-----------------------------------------------------------------------------
\* The account of sends, when the stored count stays: a send is made by a call
\* that was counted for it, and one more call is counted, or a send forgotten,
\* only with a fault (d).
LEMMA SendsStep ==
    ASSUME RowsOK, CountOK, CountOK', NEW i \in Items, SendsPaid(i), NEW d \in {0, 1},
           faults' = faults + d,
           NEW a, a = Cardinality(AheadOf(i)), NEW aa, aa = Cardinality(AheadOf(i))',
           NEW l, l = Cardinality(LateOf(i)), NEW ll, ll = Cardinality(LateOf(i))',
           NEW e, e = sends[i], NEW ee, ee = sends'[i],
           Quiet(i) => Quiet(i)' /\ ee = e,
           ee + aa <= e + a + d,
           (~Settled(i)' /\ NoneOwes(i)') =>
               \/ ~Settled(i) /\ NoneOwes(i) /\ ee + ll <= e + l + d
               \/ ee + ll + 1 <= e + a + d,
           RetryOf(i)' = RetryOf(i),
           \A n \in Nat : HeldCount(i, n)' => HeldCount(i, n) \/ n = RetryOf(i)
    PROVE  SendsPaid(i)'
<1>1. PICK f : f = faults OBVIOUS
<1>2. PICK ff : ff = faults' OBVIOUS
<1>3. /\ a \in Nat /\ aa \in Nat /\ l \in Nat /\ ll \in Nat /\ e \in Nat /\ ee \in Nat
      /\ f \in Nat /\ ff \in Nat /\ ff = f + d /\ MaxRetries \in Nat
  BY <1>1, <1>2, CountsTyped, EmailAssumption DEF CountOK
<1>4. PICK rho \in Nat : rho = RetryOf(i) BY RetryTyped
<1>5. RetryOf(i)' = rho BY <1>4
<1> DEFINE W(n) == e + a <= n + f /\ ((~Settled(i) /\ NoneOwes(i)) => e + l + 1 <= n + f)
           V(n) == ee + aa <= n + ff /\ ((~Settled(i)' /\ NoneOwes(i)') => ee + ll + 1 <= n + ff)
<1>6. /\ \A n \in Nat : SendsWithin(i, n) <=> W(n)
      /\ \A n \in Nat : SendsWithin(i, n)' <=> V(n)
  BY <1>1, <1>2 DEF SendsWithin
<1>7. CASE Quiet(i)
  <2>1. e <= MaxRetries + f /\ e + a <= MaxRetries + f + 1
    BY <1>1, <1>7 DEF SendsPaid
  <2>2. ee <= MaxRetries + ff /\ ee + aa <= MaxRetries + ff + 1
    BY <1>3, <1>7, <2>1
  <2> QED BY <1>2, <1>7, <2>2 DEF SendsPaid
<1>8. CASE ~Quiet(i)
  <2>0. /\ SendsWithin(i, MaxRetries) /\ SendsWithin(i, RetryOf(i) + 1)
        /\ \A n \in Nat : HeldCount(i, n) => e + a <= n + 1 + f
    BY <1>1, <1>8 DEF SendsPaid
  <2>1. W(MaxRetries) /\ W(rho + 1)
    <3>1. rho + 1 \in Nat BY <1>4
    <3> HIDE DEF W
    <3> QED BY <2>0, <3>1, <1>3, <1>4, <1>6
  <2>2. CASE Quiet(i)'
    <3>1. ee <= MaxRetries + ff /\ ee + aa <= MaxRetries + ff + 1
      BY <1>3, <2>1
    <3> QED BY <1>2, <2>2, <3>1 DEF SendsPaid
  <2>3. CASE ~Quiet(i)'
    <3>1. ASSUME NEW n \in Nat, W(n) PROVE V(n)
      BY <1>3, <3>1
    <3>2. V(MaxRetries) /\ V(rho + 1)
      <4>1. rho + 1 \in Nat BY <1>4
      <4> HIDE DEF V, W
      <4> QED BY <3>1, <2>1, <4>1, <1>3
    <3>3. SendsWithin(i, MaxRetries)' BY <3>2, <1>2 DEF SendsWithin
    <3>4. SendsWithin(i, RetryOf(i) + 1)' BY <3>2, <1>2, <1>5 DEF SendsWithin
    <3>5. ASSUME NEW n \in Nat, HeldCount(i, n)' PROVE ee + aa <= n + 1 + ff
      <4>1. e + a <= n + 1 + f
        <5>1. CASE HeldCount(i, n) BY <2>0, <5>1
        <5>2. CASE n = RetryOf(i) BY <1>4, <2>1, <5>2
        <5> QED BY <3>5, <5>1, <5>2
      <4> QED BY <1>3, <4>1
    <3> QED BY <1>2, <2>3, <3>3, <3>4, <3>5 DEF SendsPaid
  <2> QED BY <2>2, <2>3
<1> QED BY <1>7, <1>8

\* The account of mails, in the same way.
LEMMA MailsStep ==
    ASSUME CountOK, CountOK', NEW i \in Items, MailsPaid(i), NEW d \in {0, 1},
           faults' = faults + d,
           NEW p, p = Cardinality(PendingOf(i)), NEW pp, pp = Cardinality(PendingOf(i))',
           NEW t, t = Cardinality(StaleOf(i)), NEW tt, tt = Cardinality(StaleOf(i))',
           NEW m, m = mails[i], NEW mm, mm = mails'[i],
           Quiet(i) => Quiet(i)' /\ mm = m,
           mm + pp <= m + p + d,
           (~Settled(i)' /\ NoneMade(i)') =>
               \/ ~Settled(i) /\ NoneMade(i) /\ mm + tt <= m + t + d
               \/ mm + tt + 1 <= m + p + d
    PROVE  MailsPaid(i)'
<1>1. PICK f : f = faults OBVIOUS
<1>2. PICK ff : ff = faults' OBVIOUS
<1>3. /\ p \in Nat /\ pp \in Nat /\ t \in Nat /\ tt \in Nat /\ m \in Nat /\ mm \in Nat
      /\ f \in Nat /\ ff \in Nat /\ ff = f + d
  BY <1>1, <1>2, CountsTyped DEF CountOK
<1>4. CASE Quiet(i)
  <2>1. m <= 1 + f /\ m + p <= 2 + f BY <1>1, <1>4 DEF MailsPaid
  <2>2. mm <= 1 + ff /\ mm + pp <= 2 + ff BY <1>3, <1>4, <2>1
  <2> QED BY <1>2, <1>4, <2>2 DEF MailsPaid
<1>5. CASE ~Quiet(i)
  <2>1. m + p <= 1 + f /\ ((~Settled(i) /\ NoneMade(i)) => m + t <= f)
    BY <1>1, <1>5 DEF MailsPaid
  <2>2. mm + pp <= 1 + ff /\ ((~Settled(i)' /\ NoneMade(i)') => mm + tt <= ff)
    BY <1>3, <2>1
  <2>3. mm <= 1 + ff /\ mm + pp <= 2 + ff BY <1>3, <2>2
  <2> QED BY <1>2, <2>2, <2>3 DEF MailsPaid
<1> QED BY <1>4, <1>5

-----------------------------------------------------------------------------
\* What a call may do to a row without a fault and without telling of it.
Entitled(r, s, i) ==
    /\ Owes(r, i) => Owes(s, i)
    /\ Made(r, i) => Made(s, i)
    /\ Late(s, i) => Late(r, i)
    /\ Stale(s, i) => Stale(r, i)
Less(r, s, i) == (Ahead(s, i) => Ahead(r, i)) /\ (Pending(s, i) => Pending(r, i))

\* The accounts of a row that a step does not send.
LEMMA PaidItem ==
    ASSUME TypeOK, TypeOK', NEW c \in Consumers, NEW r, r = consumer[c], NEW s, Moves(c, s),
           NEW i \in Items, SendsPaid(i), MailsPaid(i), NEW d \in {0, 1}, faults' = faults + d,
           RetryOf(i)' = RetryOf(i), sends'[i] = sends[i], mails'[i] = mails[i],
           (Settled(i) => Settled(i)') \/ Threat(r, i),
           Threat(s, i) => (Threat(r, i) \/ ~Settled(i)),
           \A n \in Nat : Holds(s, i, n) => (Holds(r, i, n) \/ n = RetryOf(i)),
           d = 0 => Less(r, s, i),
           ~Settled(i)' =>
               \/ ~Settled(i) /\ Entitled(r, s, i)
               \/ Ahead(s, i) /\ ~Late(s, i) /\ ~Stale(s, i) /\ Less(r, s, i)
               \/ d = 1 /\ (Late(s, i) => Late(r, i)) /\ (Stale(s, i) => Stale(r, i))
    PROVE  SendsPaid(i)' /\ MailsPaid(i)'
<1>1. RowsOK /\ CountOK /\ CountOK' /\ CallsOK BY DEF TypeOK
<1>2. PICK a : a = Cardinality(AheadOf(i)) OBVIOUS
<1>3. PICK aa : aa = Cardinality(AheadOf(i))' OBVIOUS
<1>4. PICK p : p = Cardinality(PendingOf(i)) OBVIOUS
<1>5. PICK pp : pp = Cardinality(PendingOf(i))' OBVIOUS
<1>6. PICK l : l = Cardinality(LateOf(i)) OBVIOUS
<1>7. PICK ll : ll = Cardinality(LateOf(i))' OBVIOUS
<1>8. PICK t : t = Cardinality(StaleOf(i)) OBVIOUS
<1>9. PICK tt : tt = Cardinality(StaleOf(i))' OBVIOUS
<1>10. /\ a \in Nat /\ aa \in Nat /\ p \in Nat /\ pp \in Nat
       /\ l \in Nat /\ ll \in Nat /\ t \in Nat /\ tt \in Nat
       /\ (Ahead(s, i) => Ahead(r, i)) => aa <= a
       /\ aa <= a + 1
       /\ (Pending(s, i) => Pending(r, i)) => pp <= p
       /\ pp <= p + 1
       /\ (Late(s, i) => Late(r, i)) => ll <= l
       /\ (Stale(s, i) => Stale(r, i)) => tt <= t
  BY <1>1, <1>2, <1>3, <1>4, <1>5, <1>6, <1>7, <1>8, <1>9, CountsMove
<1>11. l <= a /\ t <= p BY <1>2, <1>4, <1>6, <1>8, LateBelow
<1>12. /\ (Ahead(s, i) /\ ~Late(s, i)) => ll + 1 <= aa
       /\ (Pending(s, i) /\ ~Stale(s, i)) => tt + 1 <= pp
       /\ Ahead(s, i) => Pending(s, i)
  BY <1>1, <1>3, <1>5, <1>7, <1>9, LateBelowNext DEF Pending
<1>13. Quiet(i) => Quiet(i)' BY <1>1, KindsMove DEF Quiet
<1>14. \A n \in Nat : HeldCount(i, n)' => HeldCount(i, n) \/ n = RetryOf(i)
  BY <1>1, KindsMove
<1>15. /\ (Owes(r, i) => Owes(s, i)) => (NoneOwes(i)' => NoneOwes(i))
       /\ (Made(r, i) => Made(s, i)) => (NoneMade(i)' => NoneMade(i))
  BY <1>1, KindsMove
<1>16. PICK e \in Nat : e = sends[i] BY <1>1 DEF CountOK
<1>17. PICK m \in Nat : m = mails[i] BY <1>1 DEF CountOK
<1>18. e = sends'[i] /\ m = mails'[i] BY <1>16, <1>17
<1>19. e + aa <= e + a + d /\ m + pp <= m + p + d
  BY <1>10 DEF Less
<1>20. ASSUME ~Settled(i)'
       PROVE  /\ NoneOwes(i)' => \/ ~Settled(i) /\ NoneOwes(i) /\ e + ll <= e + l + d
                                 \/ e + ll + 1 <= e + a + d
              /\ NoneMade(i)' => \/ ~Settled(i) /\ NoneMade(i) /\ m + tt <= m + t + d
                                 \/ m + tt + 1 <= m + p + d
  <2>1. CASE ~Settled(i) /\ Entitled(r, s, i)
    BY <1>10, <1>15, <2>1 DEF Entitled
  <2>2. CASE Ahead(s, i) /\ ~Late(s, i) /\ ~Stale(s, i) /\ Less(r, s, i)
    BY <1>10, <1>12, <2>2 DEF Less
  <2>3. CASE d = 1 /\ (Late(s, i) => Late(r, i)) /\ (Stale(s, i) => Stale(r, i))
    BY <1>10, <1>11, <2>3
  <2> QED BY <1>20, <2>1, <2>2, <2>3
<1>21. SendsPaid(i)'
  BY <1>1, <1>2, <1>3, <1>6, <1>7, <1>13, <1>14, <1>16, <1>18, <1>19, <1>20, SendsStep
<1>22. MailsPaid(i)'
  BY <1>1, <1>4, <1>5, <1>8, <1>9, <1>13, <1>17, <1>18, <1>19, <1>20, MailsStep
<1> QED BY <1>21, <1>22

\* The row of an item that nobody writes says the same.
LEMMA RowSame ==
    ASSUME NEW i, fila'[i] = fila[i]
    PROVE  /\ RetryOf(i)' = RetryOf(i) /\ Settled(i)' = Settled(i)
           /\ \A s : Is(i, s)' = Is(i, s)
BY DEF RetryOf, Settled, Is


-----------------------------------------------------------------------------
LEMMA CallNext == ASSUME NEW b, NEW t, t = consumer'[b], CallOK(t) PROVE CallOK(consumer[b])'
BY DEF CallOK

\* Rows that stay or are written, and a call that moves, keep the type.
LEMMA RowsKept ==
    ASSUME RowsOK, UNCHANGED fila
    PROVE  RowsOK' /\ \A j \in Items : fila[j] # None => fila'[j] # None
BY DEF RowsOK

LEMMA CallTyped ==
    ASSUME TypeOK, NEW c \in Consumers, NEW s, Moves(c, s), CallOK(s), RowsOK', CountOK',
           \A i \in DOMAIN s.rows \cup s.lote : fila[i] # None,
           \A j \in Items : fila[j] # None => fila'[j] # None
    PROVE  TypeOK'
<1> USE DEF TypeOK
<1>1. PICK S : S = consumer' OBVIOUS
<1>2. S[c] = s /\ (\A b \in Consumers : b # c => S[b] = consumer[b]) /\ S = [b \in Consumers |-> S[b]]
  BY <1>1, MovesFacts
<1>3. \A b \in Consumers : CallOK(S[b])
  BY <1>2 DEF CallsOK
<1>4. CallsOK'
  <2>1. ASSUME NEW b \in Consumers PROVE CallOK(consumer[b])'
    <3>1. PICK t : t = S[b] OBVIOUS
    <3>2. t = consumer'[b] BY <1>1, <3>1
    <3>3. CallOK(t) BY <1>3, <3>1
    <3> QED BY <3>2, <3>3, CallNext
  <2> QED BY <1>1, <1>2, <2>1 DEF CallsOK
<1>5. ASSUME NEW b \in Consumers, NEW i \in DOMAIN S[b].rows \cup S[b].lote PROVE fila'[i] # None
  <2>1. i \in Items BY <1>3, <1>5 DEF CallOK
  <2>2. fila[i] # None BY <1>2, <1>5 DEF KnownRows
  <2> QED BY <2>1, <2>2
<1> QED BY <1>1, <1>4, <1>5 DEF KnownRows

\* What was recorded of the sends stays true, for the counters only grow.
LEMMA RowRecordKept ==
    ASSUME TypeOK, CountOK', Recorded, NEW i \in Items, fila'[i] = fila[i],
           sends[i] <= sends'[i], mails[i] <= mails'[i]
    PROVE  RowRecord(i)'
<1>1. /\ sends[i] \in Nat /\ sends'[i] \in Nat /\ mails[i] \in Nat /\ mails'[i] \in Nat
      /\ MaxRetries \in Nat
  BY EmailAssumption DEF TypeOK, CountOK
<1>2. RetryOf(i)' = RetryOf(i) /\ (Is(i, "SENT")' <=> Is(i, "SENT"))
      /\ (Is(i, "ERROR")' <=> Is(i, "ERROR"))
  BY DEF RetryOf, Is
<1>3. PICK n \in Nat : n = RetryOf(i) BY RetryTyped DEF TypeOK
<1>4. n <= sends[i] BY <1>3 DEF Recorded, RowRecord
<1>5. n <= sends'[i] BY <1>4, <1>3, <1>1
<1>6. Is(i, "SENT") => mails'[i] > 0 BY <1>1 DEF Recorded, RowRecord
<1>7. Is(i, "ERROR") => sends'[i] >= MaxRetries BY <1>1 DEF Recorded, RowRecord
<1> QED BY <1>2, <1>3, <1>5, <1>6, <1>7 DEF RowRecord

LEMMA RecordedMove ==
    ASSUME TypeOK, TypeOK', Recorded, NEW c \in Consumers, NEW s, Moves(c, s),
           \A i \in Items : sends[i] <= sends'[i] /\ mails[i] <= mails'[i],
           \A i \in Items : fila'[i] = fila[i] \/ RowRecord(i)',
           CallRecord(s)'
    PROVE  Recorded'
<1>1. \A i \in Items : sends[i] \in Nat /\ sends'[i] \in Nat /\ mails[i] \in Nat /\ mails'[i] \in Nat
  BY DEF TypeOK, CountOK
<1>2. ASSUME NEW i \in Items PROVE RowRecord(i)'
  BY RowRecordKept DEF TypeOK
<1>3. ASSUME NEW b \in Consumers PROVE CallRecord(consumer[b])'
  <2>1. PICK r : r = consumer[b] OBVIOUS
  <2>2. PICK t : t = consumer'[b] OBVIOUS
  <2>3. CallOK(r) BY <2>1 DEF TypeOK, CallsOK
  <2>4. CASE b = c
    <3>1. t = s BY <2>2, <2>4, MovesFacts DEF TypeOK
    <3> QED BY <2>2, <3>1 DEF CallRecord
  <2>5. CASE b # c
    <3>1. t = r BY <2>1, <2>2, <2>5, MovesFacts DEF TypeOK
    <3>2. CallRecord(r) BY <2>1 DEF Recorded, CallRecord
    <3>3. /\ \A i \in DOMAIN r.rows : i \in Items /\ r.rows[i] \in Row
          /\ r.pc \in LoadedPc => r.item \in DOMAIN r.rows
      BY <2>3 DEF CallOK
    <3>4. \A i \in DOMAIN r.rows : r.rows[i].retry \in Nat
      BY <3>3, EmailAssumption DEF Row, RetryLimit
    <3>5. \A i \in DOMAIN r.rows : r.rows[i].retry <= sends'[i]
      BY <3>2, <3>3, <3>4, <1>1 DEF CallRecord
    <3>6. r.pc = "sent" => mails'[r.item] > 0
      BY <3>2, <3>3, <1>1 DEF CallRecord, LoadedPc
    <3>7. r.pc \in {"try", "failed"} => r.rows[r.item].retry + 1 <= sends'[r.item]
      BY <3>2, <3>3, <3>4, <1>1 DEF CallRecord, LoadedPc
    <3> QED BY <2>2, <3>1, <3>5, <3>6, <3>7 DEF CallRecord
  <2> QED BY <2>4, <2>5
<1> QED BY <1>2, <1>3 DEF Recorded

\* Until a fault or an open circuit the call that moves is the only one.
LEMMA ReservedMove ==
    ASSUME TypeOK, Reserved, NEW c \in Consumers, NEW r, r = consumer[c], NEW s, Moves(c, s),
           \/ faults' = faults + 1
           \/ opened'
           \/ /\ faults' = faults /\ opened' = opened
              /\ r.pc # "idle" \/ \A b \in Consumers : At(b, "idle")
              /\ (faults = 0 /\ ~opened) =>
                    /\ \A i \in Items : Is(i, "PROCESSING")' <=> Working(s, i)
                    /\ s.pc \in LoadedPc => s.rows[s.item].status = "PROCESSING"
    PROVE  Reserved'
<1>1. CASE faults' = faults + 1
  <2>1. faults \in Nat BY DEF TypeOK, CountOK
  <2>2. ~(faults' = 0) BY <1>1, <2>1
  <2> QED BY <2>2 DEF Reserved
<1>2. CASE opened' BY <1>2 DEF Reserved
<1>3. CASE /\ faults' = faults /\ opened' = opened
           /\ r.pc # "idle" \/ \A b \in Consumers : At(b, "idle")
           /\ (faults = 0 /\ ~opened) =>
                 /\ \A i \in Items : Is(i, "PROCESSING")' <=> Working(s, i)
                 /\ s.pc \in LoadedPc => s.rows[s.item].status = "PROCESSING"
  <2> SUFFICES ASSUME faults = 0, ~opened PROVE Reserved'
    BY <1>3 DEF Reserved
  <2>1. PICK S : S = consumer' OBVIOUS
  <2>2. S[c] = s /\ \A b \in Consumers : b # c => S[b] = consumer[b]
    BY <2>1, MovesFacts DEF TypeOK
  <2>3. \A b \in Consumers : b # c => consumer[b].pc = "idle"
    BY <1>3 DEF Reserved, Alone, At
  <2>4. \A b \in Consumers : b # c => S[b].pc = "idle"
    BY <2>2, <2>3
  <2>5. Alone' BY <2>1, <2>4 DEF Alone, At
  <2>6. ASSUME NEW i \in Items
        PROVE  Is(i, "PROCESSING")' <=> \E b \in Consumers : Working(S[b], i)
    <3>1. \A b \in Consumers : b # c => ~Working(S[b], i) BY <2>4 DEF Working
    <3> QED BY <1>3, <2>2, <3>1
  <2>7. \A b \in Consumers : S[b].pc \in LoadedPc => S[b].rows[S[b].item].status = "PROCESSING"
    BY <1>3, <2>2, <2>4 DEF LoadedPc
  <2>8. ASSUME NEW i \in Items
        PROVE  (\E b \in Consumers : Working(consumer[b], i))' <=> \E b \in Consumers : Working(S[b], i)
    BY <2>1 DEF Working
  <2> QED BY <2>1, <2>5, <2>6, <2>7, <2>8 DEF Reserved
<1> QED BY <1>1, <1>2, <1>3

\* What is reserved, seen from the only call at work.
LEMMA ReservedKnows ==
    ASSUME TypeOK, Reserved, faults = 0, ~opened, NEW c \in Consumers, NEW r, r = consumer[c],
           r.pc # "idle" \/ \A b \in Consumers : At(b, "idle"), NEW i \in Items
    PROVE  /\ Is(i, "PROCESSING") <=> Working(r, i)
           /\ r.pc \in LoadedPc => r.rows[r.item].status = "PROCESSING"
<1>1. \A b \in Consumers : b # c => consumer[b].pc = "idle"
  BY DEF Reserved, Alone, At
<1>2. \A b \in Consumers : b # c => ~Working(consumer[b], i)
  BY <1>1 DEF Working
<1> QED BY <1>2 DEF Reserved

-----------------------------------------------------------------------------
\* A call that moves and writes neither a row nor a counter of effects.  With a
\* fault it may drop anything; without one it drops no send it made.
LEMMA CallMoves ==
    ASSUME IInv, NEW c \in Consumers, NEW r, r = consumer[c], NEW s, Moves(c, s), CallOK(s),
           UNCHANGED <<fila, mails, sends>>, CountOK', NEW d \in {0, 1}, faults' = faults + d,
           \A i \in DOMAIN s.rows \cup s.lote : fila[i] # None,
           \A i \in DOMAIN s.rows : s.rows[i] = fila[i] \/ (i \in DOMAIN r.rows /\ s.rows[i] = r.rows[i]),
           \A i \in Items : Threat(s, i) => (Threat(r, i) \/ ~Settled(i)),
           \A i \in Items : \A n \in Nat : Holds(s, i, n) => (Holds(r, i, n) \/ n = RetryOf(i)),
           d = 0 => \A i \in Items : Less(r, s, i) /\ (Settled(i) \/ Entitled(r, s, i)),
           d = 1 => \A i \in Items : (Late(s, i) => Late(r, i)) /\ (Stale(s, i) => Stale(r, i)),
           s.pc = "sent" => r.pc = "sent" /\ s.item = r.item,
           s.pc \in {"try", "failed"} => /\ r.pc = "try" /\ s.item = r.item /\ s.rows = r.rows,
           \/ d = 1
           \/ opened'
           \/ /\ d = 0 /\ opened' = opened
              /\ r.pc # "idle" \/ \A b \in Consumers : At(b, "idle")
              /\ (faults = 0 /\ ~opened) =>
                    /\ \A i \in Items : Is(i, "PROCESSING") <=> Working(s, i)
                    /\ s.pc \in LoadedPc => s.rows[s.item].status = "PROCESSING"
    PROVE  IInv'
<1>1. TypeOK /\ CallOK(r) /\ Recorded /\ CallRecord(r) /\ Reserved
  BY DEF IInv, TypeOK, CallsOK, Recorded, CallRecord
<1>2. TypeOK' BY <1>1, RowsKept, CallTyped DEF TypeOK
<1>3. Paid'
  <2> SUFFICES ASSUME NEW i \in Items PROVE SendsPaid(i)' /\ MailsPaid(i)'
    BY DEF Paid
  <2>1. SendsPaid(i) /\ MailsPaid(i) BY DEF IInv, Paid
  <2>2. /\ RetryOf(i)' = RetryOf(i) /\ Settled(i)' = Settled(i)
        /\ sends'[i] = sends[i] /\ mails'[i] = mails[i]
    BY RowSame
  <2>3. d = 0 => Less(r, s, i) OBVIOUS
  <2>4. ~Settled(i)' =>
           \/ ~Settled(i) /\ Entitled(r, s, i)
           \/ d = 1 /\ (Late(s, i) => Late(r, i)) /\ (Stale(s, i) => Stale(r, i))
    BY <2>2
  <2> QED BY <1>1, <1>2, <2>1, <2>2, <2>3, <2>4, PaidItem
<1>4. Recorded'
  <2>1. \A i \in Items : sends[i] \in Nat /\ mails[i] \in Nat BY <1>1 DEF TypeOK, CountOK
  <2>2. \A i \in DOMAIN s.rows : s.rows[i].retry <= sends[i]
    <3> SUFFICES ASSUME NEW i \in DOMAIN s.rows PROVE s.rows[i].retry <= sends[i]
      OBVIOUS
    <3>1. i \in Items /\ fila[i] # None BY DEF CallOK
    <3>2. RetryOf(i) <= sends[i] BY <1>1, <3>1 DEF Recorded, RowRecord
    <3>3. fila[i].retry <= sends[i] BY <3>1, <3>2 DEF RetryOf
    <3> QED BY <1>1, <3>3 DEF CallRecord
  <2>3. s.pc = "sent" => mails[s.item] > 0 BY <1>1 DEF CallRecord
  <2>4. s.pc \in {"try", "failed"} => s.rows[s.item].retry + 1 <= sends[s.item]
    BY <1>1 DEF CallRecord
  <2>5. CallRecord(s)' BY <2>2, <2>3, <2>4 DEF CallRecord
  <2> QED BY <1>1, <1>2, <2>1, <2>5, RecordedMove
<1>5. Reserved'
  <2>1. \A i \in Items : Is(i, "PROCESSING")' <=> Is(i, "PROCESSING") BY DEF Is
  <2>2. d = 0 => faults' = faults BY <1>1 DEF TypeOK, CountOK
  <2>3. \/ faults' = faults + 1
        \/ opened'
        \/ /\ faults' = faults /\ opened' = opened
           /\ r.pc # "idle" \/ \A b \in Consumers : At(b, "idle")
           /\ (faults = 0 /\ ~opened) =>
                 /\ \A i \in Items : Is(i, "PROCESSING")' <=> Working(s, i)
                 /\ s.pc \in LoadedPc => s.rows[s.item].status = "PROCESSING"
    BY <2>1, <2>2
  <2> QED BY <1>1, <2>3, ReservedMove
<1> QED BY <1>2, <1>3, <1>4, <1>5 DEF IInv

\* The call ends: with a fault wherever it was, or without one where it has
\* told of everything it sent.
LEMMA CallEnds ==
    ASSUME IInv, NEW c \in Consumers, NEW r, r = consumer[c], Moves(c, Resting),
           UNCHANGED <<fila, mails, sends>>, circuit' \in [Consumers -> CircuitState],
           \/ faults' = faults + 1 /\ faults < MaxFaults /\ UNCHANGED opened
           \/ faults' = faults /\ r.pc = "send" /\ opened' = TRUE
           \/ faults' = faults /\ r.pc = "batch" /\ r.lote = {} /\ UNCHANGED opened
    PROVE  IInv'
<1>1. TypeOK /\ CallOK(r) /\ CountOK /\ Reserved BY DEF IInv, TypeOK, CallsOK
<1>2. PICK d \in {0, 1} : faults' = faults + d BY <1>1 DEF CountOK
<1>3. CountOK'
  <2>1. faults' \in 0..MaxFaults BY <1>1, EmailAssumption DEF CountOK
  <2>2. opened' \in BOOLEAN BY <1>1 DEF CountOK
  <2> QED BY <1>1, <2>1, <2>2 DEF CountOK
<1>4. /\ CallOK(Resting) /\ Resting.pc = "idle"
  BY RestingOK, RestingIdle
<1>5. /\ \A i : /\ ~Threat(Resting, i) /\ ~Late(Resting, i) /\ ~Stale(Resting, i)
                /\ ~Ahead(Resting, i) /\ ~Pending(Resting, i) /\ ~Working(Resting, i)
                /\ \A n : ~Holds(Resting, i, n)
      /\ DOMAIN Resting.rows = {} /\ Resting.lote = {}
  BY <1>4, IdleCall
<1>6. ASSUME d = 0 PROVE \A i \in Items : Less(r, Resting, i) /\ Entitled(r, Resting, i)
  <2>1. r.pc \in {"send", "batch"} BY <1>1, <1>2, <1>6 DEF CountOK
  <2> QED BY <1>5, <2>1 DEF Less, Entitled, Owes, Made
<1>7. ASSUME d = 0, ~opened'
      PROVE  /\ opened' = opened /\ r.pc # "idle"
             /\ (faults = 0 /\ ~opened) => \A i \in Items : Is(i, "PROCESSING") <=> Working(Resting, i)
  <2>1. faults' = faults /\ r.pc = "batch" /\ r.lote = {} /\ UNCHANGED opened
    BY <1>1, <1>2, <1>7 DEF CountOK
  <2>2. ASSUME faults = 0, ~opened, NEW i \in Items PROVE Is(i, "PROCESSING") <=> Working(Resting, i)
    <3>1. ~Working(r, i) BY <2>1 DEF Working
    <3>2. r.pc # "idle" BY <2>1
    <3>3. Is(i, "PROCESSING") <=> Working(r, i) BY <1>1, <2>2, <3>2, ReservedKnows
    <3> QED BY <1>5, <3>1, <3>3
  <2> QED BY <2>1, <2>2
<1>8. d = 0 => faults' = faults BY <1>1, <1>2 DEF CountOK
<1>9. opened' \in BOOLEAN BY <1>3 DEF CountOK
<1> HIDE DEF Resting
<1>10. Resting.pc \notin LoadedPc /\ Resting.pc \notin {"sent", "try", "failed"} BY <1>4 DEF LoadedPc
<1>11. \/ d = 1
       \/ opened'
       \/ /\ d = 0 /\ opened' = opened
          /\ r.pc # "idle" \/ \A b \in Consumers : At(b, "idle")
          /\ (faults = 0 /\ ~opened) =>
                /\ \A i \in Items : Is(i, "PROCESSING") <=> Working(Resting, i)
                /\ Resting.pc \in LoadedPc => Resting.rows[Resting.item].status = "PROCESSING"
  BY <1>7, <1>10
<1> QED BY <1>2, <1>3, <1>4, <1>5, <1>6, <1>10, <1>11, CallMoves


LEMMA CrashKeeps == ASSUME IInv, NEW c \in Consumers, Crash(c) PROVE IInv'
<1>1. PICK r : r = consumer[c] OBVIOUS
<1>2. circuit' \in [Consumers -> CircuitState]
  BY NewTyped DEF IInv, TypeOK, CountOK, Crash
<1>3. Moves(c, Resting) /\ faults' = faults + 1 /\ faults < MaxFaults /\ UNCHANGED <<fila, mails, sends, opened>>
  BY DEF Crash, Fault, Moves
<1> QED BY <1>1, <1>2, <1>3, CallEnds

LEMMA ErroBancoKeeps == ASSUME IInv, NEW c \in Consumers, ErroBanco(c) PROVE IInv'
<1>1. PICK r : r = consumer[c] OBVIOUS
<1>2. circuit' \in [Consumers -> CircuitState]
  BY DEF IInv, TypeOK, CountOK, ErroBanco
<1>3. Moves(c, Resting) /\ faults' = faults + 1 /\ faults < MaxFaults /\ UNCHANGED <<fila, mails, sends, opened>>
  BY DEF ErroBanco, Fault, Moves
<1> QED BY <1>1, <1>2, <1>3, CallEnds

LEMMA TerminarKeeps == ASSUME IInv, NEW c \in Consumers, Terminar(c) PROVE IInv'
<1>1. PICK r : r = consumer[c] OBVIOUS
<1>2. circuit' \in [Consumers -> CircuitState]
  BY DEF IInv, TypeOK, CountOK, Terminar
<1>3. /\ Moves(c, Resting) /\ faults' = faults /\ r.pc = "batch" /\ r.lote = {}
      /\ UNCHANGED <<fila, mails, sends, opened>>
  BY <1>1 DEF Terminar, At, Moves
<1> QED BY <1>1, <1>2, <1>3, CallEnds

\* The circuit is open: the call ends, and its reservations stay.
LEMMA GuardOpenKeeps ==
    ASSUME IInv, NEW c \in Consumers, Guard(c), IsOpen(circuit[c]) PROVE IInv'
<1>1. PICK r : r = consumer[c] OBVIOUS
<1>2. circuit' \in [Consumers -> CircuitState]
  BY DEF IInv, TypeOK, CountOK, Guard
<1>3. /\ Moves(c, Resting) /\ faults' = faults /\ r.pc = "send" /\ opened' = TRUE
      /\ UNCHANGED <<fila, mails, sends>>
  BY <1>1 DEF Guard, At, Moves
<1> QED BY <1>1, <1>2, <1>3, CallEnds

-----------------------------------------------------------------------------
\* The fields of a call.
CallRecs(rows) == [pc : ConsumerPc, rows : {rows}, lote : SUBSET Items,
                   item : Items \cup {None}, attempt : 0..MaxAttempts]

\* A call with a row in hand goes on with the same session.
SameHand(r, s) == s.rows = r.rows /\ s.lote = r.lote /\ s.item = r.item

LEMMA HandOK ==
    ASSUME NEW r, CallOK(r), r.pc \in LoadedPc, NEW s, SameHand(r, s), s.pc \in LoadedPc,
           s \in CallRecs(r.rows)
    PROVE  CallOK(s)
BY DEF CallOK, SameHand, CallRecs, LoadedPc, InHandPc

LEMMA GotoShape ==
    ASSUME TypeOK, NEW c \in Consumers, NEW r, r = consumer[c], r.pc \in LoadedPc,
           NEW pc \in LoadedPc, Goto(c, pc)
    PROVE  \E s : Moves(c, s) /\ CallOK(s) /\ s.pc = pc /\ SameHand(r, s)
<1>1. CallOK(r) BY DEF TypeOK, CallsOK
<1>2. PICK l : l = r.rows OBVIOUS
<1>3. r \in CallRecs(l) BY <1>1, <1>2 DEF CallOK, CallRecs
<1>4. PICK s : s = [r EXCEPT !.pc = pc] OBVIOUS
<1>5. Moves(c, s) BY <1>4 DEF Goto, Moves
<1>6. /\ s \in CallRecs(l) /\ s.pc = pc /\ s.rows = l /\ s.lote = r.lote /\ s.item = r.item
  BY <1>4, <1>3 DEF CallRecs, ConsumerPc, LoadedPc
<1>7. SameHand(r, s) BY <1>2, <1>6 DEF SameHand
<1>8. CallOK(s) BY <1>1, <1>2, <1>6, <1>7, HandOK
<1> QED BY <1>5, <1>6, <1>7, <1>8

\* A failed attempt: the next one, or the failure that the row will tell of.
LEMMA TryShape ==
    ASSUME TypeOK, NEW c \in Consumers, NEW r, r = consumer[c], FalharTentativa(c)
    PROVE  /\ r.pc = "try" /\ CallOK(r)
           /\ circuit' \in [Consumers -> CircuitState]
           /\ \E s : /\ Moves(c, s) /\ CallOK(s) /\ s.pc \in {"try", "failed"} /\ SameHand(r, s)
<1>1. CallOK(r) /\ r.pc = "try" BY DEF TypeOK, CallsOK, FalharTentativa, At
<1>2. PICK l : l = r.rows OBVIOUS
<1>3. r \in CallRecs(l) BY <1>1, <1>2 DEF CallOK, CallRecs
<1>4. CASE r.attempt < MaxAttempts
  <2>1. PICK n : n = r.attempt + 1 OBVIOUS
  <2>2. PICK s : s = [r EXCEPT !.attempt = n] OBVIOUS
  <2>3. Moves(c, s) /\ UNCHANGED circuit BY <1>4, <2>1, <2>2 DEF FalharTentativa, Moves
  <2>4. n \in 0..MaxAttempts BY <1>3, <1>4, <2>1, CircuitAssumption DEF CallRecs
  <2>5. s \in CallRecs(l) /\ s.pc = "try" /\ s.rows = l /\ s.lote = r.lote /\ s.item = r.item
    BY <1>1, <1>3, <2>2, <2>4 DEF CallRecs
  <2>6. SameHand(r, s) BY <1>2, <2>5 DEF SameHand
  <2>7. CallOK(s) BY <1>1, <1>2, <2>5, <2>6, HandOK DEF LoadedPc
  <2> QED BY <1>1, <2>3, <2>5, <2>6, <2>7 DEF TypeOK, CountOK
<1>5. CASE ~(r.attempt < MaxAttempts)
  <2>1. Goto(c, "failed") /\ circuit' = [circuit EXCEPT ![c] = RecordFailure(circuit[c])]
    BY <1>5 DEF FalharTentativa
  <2>2. \E s : Moves(c, s) /\ CallOK(s) /\ s.pc = "failed" /\ SameHand(r, s)
    BY <1>1, <2>1, GotoShape DEF LoadedPc
  <2>3. circuit' \in [Consumers -> CircuitState]
    BY <2>1, FailureTyped DEF TypeOK, CountOK
  <2> QED BY <1>1, <2>2, <2>3
<1> QED BY <1>4, <1>5

\* Nothing is lost or gained for any row when an attempt fails.
LEMMA TryFacts ==
    ASSUME NEW r, NEW s, r.pc = "try", s.pc \in {"try", "failed"}, SameHand(r, s), NEW i
    PROVE  /\ Less(r, s, i) /\ Entitled(r, s, i)
           /\ Threat(s, i) => Threat(r, i)
           /\ \A n : Holds(s, i, n) => Holds(r, i, n)
           /\ Working(s, i) <=> Working(r, i)
           /\ (Pending(s, i) <=> Pending(r, i)) /\ (Stale(s, i) <=> Stale(r, i))
           /\ (Made(s, i) <=> Made(r, i))
<1>1. s.rows = r.rows /\ s.lote = r.lote /\ s.item = r.item BY DEF SameHand
<1>2. \A n : Holds(s, i, n) => Holds(r, i, n) BY <1>1 DEF Holds
<1>3. (Working(s, i) <=> Working(r, i)) /\ (Threat(s, i) => Threat(r, i))
  BY <1>1 DEF Working, Threat
<1>4. (Ahead(s, i) <=> Ahead(r, i)) /\ (Pending(s, i) <=> Pending(r, i)) BY <1>1 DEF Ahead, Pending
<1>5. /\ (Late(s, i) <=> Late(r, i)) /\ (Stale(s, i) <=> Stale(r, i))
      /\ (Owes(s, i) <=> Owes(r, i)) /\ (Made(s, i) <=> Made(r, i))
  BY <1>1 DEF Late, Stale, Owes, Made
<1> QED BY <1>2, <1>3, <1>4, <1>5 DEF Less, Entitled

\* A failed attempt, and a refusal for good, tell nobody yet.
LEMMA TryMoves ==
    ASSUME IInv, NEW c \in Consumers, NEW r, r = consumer[c], r.pc = "try",
           NEW s, Moves(c, s), CallOK(s), s.pc \in {"try", "failed"}, SameHand(r, s),
           circuit' \in [Consumers -> CircuitState], UNCHANGED <<fila, mails, sends, opened, faults>>
    PROVE  IInv'
<1>1. TypeOK /\ CallOK(r) /\ CountOK /\ Reserved BY DEF IInv, TypeOK, CallsOK
<1>2. faults' = faults + 0 /\ CountOK' BY <1>1 DEF CountOK
<1>3. s.rows = r.rows /\ s.lote = r.lote /\ s.item = r.item BY DEF SameHand
<1>4. \A i \in DOMAIN s.rows \cup s.lote : fila[i] # None
  BY <1>1, <1>3 DEF TypeOK, KnownRows
<1>5. \A i : /\ Less(r, s, i) /\ Entitled(r, s, i)
             /\ Threat(s, i) => Threat(r, i)
             /\ \A n : Holds(s, i, n) => Holds(r, i, n)
             /\ Working(s, i) <=> Working(r, i)
  BY TryFacts
<1>6. r.pc # "idle" OBVIOUS
<1>7. ASSUME faults = 0, ~opened
      PROVE  /\ \A i \in Items : Is(i, "PROCESSING") <=> Working(s, i)
             /\ s.pc \in LoadedPc => s.rows[s.item].status = "PROCESSING"
  <2>1. \A i \in Items : Is(i, "PROCESSING") <=> Working(r, i) BY <1>1, <1>6, <1>7, ReservedKnows
  <2>2. r.item \in Items BY <1>1 DEF CallOK, LoadedPc, InHandPc
  <2>3. r.rows[r.item].status = "PROCESSING" BY <1>1, <1>6, <1>7, <2>2, ReservedKnows DEF LoadedPc
  <2> QED BY <1>3, <1>5, <2>1, <2>3
<1> QED BY <1>1, <1>2, <1>3, <1>4, <1>5, <1>6, <1>7, CallMoves

LEMMA FalharKeeps == ASSUME IInv, NEW c \in Consumers, Falhar(c) PROVE IInv'
<1>1. PICK r : r = consumer[c] OBVIOUS
<1>2. TypeOK /\ FalharTentativa(c) /\ UNCHANGED <<fila, mails, sends, opened, faults>>
  BY DEF IInv, Falhar
<1>3. /\ r.pc = "try" /\ CallOK(r) /\ circuit' \in [Consumers -> CircuitState]
      /\ \E s : /\ Moves(c, s) /\ CallOK(s) /\ s.pc \in {"try", "failed"} /\ SameHand(r, s)
  BY <1>1, <1>2, TryShape
<1> QED BY <1>1, <1>2, <1>3, TryMoves

LEMMA RecusarKeeps == ASSUME IInv, NEW c \in Consumers, Recusar(c) PROVE IInv'
<1>1. PICK r : r = consumer[c] OBVIOUS
<1>2. TypeOK /\ r.pc = "try" /\ Goto(c, "failed") /\ UNCHANGED <<fila, circuit, mails, sends, opened, faults>>
  BY <1>1 DEF IInv, Recusar, At
<1>3. \E s : Moves(c, s) /\ CallOK(s) /\ s.pc = "failed" /\ SameHand(r, s)
  BY <1>1, <1>2, GotoShape DEF LoadedPc
<1>4. circuit' \in [Consumers -> CircuitState] BY <1>2 DEF TypeOK, CountOK
<1> QED BY <1>1, <1>2, <1>3, <1>4, TryMoves


-----------------------------------------------------------------------------
\* The row in hand is done.
LEMMA AuditarKeeps == ASSUME IInv, NEW c \in Consumers, Auditar(c) PROVE IInv'
<1>1. PICK r : r = consumer[c] OBVIOUS
<1>2. TypeOK /\ CallOK(r) /\ CountOK /\ Reserved /\ r.pc = "audit"
      /\ UNCHANGED <<fila, circuit, mails, sends, opened, faults>>
  BY <1>1 DEF IInv, TypeOK, CallsOK, Auditar, At
<1>3. r.item \in r.lote /\ r.lote \subseteq Items /\ DOMAIN r.rows = {}
  BY <1>2 DEF CallOK, InHandPc
<1>4. PICK m : m = r.lote \ {r.item} OBVIOUS
<1>5. PICK s : s = [r EXCEPT !.pc = "batch", !.item = None, !.lote = m, !.attempt = 0] OBVIOUS
<1>6. Moves(c, s) BY <1>1, <1>4, <1>5 DEF Auditar, NextRow, Moves
<1>7. PICK l : l = r.rows OBVIOUS
<1>8. r \in CallRecs(l) BY <1>2, <1>7 DEF CallOK, CallRecs
<1>z. 0 \in 0..MaxAttempts BY CircuitAssumption
<1>9. m \in SUBSET Items BY <1>3, <1>4
<1>10. s \in CallRecs(l) /\ s.pc = "batch" /\ s.item = None /\ s.lote = m /\ s.rows = l
  BY <1>5, <1>8, <1>z, <1>9 DEF CallRecs, ConsumerPc
<1>11. CallOK(s) BY <1>2, <1>3, <1>7, <1>10 DEF CallOK, CallRecs, InHandPc, LoadedPc
<1>12. ASSUME NEW i \in Items
       PROVE  /\ Less(r, s, i) /\ Entitled(r, s, i)
              /\ Threat(s, i) => Threat(r, i)
              /\ \A n : ~Holds(s, i, n)
              /\ Working(s, i) <=> Working(r, i)
  <2>1. i # None BY EmailAssumption
  <2>2. (i \in m) <=> (i \in r.lote /\ i # r.item) BY <1>4
  <2>3. (Ahead(s, i) => Ahead(r, i)) /\ (Pending(s, i) => Pending(r, i))
    BY <1>2, <1>10, <2>1, <2>2 DEF Ahead, Pending
  <2>4. ~Owes(r, i) /\ ~Made(r, i) /\ ~Late(s, i) /\ ~Stale(s, i)
    BY <1>2, <1>10 DEF Owes, Made, Late, Stale
  <2>5. /\ Threat(s, i) => Threat(r, i)
        /\ \A n : ~Holds(s, i, n)
        /\ Working(s, i) <=> Working(r, i)
    BY <1>2, <1>10, <2>1, <2>2 DEF Threat, Holds, Working
  <2> QED BY <2>3, <2>4, <2>5 DEF Less, Entitled
<1>13. faults' = faults + 0 /\ CountOK' BY <1>2 DEF CountOK
<1>14. \A i \in DOMAIN s.rows \cup s.lote : fila[i] # None
  BY <1>1, <1>2, <1>3, <1>4, <1>7, <1>10 DEF TypeOK, KnownRows
<1>15. r.pc # "idle" /\ s.pc \notin LoadedPc /\ s.pc \notin {"sent", "try", "failed"} /\ DOMAIN s.rows = {}
  BY <1>2, <1>3, <1>7, <1>10 DEF LoadedPc
<1>16. ASSUME faults = 0, ~opened, NEW i \in Items PROVE Is(i, "PROCESSING") <=> Working(s, i)
  <2>1. Is(i, "PROCESSING") <=> Working(r, i) BY <1>1, <1>2, <1>15, <1>16, ReservedKnows
  <2> QED BY <1>12, <2>1
<1>17. opened' = opened /\ UNCHANGED <<fila, mails, sends>> BY <1>2
<1> QED BY <1>1, <1>6, <1>11, <1>12, <1>13, <1>14, <1>15, <1>16, <1>17, CallMoves

\* The next row is loaded: its count is the one stored.
LEMMA PrepararKeeps == ASSUME IInv, NEW c \in Consumers, NEW j \in Items, Preparar(c, j) PROVE IInv'
<1>1. PICK r : r = consumer[c] OBVIOUS
<1>2. TypeOK /\ CallOK(r) /\ CountOK /\ RowsOK /\ Reserved /\ r.pc = "batch" /\ j \in r.lote
      /\ UNCHANGED <<fila, circuit, mails, sends, opened, faults>>
  BY <1>1 DEF IInv, TypeOK, CallsOK, Preparar, At
<1>3. r.item = None /\ r.lote \subseteq Items /\ DOMAIN r.rows = {}
  BY <1>2 DEF CallOK, InHandPc, LoadedPc
<1>4. PICK l : l = Load({j}) OBVIOUS
<1>5. fila[j] # None /\ fila[j] \in Row BY <1>1, <1>2 DEF TypeOK, KnownRows, RowsOK
<1>6. DOMAIN l = {j} /\ l[j] = fila[j] /\ l = [i \in DOMAIN l |-> l[i]] BY <1>4 DEF Load
<1>7. PICK s : s = [r EXCEPT !.pc = "send", !.rows = l, !.item = j] OBVIOUS
<1>8. Moves(c, s) BY <1>1, <1>4, <1>7 DEF Preparar, Moves
<1>9. PICK k : k = r.rows OBVIOUS
<1>10. r \in CallRecs(k) BY <1>2, <1>9 DEF CallOK, CallRecs
<1>11. s \in CallRecs(l) /\ s.pc = "send" /\ s.item = j /\ s.lote = r.lote /\ s.rows = l
  BY <1>7, <1>10 DEF CallRecs, ConsumerPc
<1>12. CallOK(s) BY <1>2, <1>5, <1>6, <1>11 DEF CallOK, CallRecs, InHandPc, LoadedPc
<1>13. ASSUME NEW i \in Items
       PROVE  /\ Less(r, s, i)
              /\ Settled(i) \/ Entitled(r, s, i)
              /\ Threat(s, i) => Threat(r, i)
              /\ \A n \in Nat : Holds(s, i, n) => n = RetryOf(i)
              /\ Working(s, i) <=> Working(r, i)
  <2>1. i # None BY EmailAssumption
  <2>2. (Ahead(s, i) => Ahead(r, i)) /\ (Pending(s, i) => Pending(r, i))
    BY <1>2, <1>3, <1>11, <2>1 DEF Ahead, Pending
  <2>3. ~Owes(r, i) /\ ~Made(r, i) BY <1>2 DEF Owes, Made
  <2>4. (Late(s, i) \/ Stale(s, i)) => Settled(i)
    BY <1>5, <1>6, <1>11 DEF Late, Stale, Over, Settled, Is
  <2>5. /\ Threat(s, i) => Threat(r, i)
        /\ Working(s, i) <=> Working(r, i)
    BY <1>2, <1>3, <1>11, <2>1 DEF Threat, Working
  <2>6. \A n \in Nat : Holds(s, i, n) => n = RetryOf(i)
    BY <1>5, <1>6, <1>11 DEF Holds, RetryOf
  <2> QED BY <2>2, <2>3, <2>4, <2>5, <2>6 DEF Less, Entitled
<1>14. faults' = faults + 0 /\ CountOK' BY <1>2 DEF CountOK
<1>15. \A i \in DOMAIN s.rows \cup s.lote : fila[i] # None
  BY <1>1, <1>2, <1>5, <1>6, <1>11 DEF TypeOK, KnownRows
<1>16. \A i \in DOMAIN s.rows : s.rows[i] = fila[i] BY <1>6, <1>11
<1>17. r.pc # "idle" /\ s.pc \notin {"sent", "try", "failed"} BY <1>2, <1>11
<1>18. ASSUME faults = 0, ~opened
       PROVE  /\ \A i \in Items : Is(i, "PROCESSING") <=> Working(s, i)
              /\ s.pc \in LoadedPc => s.rows[s.item].status = "PROCESSING"
  <2>1. \A i \in Items : Is(i, "PROCESSING") <=> Working(r, i)
    BY <1>1, <1>2, <1>17, <1>18, ReservedKnows
  <2>2. Working(r, j)
    <3>1. j # None BY EmailAssumption
    <3> QED BY <1>2, <1>3, <3>1 DEF Working
  <2>3. fila[j].status = "PROCESSING" BY <2>1, <2>2 DEF Is
  <2> QED BY <1>6, <1>11, <1>13, <2>1, <2>3
<1>19. opened' = opened /\ UNCHANGED <<fila, mails, sends>> BY <1>2
<1> QED BY <1>1, <1>8, <1>12, <1>13, <1>14, <1>15, <1>16, <1>17, <1>18, <1>19, CallMoves

-----------------------------------------------------------------------------
\* A call that has read rows into a new session.
LEMMA ReadShape ==
    ASSUME TypeOK, NEW T, T \subseteq Items, \A i \in T : fila[i] # None,
           NEW pc \in {"release", "reserve"}, NEW lot \in SUBSET Items,
           pc = "release" => lot = {} /\ \A i \in T : fila[i].status = "PROCESSING",
           pc = "reserve" => lot = T /\ \A i \in T : fila[i].status = "PENDING",
           NEW l, l = Load(T), NEW s, s \in CallRecs(l), s.pc = pc, s.lote = lot, s.item = None
    PROVE  /\ CallOK(s) /\ DOMAIN s.rows = T /\ \A i \in T : s.rows[i] = fila[i]
<1>3. DOMAIN l = T /\ l = [i \in DOMAIN l |-> l[i]] /\ \A i \in T : l[i] = fila[i] BY DEF Load
<1>4. \A i \in T : fila[i] \in Row BY DEF TypeOK, RowsOK
<1>9. s.rows = l BY DEF CallRecs
<1>10. CallOK(s)
  BY <1>3, <1>4, <1>9 DEF CallOK, CallRecs, InHandPc, LoadedPc
<1> QED BY <1>3, <1>9, <1>10

\* The lot is made of pending rows.
LEMMA LerPendentesKeeps == ASSUME IInv, NEW c \in Consumers, LerPendentes(c) PROVE IInv'
<1>1. PICK r : r = consumer[c] OBVIOUS
<1>2. TypeOK /\ CallOK(r) /\ CountOK /\ RowsOK /\ Reserved /\ r.pc = "list"
      /\ UNCHANGED <<fila, circuit, mails, sends, opened, faults>>
  BY <1>1 DEF IInv, TypeOK, CallsOK, LerPendentes, At
<1>3. r.item = None /\ r.lote = {} /\ DOMAIN r.rows = {}
  BY <1>2 DEF CallOK, InHandPc, LoadedPc
<1>4. PICK lot \in SUBSET {i \in Items : Is(i, "PENDING")} :
          consumer' = [consumer EXCEPT ![c] =
                  [Resting EXCEPT !.pc = "reserve", !.rows = Load(lot), !.lote = lot]]
  BY DEF LerPendentes
<1>l. PICK l : l = Load(lot) OBVIOUS
<1>5. PICK s : s = [Resting EXCEPT !.pc = "reserve", !.rows = l, !.lote = lot] OBVIOUS
<1>6. Moves(c, s) BY <1>4, <1>l, <1>5 DEF Moves
<1>7. lot \in SUBSET Items /\ \A i \in lot : fila[i] # None /\ fila[i].status = "PENDING"
  BY <1>4 DEF Is
<1>8. /\ CallOK(s) /\ s.pc = "reserve" /\ s.lote = lot /\ s.item = None
      /\ DOMAIN s.rows = lot /\ \A i \in lot : s.rows[i] = fila[i]
  <2>1. PICK k : k = Nothing OBVIOUS
  <2>2. Resting = [pc |-> "idle", rows |-> k, lote |-> {}, item |-> None, attempt |-> 0]
    BY <2>1 DEF Resting
  <2>3. 0 \in 0..MaxAttempts BY CircuitAssumption
  <2>4. s \in CallRecs(l) /\ s.pc = "reserve" /\ s.lote = lot /\ s.item = None
    BY <1>5, <1>7, <2>2, <2>3 DEF CallRecs, ConsumerPc
  <2>5. CallOK(s) /\ DOMAIN s.rows = lot /\ \A i \in lot : s.rows[i] = fila[i]
    BY <1>2, <1>l, <1>7, <2>4, ReadShape
  <2> QED BY <2>4, <2>5
<1>9. ASSUME NEW i \in Items
      PROVE  /\ Less(r, s, i) /\ Entitled(r, s, i)
             /\ Threat(s, i) => ~Settled(i)
             /\ \A n : ~Holds(s, i, n)
             /\ ~Working(s, i) /\ ~Working(r, i)
  <2>1. i # None BY EmailAssumption
  <2>2. Ahead(r, i) /\ Pending(r, i) BY <1>2 DEF Ahead, Pending
  <2>3. ~Owes(r, i) /\ ~Made(r, i) /\ ~Late(s, i) /\ ~Stale(s, i)
    BY <1>2, <1>8 DEF Owes, Made, Late, Stale
  <2>4. Threat(s, i) => ~Settled(i)
    BY <1>7, <1>8 DEF Threat, Settled, Is
  <2>5. (\A n : ~Holds(s, i, n)) /\ ~Working(s, i) /\ ~Working(r, i)
    BY <1>2, <1>8 DEF Holds, Working
  <2> QED BY <2>2, <2>3, <2>4, <2>5 DEF Less, Entitled
<1>10. faults' = faults + 0 /\ CountOK' BY <1>2 DEF CountOK
<1>11. r.pc # "idle" /\ s.pc \notin LoadedPc /\ s.pc \notin {"sent", "try", "failed"}
  BY <1>2, <1>8 DEF LoadedPc
<1>12. ASSUME faults = 0, ~opened, NEW i \in Items PROVE Is(i, "PROCESSING") <=> Working(s, i)
  <2>1. Is(i, "PROCESSING") <=> Working(r, i) BY <1>1, <1>2, <1>11, <1>12, ReservedKnows
  <2> QED BY <1>9, <2>1
<1>13. /\ opened' = opened /\ UNCHANGED <<fila, mails, sends>>
       /\ \A i \in DOMAIN s.rows \cup s.lote : fila[i] # None
       /\ \A i \in DOMAIN s.rows : s.rows[i] = fila[i]
  BY <1>2, <1>7, <1>8
<1> QED BY <1>1, <1>6, <1>8, <1>9, <1>10, <1>11, <1>12, <1>13, CallMoves


-----------------------------------------------------------------------------
\* The call that starts: it may settle nothing, and has loaded no row to send.
LEMMA StartFacts ==
    ASSUME NEW s, s.pc = "release", s.lote = {}, s.item = None,
           \A i \in DOMAIN s.rows : Is(i, "PROCESSING"), NEW i \in Items
    PROVE  /\ Ahead(s, i) /\ Pending(s, i) /\ ~Late(s, i) /\ ~Stale(s, i)
           /\ ~Owes(s, i) /\ ~Made(s, i) /\ ~Working(s, i)
           /\ Threat(s, i) => ~Settled(i)
           /\ \A n : ~Holds(s, i, n)
BY DEF Ahead, Pending, Late, Stale, Owes, Made, Working, Threat, Holds, Settled, Is

\* A call that starts alone: it has the room that is left for one more send.
LEMMA FirstCall ==
    ASSUME IInv, TypeOK', NEW c \in Consumers, NEW s, Moves(c, s), s.pc = "release",
           s.lote = {}, s.item = None, \A i \in DOMAIN s.rows : Is(i, "PROCESSING"),
           \A b \in Consumers : At(b, "idle"), UNCHANGED <<fila, mails, sends, faults>>,
           NEW i \in Items
    PROVE  SendsPaid(i)' /\ MailsPaid(i)'
<1>1. PICK r : r = consumer[c] OBVIOUS
<1>2. PICK R : R = consumer OBVIOUS
<1>3. TypeOK /\ CallsOK /\ CountOK /\ RowsOK /\ SendsPaid(i) /\ MailsPaid(i)
  BY DEF IInv, TypeOK, Paid
<1>4. \A b \in Consumers : CallOK(R[b]) /\ R[b].pc = "idle" BY <1>2, <1>3 DEF CallsOK, At
<1>5. /\ \A b \in Consumers : ~Ahead(R[b], i) /\ ~Pending(R[b], i) /\ ~Late(R[b], i) /\ ~Stale(R[b], i)
                              /\ ~Owes(R[b], i) /\ ~Made(R[b], i) /\ ~Threat(R[b], i)
      /\ \A b \in Consumers : \A n : ~Holds(R[b], i, n)
  BY <1>4, IdleCall
<1>6. NoneOwes(i) /\ NoneMade(i) /\ Calm(i) /\ \A n : ~HeldCount(i, n)
  BY <1>2, <1>5 DEF NoneOwes, NoneMade, Calm, HeldCount
<1>7. AheadNow(R, i) = {} /\ PendingNow(R, i) = {} /\ LateNow(R, i) = {} /\ StaleNow(R, i) = {}
  BY <1>5 DEF AheadNow, PendingNow, LateNow, StaleNow
<1>8. /\ Cardinality(AheadOf(i)) = 0 /\ Cardinality(PendingOf(i)) = 0
      /\ Cardinality(LateOf(i)) = 0 /\ Cardinality(StaleOf(i)) = 0
  BY <1>2, <1>7, SetsNow, FiniteCalls
<1>9. /\ Threat(s, i) => ~Settled(i)
      /\ \A n : ~Holds(s, i, n)
      /\ Ahead(s, i) /\ Pending(s, i) /\ ~Late(s, i) /\ ~Stale(s, i)
  BY StartFacts
<1>10. ~Ahead(r, i) /\ ~Pending(r, i) /\ ~Late(r, i) /\ ~Stale(r, i) BY <1>1, <1>2, <1>5
<1>11. /\ Cardinality(AheadOf(i))' = 1 /\ Cardinality(PendingOf(i))' = 1
       /\ Cardinality(LateOf(i))' = 0 /\ Cardinality(StaleOf(i))' = 0
  <2>1. PICK a : a = Cardinality(AheadOf(i)) OBVIOUS
  <2>2. PICK aa : aa = Cardinality(AheadOf(i))' OBVIOUS
  <2>3. PICK p : p = Cardinality(PendingOf(i)) OBVIOUS
  <2>4. PICK pp : pp = Cardinality(PendingOf(i))' OBVIOUS
  <2>5. PICK l : l = Cardinality(LateOf(i)) OBVIOUS
  <2>6. PICK ll : ll = Cardinality(LateOf(i))' OBVIOUS
  <2>7. PICK t : t = Cardinality(StaleOf(i)) OBVIOUS
  <2>8. PICK tt : tt = Cardinality(StaleOf(i))' OBVIOUS
  <2>9. aa = a + 1 /\ pp = p + 1 /\ ll = l /\ tt = t
    BY <1>1, <1>3, <1>9, <1>10, <2>1, <2>2, <2>3, <2>4, <2>5, <2>6, <2>7, <2>8, CountsMove
  <2>10. a = 0 /\ p = 0 /\ l = 0 /\ t = 0 BY <1>8, <2>1, <2>3, <2>5, <2>7
  <2>11. aa = 1 /\ pp = 1 /\ ll = 0 /\ tt = 0 BY <2>9, <2>10
  <2> QED BY <2>2, <2>4, <2>6, <2>8, <2>11
<1>12. \A n : ~HeldCount(i, n)' BY <1>1, <1>3, <1>6, <1>9, KindsMove
<1>13. RetryOf(i)' = RetryOf(i) /\ Settled(i)' = Settled(i) /\ RetryOf(i) \in Nat
  BY <1>3, RowSame, RetryTyped
<1>14. Quiet(i) => Quiet(i)'
  BY <1>1, <1>3, <1>6, <1>9, <1>13, KindsMove DEF Quiet
<1>15. Settled(i) <=> Quiet(i) BY <1>6 DEF Quiet
<1>16. PICK e \in Nat : e = sends[i] BY <1>3 DEF CountOK
<1>17. PICK m \in Nat : m = mails[i] BY <1>3 DEF CountOK
<1>18. PICK f \in Nat : f = faults BY <1>3 DEF CountOK
<1>19. PICK rho \in Nat : rho = RetryOf(i) BY <1>13
<1>20. sends'[i] = e /\ mails'[i] = m /\ faults' = f /\ RetryOf(i)' = rho
  BY <1>13, <1>16, <1>17, <1>18, <1>19
<1>m. MaxRetries \in Nat BY EmailAssumption
<1>21. CASE Quiet(i)
  <2>1. e <= MaxRetries + f /\ m <= 1 + f
    BY <1>3, <1>16, <1>17, <1>18, <1>21 DEF SendsPaid, MailsPaid
  <2>2. e + 1 <= MaxRetries + f + 1 /\ m + 1 <= 2 + f
    BY <1>m, <2>1
  <2> QED BY <1>11, <1>14, <1>20, <1>21, <2>1, <2>2 DEF SendsPaid, MailsPaid
<1>22. CASE ~Quiet(i)
  <2>1. ~Settled(i) /\ ~Settled(i)' /\ ~Quiet(i)' BY <1>13, <1>15, <1>22 DEF Quiet
  <2>2. e + 0 + 1 <= MaxRetries + f /\ e + 0 + 1 <= (rho + 1) + f
    BY <1>3, <1>6, <1>8, <1>16, <1>18, <1>19, <1>22, <2>1 DEF SendsPaid, SendsWithin
  <2>3. m + 0 <= f BY <1>3, <1>6, <1>8, <1>17, <1>18, <1>22, <2>1 DEF MailsPaid
  <2>4. m + 1 <= 1 + f /\ e + 1 <= MaxRetries + f /\ e + 1 <= (rho + 1) + f BY <2>2, <2>3
  <2>5. SendsWithin(i, MaxRetries)' BY <1>11, <1>20, <2>2, <2>4 DEF SendsWithin
  <2>6. SendsWithin(i, RetryOf(i) + 1)' BY <1>11, <1>20, <2>2, <2>4 DEF SendsWithin
  <2>7. SendsPaid(i)' BY <1>12, <2>1, <2>5, <2>6 DEF SendsPaid
  <2>8. MailsPaid(i)' BY <1>11, <1>20, <2>1, <2>3, <2>4 DEF MailsPaid
  <2> QED BY <2>7, <2>8
<1> QED BY <1>21, <1>22

LEMMA StartShape ==
    ASSUME TypeOK, NEW c \in Consumers, LerTravadas(c)
    PROVE  \E s : /\ Moves(c, s) /\ CallOK(s) /\ s.pc = "release" /\ s.lote = {} /\ s.item = None
                  /\ \A i \in DOMAIN s.rows : i \in Items /\ Is(i, "PROCESSING") /\ s.rows[i] = fila[i]
<1>1. PICK T : T = {i \in Items : Is(i, "PROCESSING") /\ fila[i].reserved = "old"} OBVIOUS
<1>2. T \subseteq Items /\ \A i \in T : Is(i, "PROCESSING") /\ fila[i] # None /\ fila[i].status = "PROCESSING"
  BY <1>1 DEF Is
<1>3. PICK l : l = Load(T) OBVIOUS
<1>4. PICK s : s = [Resting EXCEPT !.pc = "release", !.rows = l] OBVIOUS
<1>5. Moves(c, s) BY <1>1, <1>3, <1>4 DEF LerTravadas, Moves
<1>6. PICK k : k = Nothing OBVIOUS
<1>7. Resting = [pc |-> "idle", rows |-> k, lote |-> {}, item |-> None, attempt |-> 0]
  BY <1>6 DEF Resting
<1>8. 0 \in 0..MaxAttempts BY CircuitAssumption
<1>9. s \in CallRecs(l) /\ s.pc = "release" /\ s.lote = {} /\ s.item = None
  BY <1>4, <1>7, <1>8 DEF CallRecs, ConsumerPc
<1>10. CallOK(s) /\ DOMAIN s.rows = T /\ \A i \in T : s.rows[i] = fila[i]
  BY <1>2, <1>3, <1>9, ReadShape
<1> QED BY <1>2, <1>5, <1>9, <1>10

LEMMA LerTravadasKeeps == ASSUME IInv, NEW c \in Consumers, LerTravadas(c) PROVE IInv'
<1>1. PICK r : r = consumer[c] OBVIOUS
<1>2. TypeOK /\ CallOK(r) /\ CountOK /\ r.pc = "idle" /\ Recorded /\ Reserved
      /\ UNCHANGED <<fila, circuit, mails, sends, opened>>
  BY <1>1 DEF IInv, TypeOK, CallsOK, LerTravadas, At
<1>3. PICK s : /\ Moves(c, s) /\ CallOK(s) /\ s.pc = "release" /\ s.lote = {} /\ s.item = None
               /\ \A i \in DOMAIN s.rows : i \in Items /\ Is(i, "PROCESSING") /\ s.rows[i] = fila[i]
  BY <1>2, StartShape
<1>4. \A i \in Items : /\ Threat(s, i) => ~Settled(i)
                       /\ \A n : ~Holds(s, i, n)
                       /\ ~Late(s, i) /\ ~Stale(s, i) /\ ~Working(s, i)
  BY <1>3, StartFacts
<1>5. \A i \in DOMAIN s.rows \cup s.lote : fila[i] # None
  BY <1>3 DEF Is
<1>6. s.pc \notin {"sent", "try", "failed"} /\ s.pc \notin LoadedPc BY <1>3 DEF LoadedPc
<1>7. CASE faults' = faults + 1 /\ faults < MaxFaults
  <2>1. faults' \in 0..MaxFaults BY <1>2, <1>7, EmailAssumption DEF CountOK
  <2>2. CountOK' BY <1>2, <2>1 DEF CountOK
  <2>3. UNCHANGED <<fila, mails, sends>> /\ \A i \in DOMAIN s.rows : s.rows[i] = fila[i] BY <1>2, <1>3
  <2> QED BY <1>1, <1>3, <1>4, <1>5, <1>6, <1>7, <2>2, <2>3, CallMoves
<1>8. CASE (\A b \in Consumers : At(b, "idle")) /\ UNCHANGED faults
  <2>1. CountOK' BY <1>2, <1>8 DEF CountOK
  <2>2. RowsOK' /\ \A j \in Items : fila[j] # None => fila'[j] # None BY <1>2, RowsKept DEF TypeOK
  <2>3. TypeOK' BY <1>2, <1>3, <1>5, <2>1, <2>2, CallTyped
  <2>4. UNCHANGED <<fila, mails, sends, faults>> BY <1>2, <1>8
  <2>5. \A i \in DOMAIN s.rows : Is(i, "PROCESSING") BY <1>3
  <2>6. Paid' BY <1>3, <1>8, <2>3, <2>4, <2>5, FirstCall DEF Paid
  <2>7. \A i \in Items : sends[i] \in Nat /\ mails[i] \in Nat BY <1>2 DEF CountOK
  <2>8. CallRecord(s)'
    <3>1. ASSUME NEW i \in DOMAIN s.rows PROVE s.rows[i].retry <= sends[i]
      <4>1. RetryOf(i) <= sends[i] BY <1>2, <1>3 DEF Recorded, RowRecord
      <4>2. fila[i] # None BY <1>3 DEF Is
      <4> QED BY <1>3, <4>1, <4>2 DEF RetryOf
    <3> QED BY <1>2, <1>6, <3>1 DEF CallRecord
  <2>9. \A i \in Items : fila'[i] = fila[i] /\ sends[i] <= sends'[i] /\ mails[i] <= mails'[i]
    BY <2>4, <2>7
  <2>10. Recorded' BY <1>2, <1>3, <2>3, <2>8, <2>9, RecordedMove
  <2>11. ASSUME faults = 0, ~opened, NEW i \in Items PROVE Is(i, "PROCESSING")' <=> Working(s, i)
    <3>1. ~Working(r, i) BY <1>2 DEF Working
    <3>2. Is(i, "PROCESSING") <=> Working(r, i) BY <1>1, <1>2, <1>8, <2>11, ReservedKnows
    <3>3. Is(i, "PROCESSING")' <=> Is(i, "PROCESSING") BY <1>2 DEF Is
    <3> QED BY <1>4, <3>1, <3>2, <3>3
  <2>12. faults' = faults /\ opened' = opened BY <1>2, <1>8
  <2>13. Reserved' BY <1>1, <1>2, <1>3, <1>6, <1>8, <2>11, <2>12, ReservedMove
  <2> QED BY <2>3, <2>6, <2>10, <2>13 DEF IInv
<1> QED BY <1>7, <1>8 DEF LerTravadas, Comecar, Fault


-----------------------------------------------------------------------------
\* What commit makes of a row, column by column.
Merged(y, a, b) == [f \in DOMAIN y |-> IF b[f] # a[f] THEN b[f] ELSE y[f]]

LEMMA MergedRow ==
    ASSUME NEW y \in Row, NEW a \in Row, NEW b \in Row
    PROVE  /\ Merged(y, a, b) \in Row
           /\ Merged(y, a, b).status = IF b.status # a.status THEN b.status ELSE y.status
           /\ Merged(y, a, b).retry = IF b.retry # a.retry THEN b.retry ELSE y.retry
           /\ Merged(y, a, b).reserved = IF b.reserved # a.reserved THEN b.reserved ELSE y.reserved
<1>1. DOMAIN y = {"status", "retry", "reserved"} BY DEF Row
<1>2. PICK z : z = Merged(y, a, b) OBVIOUS
<1>3. z = [f \in {"status", "retry", "reserved"} |-> IF b[f] # a[f] THEN b[f] ELSE y[f]]
  BY <1>1, <1>2 DEF Merged
<1>4. /\ z.status = IF b.status # a.status THEN b.status ELSE y.status
      /\ z.retry = IF b.retry # a.retry THEN b.retry ELSE y.retry
      /\ z.reserved = IF b.reserved # a.reserved THEN b.reserved ELSE y.reserved
  BY <1>3
<1>5. z.status \in Status /\ z.retry \in 0..RetryLimit /\ z.reserved \in {"no", "fresh", "old"}
  BY <1>4 DEF Row
<1>6. z = [status |-> z.status, retry |-> z.retry, reserved |-> z.reserved]
  BY <1>3
<1>7. z \in Row BY <1>5, <1>6 DEF Row
<1> QED BY <1>2, <1>4, <1>7


\* The rows after a commit: those loaded are merged, the others stay.
LEMMA FlushFacts ==
    ASSUME TypeOK, NEW c \in Consumers, NEW r, r = consumer[c], NEW k,
           \A i \in DOMAIN r.rows : k[i] \in Row, fila' = Flush(r.rows, k)
    PROVE  /\ RowsOK' /\ \A j \in Items : fila[j] # None => fila'[j] # None
           /\ \A i \in Items \ DOMAIN r.rows : fila'[i] = fila[i]
           /\ \A i \in DOMAIN r.rows :
                 /\ i \in Items /\ fila[i] # None /\ fila[i] \in Row
                 /\ r.rows[i] \in Row /\ fila'[i] \in Row /\ fila'[i] # None
                 /\ fila'[i] = Merged(fila[i], r.rows[i], k[i])
<1>1. CallOK(r) /\ RowsOK BY DEF TypeOK, CallsOK
<1>2. PICK F : F = fila' OBVIOUS
<1>3. PICK l : l = r.rows OBVIOUS
<1>4. F = [i \in Items |-> IF i \in DOMAIN l THEN Merged(fila[i], l[i], k[i]) ELSE fila[i]]
  BY <1>2, <1>3 DEF Flush, Merged
<1>5. \A i \in Items \ DOMAIN l : F[i] = fila[i] BY <1>4
<1>6. ASSUME NEW i \in DOMAIN l
      PROVE  /\ i \in Items /\ fila[i] # None /\ fila[i] \in Row
             /\ l[i] \in Row /\ F[i] \in Row /\ F[i] # None
             /\ F[i] = Merged(fila[i], l[i], k[i])
  <2>1. i \in Items /\ l[i] \in Row BY <1>1, <1>3 DEF CallOK
  <2>2. fila[i] # None /\ fila[i] \in Row BY <1>1, <1>3, <2>1 DEF TypeOK, KnownRows, RowsOK
  <2>3. F[i] = Merged(fila[i], l[i], k[i]) BY <1>4, <2>1
  <2>4. PICK y \in Row : y = fila[i] BY <2>2
  <2>5. PICK a \in Row : a = l[i] BY <2>1
  <2>6. PICK b \in Row : b = k[i] BY <1>3
  <2>7. F[i] \in Row BY <2>3, <2>4, <2>5, <2>6, MergedRow
  <2>8. F[i] # None BY <2>7, NoneIsNoRow
  <2> QED BY <2>1, <2>2, <2>3, <2>7, <2>8
<1>7. \A j \in Items : fila[j] # None => F[j] # None BY <1>5, <1>6
<1>8. ASSUME NEW j \in Items, F[j] # None PROVE F[j] \in Row
  BY <1>1, <1>5, <1>6, <1>8 DEF RowsOK
<1>9. F = [i \in Items |-> F[i]] BY <1>4
<1>10. RowsOK' BY <1>2, <1>8, <1>9 DEF RowsOK
<1> QED BY <1>2, <1>3, <1>5, <1>6, <1>7, <1>10

\* The call after a commit: the session holds nothing.
AfterCommit(r, s, pc) == s.pc = pc /\ DOMAIN s.rows = {} /\ s.lote = r.lote /\ s.item = r.item

LEMMA CommitShape ==
    ASSUME TypeOK, NEW c \in Consumers, NEW r, r = consumer[c], NEW pc, Committed(c, pc),
           \/ pc = "list" /\ r.pc = "release"
           \/ pc = "batch" /\ r.pc = "reserve"
           \/ pc = "audit" /\ r.pc \in {"sent", "failed"}
    PROVE  \E s : Moves(c, s) /\ CallOK(s) /\ AfterCommit(r, s, pc)
<1>1. CallOK(r) BY DEF TypeOK, CallsOK
<1>2. PICK k : k = r.rows OBVIOUS
<1>3. r \in CallRecs(k) BY <1>1, <1>2 DEF CallOK, CallRecs
<1>4. PICK l : l = Nothing OBVIOUS
<1>5. DOMAIN l = {} /\ l = [i \in DOMAIN l |-> l[i]] BY <1>4 DEF Nothing
<1>6. PICK s : s = [r EXCEPT !.pc = pc, !.rows = l] OBVIOUS
<1>7. Moves(c, s) BY <1>4, <1>6 DEF Committed, Moves
<1>8. pc \in ConsumerPc BY DEF ConsumerPc
<1>9. s \in CallRecs(l) /\ s.pc = pc /\ s.rows = l /\ s.lote = r.lote /\ s.item = r.item
  BY <1>3, <1>6, <1>8 DEF CallRecs
<1>10. CallOK(s)
  BY <1>1, <1>5, <1>9 DEF CallOK, CallRecs, InHandPc, LoadedPc
<1> QED BY <1>5, <1>7, <1>9, <1>10 DEF AfterCommit

\* A commit: what is left to show is what it does to the rows it wrote.
LEMMA CommitKeeps ==
    ASSUME IInv, NEW c \in Consumers, NEW r, r = consumer[c], r.pc # "idle",
           NEW s, Moves(c, s), CallOK(s),
           NEW pc \in {"list", "batch", "audit"}, AfterCommit(r, s, pc),
           UNCHANGED <<circuit, mails, sends, opened, faults>>,
           RowsOK', \A j \in Items : fila[j] # None => fila'[j] # None,
           \A i \in Items : fila'[i] = fila[i] \/ RowRecord(i)',
           TypeOK' => \A i \in Items : SendsPaid(i)' /\ MailsPaid(i)',
           (faults = 0 /\ ~opened) => \A i \in Items : Is(i, "PROCESSING")' <=> Working(s, i)
    PROVE  IInv'
<1>1. TypeOK /\ CountOK /\ Recorded /\ Reserved BY DEF IInv, TypeOK
<1>2. CountOK' BY <1>1 DEF CountOK
<1>3. s.pc = pc /\ DOMAIN s.rows = {} /\ s.lote = r.lote BY DEF AfterCommit
<1>4. \A i \in DOMAIN s.rows \cup s.lote : fila[i] # None BY <1>1, <1>3 DEF TypeOK, KnownRows
<1>5. TypeOK' BY <1>1, <1>2, <1>4, CallTyped
<1>6. Paid' BY <1>5 DEF Paid
<1>7. CallRecord(s)' BY <1>3 DEF CallRecord
<1>8. \A i \in Items : sends[i] <= sends'[i] /\ mails[i] <= mails'[i] BY <1>1 DEF CountOK
<1>9. Recorded' BY <1>1, <1>5, <1>7, <1>8, RecordedMove
<1>10. s.pc \notin LoadedPc BY <1>3 DEF LoadedPc
<1>11. faults' = faults /\ opened' = opened OBVIOUS
<1>12. Reserved' BY <1>1, <1>10, <1>11, ReservedMove
<1> QED BY <1>5, <1>6, <1>9, <1>12 DEF IInv


\* A row whose column is as it was loaded, or was written.
LEMMA RowWritten ==
    ASSUME NEW y \in Row, NEW a \in Row, NEW b \in Row, NEW i, y = fila[i], y # None,
           fila'[i] = Merged(y, a, b), fila'[i] # None
    PROVE  /\ RetryOf(i) = y.retry /\ \A q : Is(i, q) <=> y.status = q
           /\ RetryOf(i)' = IF b.retry # a.retry THEN b.retry ELSE RetryOf(i)
           /\ \A q : Is(i, q)' <=> q = IF b.status # a.status THEN b.status ELSE y.status
<1>1. PICK z : z = Merged(y, a, b) OBVIOUS
<1>2. /\ z.status = IF b.status # a.status THEN b.status ELSE y.status
      /\ z.retry = IF b.retry # a.retry THEN b.retry ELSE y.retry
  BY <1>1, MergedRow
<1>3. fila'[i] = z BY <1>1
<1> QED BY <1>2, <1>3 DEF RetryOf, Is

\* Stuck rows become pending again.
LEMMA LiberarKeeps == ASSUME IInv, NEW c \in Consumers, Liberar(c) PROVE IInv'
<1>1. PICK r : r = consumer[c] OBVIOUS
<1>2. TypeOK /\ CallOK(r) /\ CountOK /\ Recorded /\ Reserved /\ r.pc = "release"
      /\ UNCHANGED <<circuit, mails, sends, opened, faults>>
  BY <1>1 DEF IInv, TypeOK, CallsOK, Liberar, At
<1>3. PICK k : k = [i \in DOMAIN r.rows |-> [r.rows[i] EXCEPT !.status = "PENDING", !.reserved = "no"]]
  OBVIOUS
<1>4. fila' = Flush(r.rows, k) /\ Committed(c, "list") BY <1>1, <1>3 DEF Liberar
<1>5. r.lote = {} /\ r.item = None /\ \A i \in DOMAIN r.rows : r.rows[i] \in Row /\ r.rows[i].status = "PROCESSING"
  BY <1>2 DEF CallOK, InHandPc, LoadedPc
<1>6. ASSUME NEW i \in DOMAIN r.rows
      PROVE  k[i] \in Row /\ k[i].status = "PENDING" /\ k[i].retry = r.rows[i].retry
  <2>1. PICK a \in Row : a = r.rows[i] BY <1>5
  <2>2. k[i] = [a EXCEPT !.status = "PENDING", !.reserved = "no"] BY <1>3, <2>1
  <2> QED BY <2>1, <2>2 DEF Row, Status
<1>7. PICK s : Moves(c, s) /\ CallOK(s) /\ AfterCommit(r, s, "list")
  BY <1>1, <1>2, <1>4, CommitShape
<1>8. s.pc = "list" /\ DOMAIN s.rows = {} /\ s.lote = {} /\ s.item = None BY <1>5, <1>7 DEF AfterCommit
<1>9. /\ RowsOK' /\ \A j \in Items : fila[j] # None => fila'[j] # None
      /\ \A i \in Items \ DOMAIN r.rows : fila'[i] = fila[i]
      /\ \A i \in DOMAIN r.rows :
            /\ i \in Items /\ fila[i] # None /\ fila[i] \in Row
            /\ r.rows[i] \in Row /\ fila'[i] \in Row /\ fila'[i] # None
            /\ fila'[i] = Merged(fila[i], r.rows[i], k[i])
  BY <1>1, <1>2, <1>4, <1>6, FlushFacts
<1>10. ASSUME NEW i \in DOMAIN r.rows
       PROVE  RetryOf(i)' = RetryOf(i) /\ \A q : Is(i, q)' <=> q = "PENDING"
  <2>1. PICK y \in Row : y = fila[i] BY <1>9
  <2>2. PICK a \in Row : a = r.rows[i] BY <1>9
  <2>3. PICK b \in Row : b = k[i] BY <1>6
  <2>4. y # None /\ fila'[i] # None /\ fila'[i] = Merged(y, a, b) BY <1>9, <2>1, <2>2, <2>3
  <2>5. b.retry = a.retry /\ b.status = "PENDING" /\ a.status = "PROCESSING" BY <1>5, <1>6, <2>2, <2>3
  <2> QED BY <2>1, <2>4, <2>5, RowWritten
<1>11. ASSUME NEW i \in Items
       PROVE  /\ ~Threat(s, i) /\ ~Late(s, i) /\ ~Stale(s, i) /\ ~Working(s, i) /\ ~Working(r, i)
              /\ Ahead(s, i) /\ Ahead(r, i) /\ Pending(r, i)
              /\ \A n : ~Holds(s, i, n)
              /\ i \in DOMAIN r.rows => Threat(r, i)
  BY <1>2, <1>5, <1>8, EmailAssumption DEF Threat, Late, Stale, Working, Ahead, Pending, Holds
<1>12. ASSUME TypeOK', NEW i \in Items PROVE SendsPaid(i)' /\ MailsPaid(i)'
  <2>1. SendsPaid(i) /\ MailsPaid(i) BY DEF IInv, Paid
  <2>2. RetryOf(i)' = RetryOf(i) /\ (i \in DOMAIN r.rows \/ Settled(i)' = Settled(i))
    BY <1>9, <1>10, RowSame
  <2>3. Less(r, s, i) BY <1>11 DEF Less
  <2>4. faults' = faults + 0 /\ sends'[i] = sends[i] /\ mails'[i] = mails[i] BY <1>2 DEF CountOK
  <2>5. (Settled(i) => Settled(i)') \/ Threat(r, i) BY <1>11, <2>2
  <2> QED BY <1>1, <1>2, <1>7, <1>11, <1>12, <2>1, <2>2, <2>3, <2>4, <2>5, PaidItem
<1>13. ASSUME NEW i \in Items PROVE fila'[i] = fila[i] \/ RowRecord(i)'
  <2>1. CASE i \in DOMAIN r.rows
    <3>1. RetryOf(i) <= sends[i] BY <1>2 DEF Recorded, RowRecord
    <3> QED BY <1>2, <1>10, <2>1, <3>1 DEF RowRecord
  <2> QED BY <1>9, <2>1
<1>14. ASSUME faults = 0, ~opened, NEW i \in Items PROVE Is(i, "PROCESSING")' <=> Working(s, i)
  <2>1. r.pc # "idle" BY <1>2
  <2>2. Is(i, "PROCESSING") <=> Working(r, i) BY <1>1, <1>2, <1>14, <2>1, ReservedKnows
  <2>3. i \notin DOMAIN r.rows => (Is(i, "PROCESSING")' <=> Is(i, "PROCESSING")) BY <1>9, RowSame
  <2> QED BY <1>10, <1>11, <2>2, <2>3
<1>15. r.pc # "idle" BY <1>2
<1> QED BY <1>1, <1>2, <1>7, <1>9, <1>12, <1>13, <1>14, <1>15, CommitKeeps

\* The lot is reserved.
LEMMA ReservarKeeps == ASSUME IInv, NEW c \in Consumers, Reservar(c) PROVE IInv'
<1>1. PICK r : r = consumer[c] OBVIOUS
<1>2. TypeOK /\ CallOK(r) /\ CountOK /\ Recorded /\ Reserved /\ r.pc = "reserve"
      /\ UNCHANGED <<circuit, mails, sends, opened, faults>>
  BY <1>1 DEF IInv, TypeOK, CallsOK, Reservar, At
<1>3. PICK k : k = [i \in DOMAIN r.rows |-> [r.rows[i] EXCEPT !.status = "PROCESSING", !.reserved = "fresh"]]
  OBVIOUS
<1>4. fila' = Flush(r.rows, k) /\ Committed(c, "batch") BY <1>1, <1>3 DEF Reservar
<1>5. r.lote = DOMAIN r.rows /\ r.item = None
      /\ \A i \in DOMAIN r.rows : r.rows[i] \in Row /\ r.rows[i].status = "PENDING"
  BY <1>2 DEF CallOK, InHandPc, LoadedPc
<1>6. ASSUME NEW i \in DOMAIN r.rows
      PROVE  k[i] \in Row /\ k[i].status = "PROCESSING" /\ k[i].retry = r.rows[i].retry
  <2>1. PICK a \in Row : a = r.rows[i] BY <1>5
  <2>2. k[i] = [a EXCEPT !.status = "PROCESSING", !.reserved = "fresh"] BY <1>3, <2>1
  <2> QED BY <2>1, <2>2 DEF Row, Status
<1>7. PICK s : Moves(c, s) /\ CallOK(s) /\ AfterCommit(r, s, "batch")
  BY <1>1, <1>2, <1>4, CommitShape
<1>8. s.pc = "batch" /\ DOMAIN s.rows = {} /\ s.lote = r.lote /\ s.item = None BY <1>5, <1>7 DEF AfterCommit
<1>9. /\ RowsOK' /\ \A j \in Items : fila[j] # None => fila'[j] # None
      /\ \A i \in Items \ DOMAIN r.rows : fila'[i] = fila[i]
      /\ \A i \in DOMAIN r.rows :
            /\ i \in Items /\ fila[i] # None /\ fila[i] \in Row
            /\ r.rows[i] \in Row /\ fila'[i] \in Row /\ fila'[i] # None
            /\ fila'[i] = Merged(fila[i], r.rows[i], k[i])
  BY <1>1, <1>2, <1>4, <1>6, FlushFacts
<1>10. ASSUME NEW i \in DOMAIN r.rows
       PROVE  RetryOf(i)' = RetryOf(i) /\ \A q : Is(i, q)' <=> q = "PROCESSING"
  <2>1. PICK y \in Row : y = fila[i] BY <1>9
  <2>2. PICK a \in Row : a = r.rows[i] BY <1>9
  <2>3. PICK b \in Row : b = k[i] BY <1>6
  <2>4. y # None /\ fila'[i] # None /\ fila'[i] = Merged(y, a, b) BY <1>9, <2>1, <2>2, <2>3
  <2>5. b.retry = a.retry /\ b.status = "PROCESSING" /\ a.status = "PENDING" BY <1>5, <1>6, <2>2, <2>3
  <2> QED BY <2>1, <2>4, <2>5, RowWritten
<1>11. ASSUME NEW i \in Items
       PROVE  /\ Threat(s, i) => Threat(r, i)
              /\ ~Late(s, i) /\ ~Stale(s, i) /\ ~Owes(r, i) /\ ~Made(r, i)
              /\ Ahead(s, i) <=> i \in r.lote
              /\ Ahead(s, i) => Ahead(r, i)
              /\ Pending(s, i) => Pending(r, i)
              /\ \A n : ~Holds(s, i, n)
              /\ i \in r.lote => Threat(r, i)
              /\ (Working(s, i) <=> i \in r.lote) /\ ~Working(r, i)
  BY <1>2, <1>5, <1>8, EmailAssumption DEF Threat, Late, Stale, Working, Ahead, Pending, Holds, Owes, Made
<1>12. ASSUME TypeOK', NEW i \in Items PROVE SendsPaid(i)' /\ MailsPaid(i)'
  <2>1. SendsPaid(i) /\ MailsPaid(i) BY DEF IInv, Paid
  <2>2. RetryOf(i)' = RetryOf(i) /\ (i \in r.lote \/ Settled(i)' = Settled(i))
    BY <1>5, <1>9, <1>10, RowSame
  <2>3. Less(r, s, i) /\ Entitled(r, s, i) BY <1>11 DEF Less, Entitled
  <2>4. faults' = faults + 0 /\ sends'[i] = sends[i] /\ mails'[i] = mails[i] BY <1>2 DEF CountOK
  <2>5. (Settled(i) => Settled(i)') \/ Threat(r, i) BY <1>11, <2>2
  <2>6. ~Settled(i)' =>
           \/ ~Settled(i) /\ Entitled(r, s, i)
           \/ Ahead(s, i) /\ ~Late(s, i) /\ ~Stale(s, i) /\ Less(r, s, i)
    BY <1>11, <2>2, <2>3
  <2> QED BY <1>1, <1>2, <1>7, <1>11, <1>12, <2>1, <2>2, <2>3, <2>4, <2>5, <2>6, PaidItem
<1>13. ASSUME NEW i \in Items PROVE fila'[i] = fila[i] \/ RowRecord(i)'
  <2>1. CASE i \in DOMAIN r.rows
    <3>1. RetryOf(i) <= sends[i] BY <1>2 DEF Recorded, RowRecord
    <3> QED BY <1>2, <1>10, <2>1, <3>1 DEF RowRecord
  <2> QED BY <1>9, <2>1
<1>14. ASSUME faults = 0, ~opened, NEW i \in Items PROVE Is(i, "PROCESSING")' <=> Working(s, i)
  <2>1. r.pc # "idle" BY <1>2
  <2>2. Is(i, "PROCESSING") <=> Working(r, i) BY <1>1, <1>2, <1>14, <2>1, ReservedKnows
  <2>3. i \notin DOMAIN r.rows => (Is(i, "PROCESSING")' <=> Is(i, "PROCESSING")) BY <1>9, RowSame
  <2> QED BY <1>5, <1>10, <1>11, <2>2, <2>3
<1>15. r.pc # "idle" BY <1>2
<1> QED BY <1>1, <1>2, <1>7, <1>9, <1>12, <1>13, <1>14, <1>15, CommitKeeps


-----------------------------------------------------------------------------
\* The row in hand is told of: nothing changes for the others.
LEMMA ToldFacts ==
    ASSUME NEW r, CallOK(r), r.pc \in {"sent", "failed"}, NEW s, AfterCommit(r, s, "audit"),
           NEW i \in Items
    PROVE  /\ Threat(s, i) => Threat(r, i)
           /\ ~Late(s, i) /\ ~Stale(s, i)
           /\ Less(r, s, i) /\ (Ahead(s, i) <=> Ahead(r, i)) /\ ~Late(r, i)
           /\ \A n : ~Holds(s, i, n)
           /\ i # r.item => (~Owes(r, i) /\ ~Made(r, i) /\ (Working(s, i) <=> Working(r, i)))
           /\ ~Working(s, r.item) /\ Working(r, r.item)
           /\ r.item \in r.lote /\ r.item \in Items /\ DOMAIN r.rows = {r.item}
<1>1. s.pc = "audit" /\ s.lote = r.lote /\ s.item = r.item BY DEF AfterCommit
<1>2. r.item \in r.lote /\ r.item \in Items /\ DOMAIN r.rows = {r.item}
  BY DEF CallOK, InHandPc, LoadedPc
<1>3. /\ Threat(s, i) => Threat(r, i)
      /\ ~Late(s, i) /\ ~Stale(s, i) /\ ~Late(r, i)
      /\ \A n : ~Holds(s, i, n)
  BY <1>1 DEF Threat, Late, Stale, Holds
<1>4. (Ahead(s, i) <=> Ahead(r, i)) /\ (Pending(s, i) => Pending(r, i)) BY <1>1 DEF Ahead, Pending
<1>5. i # r.item => (~Owes(r, i) /\ ~Made(r, i) /\ (Working(s, i) <=> Working(r, i)))
  BY <1>1 DEF Owes, Made, Working
<1>6. ~Working(s, r.item) /\ Working(r, r.item) BY <1>1, <1>2 DEF Working
<1> QED BY <1>2, <1>3, <1>4, <1>5, <1>6 DEF Less

\* The other rows of the call that tells of one.
LEMMA ToldOthers ==
    ASSUME IInv, TypeOK', NEW c \in Consumers, NEW r, r = consumer[c], r.pc \in {"sent", "failed"},
           NEW s, Moves(c, s), AfterCommit(r, s, "audit"), NEW i \in Items, i # r.item,
           fila'[i] = fila[i], UNCHANGED <<mails, sends, faults>>
    PROVE  SendsPaid(i)' /\ MailsPaid(i)'
<1>1. TypeOK /\ CallOK(r) /\ CountOK /\ SendsPaid(i) /\ MailsPaid(i) BY DEF IInv, Paid, TypeOK, CallsOK
<1>2. /\ Threat(s, i) => Threat(r, i)
      /\ ~Late(s, i) /\ ~Stale(s, i) /\ Less(r, s, i)
      /\ \A n : ~Holds(s, i, n)
      /\ ~Owes(r, i) /\ ~Made(r, i)
  BY <1>1, ToldFacts
<1>3. Entitled(r, s, i) BY <1>2 DEF Entitled
<1>4. RetryOf(i)' = RetryOf(i) /\ Settled(i)' = Settled(i) BY RowSame
<1>5. faults' = faults + 0 /\ sends'[i] = sends[i] /\ mails'[i] = mails[i] BY <1>1 DEF CountOK
<1> QED BY <1>1, <1>2, <1>3, <1>4, <1>5, PaidItem

\* Until a fault or an open circuit, the row told of is no longer reserved.
LEMMA ToldReserved ==
    ASSUME IInv, NEW c \in Consumers, NEW r, r = consumer[c], r.pc \in {"sent", "failed"},
           NEW s, AfterCommit(r, s, "audit"), faults = 0, ~opened,
           \A i \in Items \ {r.item} : fila'[i] = fila[i], ~Is(r.item, "PROCESSING")',
           NEW i \in Items
    PROVE  Is(i, "PROCESSING")' <=> Working(s, i)
<1>1. TypeOK /\ CallOK(r) /\ Reserved /\ r.pc # "idle" BY DEF IInv, TypeOK, CallsOK
<1>2. Is(i, "PROCESSING") <=> Working(r, i) BY <1>1, ReservedKnows
<1>3. /\ i # r.item => (Working(s, i) <=> Working(r, i))
      /\ ~Working(s, r.item)
  BY <1>1, ToldFacts
<1>4. i # r.item => (Is(i, "PROCESSING")' <=> Is(i, "PROCESSING")) BY RowSame
<1> QED BY <1>2, <1>3, <1>4

\* The mail was accepted and the row says so, unless it already did.
LEMMA MarcarEnviadoKeeps == ASSUME IInv, NEW c \in Consumers, MarcarEnviado(c) PROVE IInv'
<1>1. PICK r : r = consumer[c] OBVIOUS
<1>2. TypeOK /\ CallOK(r) /\ CountOK /\ Recorded /\ Reserved /\ r.pc = "sent"
      /\ UNCHANGED <<circuit, mails, sends, opened, faults>>
  BY <1>1 DEF IInv, TypeOK, CallsOK, MarcarEnviado, At
<1>3. PICK k : k = [i \in DOMAIN r.rows |-> [r.rows[i] EXCEPT !.status = "SENT"]] OBVIOUS
<1>4. fila' = Flush(r.rows, k) /\ Committed(c, "audit") BY <1>1, <1>3 DEF MarcarEnviado
<1>5. PICK s : Moves(c, s) /\ CallOK(s) /\ AfterCommit(r, s, "audit")
  BY <1>1, <1>2, <1>4, CommitShape
<1>6. PICK j \in Items : j = r.item /\ DOMAIN r.rows = {j} /\ r.rows[j] \in Row
  BY <1>2 DEF CallOK, InHandPc, LoadedPc
<1>7. PICK a \in Row : a = r.rows[j] BY <1>6
<1>8. PICK b : b = [a EXCEPT !.status = "SENT"] OBVIOUS
<1>9. b \in Row /\ b.status = "SENT" /\ b.retry = a.retry BY <1>8 DEF Row, Status
<1>10. k[j] = b /\ \A i \in DOMAIN r.rows : k[i] \in Row BY <1>3, <1>6, <1>7, <1>8, <1>9
<1>11. /\ RowsOK' /\ \A i \in Items : fila[i] # None => fila'[i] # None
       /\ \A i \in Items \ DOMAIN r.rows : fila'[i] = fila[i]
       /\ fila[j] # None /\ fila[j] \in Row /\ fila'[j] # None
       /\ fila'[j] = Merged(fila[j], a, b)
  BY <1>1, <1>2, <1>4, <1>6, <1>7, <1>10, FlushFacts
<1>12. PICK y \in Row : y = fila[j] BY <1>11
<1>13. /\ RetryOf(j)' = RetryOf(j) /\ \A q : Is(j, q) <=> y.status = q
       /\ \A q : Is(j, q)' <=> q = IF b.status # a.status THEN b.status ELSE y.status
  BY <1>9, <1>11, <1>12, RowWritten
<1>14. IF a.status = "SENT"
       THEN \A q : Is(j, q)' <=> Is(j, q)
       ELSE \A q : Is(j, q)' <=> q = "SENT"
  BY <1>9, <1>13
<1>15. ASSUME NEW i \in Items
       PROVE  /\ Threat(s, i) => Threat(r, i)
              /\ ~Late(s, i) /\ ~Stale(s, i) /\ Less(r, s, i)
              /\ \A n : ~Holds(s, i, n)
  BY <1>2, <1>5, ToldFacts
<1>16. ASSUME TypeOK' PROVE SendsPaid(j)' /\ MailsPaid(j)'
  <2>1. SendsPaid(j) /\ MailsPaid(j) BY DEF IInv, Paid
  <2>2. faults' = faults + 0 /\ sends'[j] = sends[j] /\ mails'[j] = mails[j] BY <1>2 DEF CountOK
  <2>3. a.status = "SENT" => ~Owes(r, j) /\ ~Made(r, j) BY <1>6, <1>7 DEF Owes, Made, Over
  <2>4. (Settled(j) => Settled(j)') /\ (a.status # "SENT" => Settled(j)')
    BY <1>14 DEF Settled
  <2>5. ~Settled(j)' => ~Settled(j) /\ Entitled(r, s, j)
    BY <1>15, <2>3, <2>4 DEF Entitled
  <2> QED BY <1>1, <1>2, <1>5, <1>13, <1>15, <1>16, <2>1, <2>2, <2>4, <2>5, PaidItem
<1>17. RowRecord(j)'
  <2>1. RowRecord(j) BY <1>2 DEF Recorded
  <2>2. mails[j] > 0 BY <1>1, <1>2, <1>6 DEF Recorded, CallRecord
  <2> QED BY <1>2, <1>13, <1>14, <2>1, <2>2 DEF RowRecord
<1>18. \A i \in Items \ {j} : fila'[i] = fila[i] BY <1>6, <1>11
<1>19. ASSUME TypeOK', NEW i \in Items PROVE SendsPaid(i)' /\ MailsPaid(i)'
  <2>1. CASE i = j BY <1>16, <1>19, <2>1
  <2>2. CASE i # j BY <1>1, <1>2, <1>5, <1>6, <1>18, <1>19, <2>2, ToldOthers
  <2> QED BY <2>1, <2>2
<1>20. ASSUME faults = 0, ~opened, NEW i \in Items PROVE Is(i, "PROCESSING")' <=> Working(s, i)
  <2>1. a.status = "PROCESSING"
    BY <1>1, <1>2, <1>6, <1>7, <1>20 DEF Reserved, LoadedPc
  <2>2. ~Is(j, "PROCESSING")' BY <1>14, <2>1
  <2> QED BY <1>1, <1>2, <1>5, <1>6, <1>18, <1>20, <2>2, ToldReserved
<1>21. r.pc # "idle" /\ \A i \in Items : fila'[i] = fila[i] \/ RowRecord(i)' BY <1>2, <1>17, <1>18
<1> QED BY <1>1, <1>2, <1>5, <1>11, <1>19, <1>20, <1>21, CommitKeeps


\* The account of sends when a failure is told of: the count that was loaded,
\* plus one, is stored, and with it there is room for the next send; or the
\* limit is reached and the row is settled, unless it was loaded so.
LEMMA FailureSends ==
    ASSUME RowsOK, CountOK, CountOK', NEW i \in Items, SendsPaid(i), ~Quiet(i), faults' = faults,
           NEW a, a = Cardinality(AheadOf(i)), a = Cardinality(AheadOf(i))',
           NEW l, l = Cardinality(LateOf(i)), l = Cardinality(LateOf(i))', l <= a,
           sends'[i] = sends[i], NEW h \in Nat, HeldCount(i, h),
           \A n \in Nat : HeldCount(i, n)' => HeldCount(i, n),
           \/ h + 1 < MaxRetries /\ RetryOf(i)' = h + 1
           \/ /\ h + 1 >= MaxRetries
              /\ RetryOf(i)' = h + 1 \/ RetryOf(i)' = RetryOf(i)
              /\ Settled(i)' \/ ((NoneOwes(i)' => NoneOwes(i)) /\ ~Settled(i))
    PROVE  SendsPaid(i)'
<1>1. PICK f \in Nat : f = faults BY DEF CountOK
<1>2. PICK e \in Nat : e = sends[i] BY DEF CountOK
<1>3. a \in Nat /\ l \in Nat /\ MaxRetries \in Nat BY CountsTyped, EmailAssumption
<1>4. PICK rho \in Nat : rho = RetryOf(i) BY RetryTyped
<1>5. PICK sigma \in Nat : sigma = RetryOf(i)' BY <1>4
<1>6. /\ e + a <= MaxRetries + f
      /\ (~Settled(i) /\ NoneOwes(i)) => e + l + 1 <= MaxRetries + f
      /\ e + a <= (rho + 1) + f
      /\ (~Settled(i) /\ NoneOwes(i)) => e + l + 1 <= (rho + 1) + f
      /\ \A n \in Nat : HeldCount(i, n) => e + a <= n + 1 + f
  BY <1>1, <1>2, <1>4 DEF SendsPaid, SendsWithin
<1>7. e + a <= h + 1 + f BY <1>6
<1>8. /\ e + a <= (sigma + 1) + f
      /\ (~Settled(i)' /\ NoneOwes(i)') => e + l + 1 <= MaxRetries + f /\ e + l + 1 <= (sigma + 1) + f
  <2>1. CASE h + 1 < MaxRetries /\ sigma = h + 1 BY <1>3, <1>7, <2>1
  <2>2. CASE /\ h + 1 >= MaxRetries
             /\ sigma = h + 1 \/ sigma = rho
             /\ Settled(i)' \/ ((NoneOwes(i)' => NoneOwes(i)) /\ ~Settled(i))
    BY <1>3, <1>6, <1>7, <2>2
  <2> QED BY <1>4, <1>5, <2>1, <2>2
<1>9. sends'[i] = e /\ faults' = f BY <1>1, <1>2
<1>10. CASE Quiet(i)'
  <2>1. e <= MaxRetries + f /\ e + a <= MaxRetries + f + 1 BY <1>3, <1>6
  <2> QED BY <1>9, <1>10, <2>1 DEF SendsPaid
<1>11. CASE ~Quiet(i)'
  <2>1. SendsWithin(i, MaxRetries)' BY <1>6, <1>8, <1>9 DEF SendsWithin
  <2>2. SendsWithin(i, RetryOf(i) + 1)' BY <1>5, <1>8, <1>9 DEF SendsWithin
  <2>3. \A n \in Nat : HeldCount(i, n)' => e + a <= n + 1 + f BY <1>6
  <2> QED BY <1>9, <1>11, <2>1, <2>2, <2>3 DEF SendsPaid
<1> QED BY <1>10, <1>11

\* Both accounts of a row whose failure is told of.
LEMMA FailurePaid ==
    ASSUME IInv, TypeOK', NEW c \in Consumers, NEW r, r = consumer[c], r.pc = "failed",
           NEW s, Moves(c, s), AfterCommit(r, s, "audit"), UNCHANGED <<mails, sends, faults>>,
           NEW j, j = r.item, NEW h \in Nat, h = r.rows[j].retry,
           \/ h + 1 < MaxRetries /\ RetryOf(j)' = h + 1
           \/ /\ h + 1 >= MaxRetries
              /\ RetryOf(j)' = h + 1 \/ RetryOf(j)' = RetryOf(j)
              /\ Settled(j)' \/ (Over(r.rows[j]) /\ ~Settled(j))
    PROVE  SendsPaid(j)' /\ MailsPaid(j)'
<1>1. TypeOK /\ CallOK(r) /\ CountOK /\ CountOK' /\ RowsOK /\ CallsOK BY DEF IInv, TypeOK, CallsOK
<1>2. j \in Items /\ SendsPaid(j) /\ MailsPaid(j) BY <1>1 DEF IInv, Paid, CallOK, InHandPc, LoadedPc
<1>3. /\ ~Late(s, j) /\ ~Stale(s, j) /\ (Ahead(s, j) <=> Ahead(r, j)) /\ ~Late(r, j)
      /\ \A n : ~Holds(s, j, n)
  BY <1>1, <1>2, ToldFacts
<1>4. Holds(r, j, h) /\ Pending(r, j) /\ ~Pending(s, j) /\ ~Made(r, j)
  BY DEF Holds, Pending, AfterCommit, Ahead, Made
<1>5. Threat(r, j) BY <1>1, <1>2, <1>4, KindsOfCall
<1>6. ~Quiet(j) BY <1>1, <1>5, KindsMove DEF Quiet
<1>7. HeldCount(j, h) /\ \A n \in Nat : HeldCount(j, n)' => HeldCount(j, n)
  <2>1. HeldCount(j, h) BY <1>4 DEF HeldCount
  <2>2. \A n : HeldCount(j, n)' => HeldCount(j, n) \/ Holds(s, j, n) BY <1>1, KindsMove
  <2> QED BY <1>3, <2>1, <2>2
<1>8. Over(r.rows[j]) => (NoneOwes(j)' => NoneOwes(j))
  <2>1. Over(r.rows[j]) => ~Owes(r, j) BY DEF Owes
  <2> QED BY <1>1, <2>1, KindsMove
<1>9. PICK a : a = Cardinality(AheadOf(j)) OBVIOUS
<1>10. PICK aa : aa = Cardinality(AheadOf(j))' OBVIOUS
<1>11. PICK p : p = Cardinality(PendingOf(j)) OBVIOUS
<1>12. PICK pp : pp = Cardinality(PendingOf(j))' OBVIOUS
<1>13. PICK l : l = Cardinality(LateOf(j)) OBVIOUS
<1>14. PICK ll : ll = Cardinality(LateOf(j))' OBVIOUS
<1>15. PICK t : t = Cardinality(StaleOf(j)) OBVIOUS
<1>16. PICK tt : tt = Cardinality(StaleOf(j))' OBVIOUS
<1>17. /\ p \in Nat /\ pp \in Nat /\ t \in Nat /\ tt \in Nat
       /\ aa = a /\ ll = l /\ pp + 1 = p
  BY <1>1, <1>3, <1>4, <1>9, <1>10, <1>11, <1>12, <1>13, <1>14, <1>15, <1>16, CountsMove
<1>18. l <= a BY <1>1, <1>2, <1>9, <1>11, <1>13, <1>15, LateBelow
<1>19. tt <= pp BY <1>1, <1>2, <1>10, <1>12, <1>14, <1>16, LateBelowNext
<1>20. a = Cardinality(AheadOf(j))' /\ l = Cardinality(LateOf(j))' BY <1>10, <1>14, <1>17
<1>21. sends'[j] = sends[j] /\ mails'[j] = mails[j] /\ faults' = faults OBVIOUS
<1>22. SendsPaid(j)'
  <2>1. \/ h + 1 < MaxRetries /\ RetryOf(j)' = h + 1
        \/ /\ h + 1 >= MaxRetries
           /\ RetryOf(j)' = h + 1 \/ RetryOf(j)' = RetryOf(j)
           /\ Settled(j)' \/ ((NoneOwes(j)' => NoneOwes(j)) /\ ~Settled(j))
    BY <1>8
  <2> QED BY <1>1, <1>2, <1>6, <1>7, <1>9, <1>13, <1>18, <1>20, <1>21, <2>1, FailureSends
<1>23. MailsPaid(j)'
  <2>1. PICK m \in Nat : m = mails[j] BY <1>1, <1>2 DEF CountOK
  <2>2. m = mails'[j] BY <1>21, <2>1
  <2>3. m + pp <= m + p + 0 /\ m + tt + 1 <= m + p + 0 BY <1>17, <1>19
  <2>4. faults' = faults + 0 BY <1>1 DEF CountOK
  <2> QED BY <1>1, <1>2, <1>6, <1>11, <1>12, <1>15, <1>16, <2>1, <2>2, <2>3, <2>4, MailsStep
<1> QED BY <1>22, <1>23

\* The send failed: the row is pending again, or given up.
LEMMA MarcarErroKeeps == ASSUME IInv, NEW c \in Consumers, MarcarErro(c) PROVE IInv'
<1>1. PICK r : r = consumer[c] OBVIOUS
<1>2. TypeOK /\ CallOK(r) /\ CountOK /\ Recorded /\ Reserved /\ r.pc = "failed"
      /\ UNCHANGED <<circuit, mails, sends, opened, faults>>
  BY <1>1 DEF IInv, TypeOK, CallsOK, MarcarErro, At
<1>3. PICK k : k = [i \in DOMAIN r.rows |->
                       [r.rows[i] EXCEPT !.retry = OneMore(@), !.reserved = "no",
                           !.status = IF r.rows[i].retry + 1 >= MaxRetries THEN "ERROR" ELSE "PENDING"]]
  OBVIOUS
<1>4. fila' = Flush(r.rows, k) /\ Committed(c, "audit") BY <1>1, <1>3 DEF MarcarErro
<1>5. PICK s : Moves(c, s) /\ CallOK(s) /\ AfterCommit(r, s, "audit")
  BY <1>1, <1>2, <1>4, CommitShape
<1>6. PICK j \in Items : j = r.item /\ DOMAIN r.rows = {j} /\ r.rows[j] \in Row
  BY <1>2 DEF CallOK, InHandPc, LoadedPc
<1>7. PICK a \in Row : a = r.rows[j] BY <1>6
<1>m. MaxRetries \in Nat \ {0} /\ RetryLimit = MaxRetries + 1 BY EmailAssumption DEF RetryLimit
<1>h. PICK h \in 0..RetryLimit : h = a.retry BY DEF Row
<1>t. PICK hh : hh = OneMore(h) OBVIOUS
<1>u. hh \in 0..RetryLimit /\ (h < RetryLimit => hh = h + 1 /\ hh # h) /\ (~(h < RetryLimit) => hh = h)
  BY <1>h, <1>t, <1>m DEF OneMore
<1>v. PICK st : st = IF h + 1 >= MaxRetries THEN "ERROR" ELSE "PENDING" OBVIOUS
<1>8. PICK b : b = [a EXCEPT !.retry = hh, !.reserved = "no", !.status = st] OBVIOUS
<1>9. b \in Row /\ b.status = st /\ b.retry = hh BY <1>8, <1>u, <1>v DEF Row, Status
<1>10. k[j] = b /\ \A i \in DOMAIN r.rows : k[i] \in Row
  <2>1. k[j] = b BY <1>3, <1>6, <1>7, <1>h, <1>t, <1>v, <1>8
  <2> QED BY <1>6, <1>9, <2>1
<1>11. /\ RowsOK' /\ \A i \in Items : fila[i] # None => fila'[i] # None
       /\ \A i \in Items \ DOMAIN r.rows : fila'[i] = fila[i]
       /\ fila[j] # None /\ fila[j] \in Row /\ fila'[j] # None
       /\ fila'[j] = Merged(fila[j], a, b)
  BY <1>1, <1>2, <1>4, <1>6, <1>7, <1>10, FlushFacts
<1>12. PICK y \in Row : y = fila[j] BY <1>11
<1>13. /\ RetryOf(j)' = IF b.retry # a.retry THEN b.retry ELSE RetryOf(j)
       /\ \A q : Is(j, q) <=> y.status = q
       /\ \A q : Is(j, q)' <=> q = IF b.status # a.status THEN b.status ELSE y.status
  BY <1>9, <1>11, <1>12, RowWritten
<1>14. RetryOf(j)' = IF h < RetryLimit THEN h + 1 ELSE RetryOf(j)
  BY <1>9, <1>13, <1>h, <1>u
<1>15. IF a.status = st
       THEN \A q : Is(j, q)' <=> Is(j, q)
       ELSE \A q : Is(j, q)' <=> q = st
  BY <1>9, <1>13
<1>x. h \in Nat BY <1>h, <1>m
<1>16. \/ h + 1 < MaxRetries /\ RetryOf(j)' = h + 1
       \/ /\ h + 1 >= MaxRetries
          /\ RetryOf(j)' = h + 1 \/ RetryOf(j)' = RetryOf(j)
          /\ Settled(j)' \/ (Over(r.rows[j]) /\ ~Settled(j))
  <2>1. CASE h + 1 < MaxRetries
    <3>1. h < RetryLimit BY <1>m, <1>x, <2>1
    <3> QED BY <1>14, <2>1, <3>1
  <2>2. CASE ~(h + 1 < MaxRetries)
    <3>1. h + 1 >= MaxRetries BY <1>m, <1>x, <2>2
    <3>2. st = "ERROR" BY <1>v, <3>1
    <3>3. Settled(j)' \/ (a.status = "ERROR" /\ ~Settled(j)) BY <1>15, <3>2 DEF Settled
    <3>4. RetryOf(j)' = h + 1 \/ RetryOf(j)' = RetryOf(j) BY <1>14
    <3> QED BY <1>7, <3>1, <3>3, <3>4 DEF Over
  <2> QED BY <2>1, <2>2
<1>17. ASSUME TypeOK' PROVE SendsPaid(j)' /\ MailsPaid(j)'
  BY <1>1, <1>2, <1>5, <1>6, <1>7, <1>h, <1>x, <1>16, <1>17, FailurePaid
<1>18. \A i \in Items \ {j} : fila'[i] = fila[i] BY <1>6, <1>11
<1>19. RowRecord(j)'
  <2>1. PICK e \in Nat : e = sends[j] BY <1>2 DEF CountOK
  <2>2. h + 1 <= e BY <1>1, <1>2, <1>6, <1>7, <1>h, <2>1 DEF Recorded, CallRecord
  <2>3. /\ RetryOf(j) <= e /\ (Is(j, "SENT") => mails[j] > 0) /\ (Is(j, "ERROR") => e >= MaxRetries)
    BY <1>2, <2>1 DEF Recorded, RowRecord
  <2>4. RetryOf(j)' <= e BY <1>14, <2>2, <2>3
  <2>5. st = "ERROR" => e >= MaxRetries BY <1>m, <1>x, <1>v, <2>2
  <2>6. st # "SENT" BY <1>v
  <2> QED BY <1>2, <1>15, <2>1, <2>3, <2>4, <2>5, <2>6 DEF RowRecord
<1>20. ASSUME TypeOK', NEW i \in Items PROVE SendsPaid(i)' /\ MailsPaid(i)'
  <2>1. CASE i = j BY <1>17, <1>20, <2>1
  <2>2. CASE i # j BY <1>1, <1>2, <1>5, <1>6, <1>18, <1>20, <2>2, ToldOthers
  <2> QED BY <2>1, <2>2
<1>21. ASSUME faults = 0, ~opened, NEW i \in Items PROVE Is(i, "PROCESSING")' <=> Working(s, i)
  <2>1. a.status = "PROCESSING"
    BY <1>1, <1>2, <1>6, <1>7, <1>21 DEF Reserved, LoadedPc
  <2>2. ~Is(j, "PROCESSING")' BY <1>15, <1>v, <2>1
  <2> QED BY <1>1, <1>2, <1>5, <1>6, <1>18, <1>21, <2>2, ToldReserved
<1>22. r.pc # "idle" /\ \A i \in Items : fila'[i] = fila[i] \/ RowRecord(i)' BY <1>2, <1>18, <1>19
<1> QED BY <1>1, <1>2, <1>5, <1>11, <1>20, <1>21, <1>22, CommitKeeps


-----------------------------------------------------------------------------
\* An effect is counted, up to the limit of the counter.
LEMMA CountOneTyped ==
    ASSUME NEW g \in [Items -> Nat], NEW j \in Items, NEW gg, gg = CountOne(g, j)
    PROVE  /\ gg \in [Items -> Nat]
           /\ \A i \in Items : i # j => gg[i] = g[i]
           /\ g[j] <= gg[j] /\ gg[j] <= g[j] + 1 /\ gg[j] > 0
           /\ g[j] < CountLimit => gg[j] = g[j] + 1
<1>1. CountLimit \in Nat \ {0} BY EmailAssumption DEF CountLimit
<1>2. PICK n \in Nat : n = g[j] OBVIOUS
<1>3. PICK nn : nn = IF n < CountLimit THEN n + 1 ELSE n OBVIOUS
<1>4. gg = [g EXCEPT ![j] = nn] BY <1>2, <1>3 DEF CountOne
<1>5. nn \in Nat /\ n <= nn /\ nn <= n + 1 /\ nn > 0 /\ (n < CountLimit => nn = n + 1)
  BY <1>1, <1>2, <1>3
<1> QED BY <1>2, <1>4, <1>5

\* The accounts of the row in hand, when its call sends it, mails it or loses
\* the answer.
LEMMA HandPaid ==
    ASSUME TypeOK, TypeOK', NEW c \in Consumers, NEW r, r = consumer[c], NEW s, Moves(c, s),
           NEW i \in Items, SendsPaid(i), MailsPaid(i), NEW d \in {0, 1}, faults' = faults + d,
           fila'[i] = fila[i], Threat(r, i), \A n \in Nat : Holds(s, i, n) => Holds(r, i, n),
           NEW e \in Nat, e = sends[i], NEW ee \in Nat, ee = sends'[i],
           NEW m \in Nat, m = mails[i], NEW mm \in Nat, mm = mails'[i],
           \/ /\ ee = e /\ (Ahead(s, i) => Ahead(r, i)) /\ (Late(s, i) => Late(r, i))
              /\ Owes(r, i) => Owes(s, i)
           \/ /\ ee = e + 1 /\ Ahead(r, i) /\ ~Ahead(s, i) /\ ~Late(s, i)
              /\ ~Owes(r, i) /\ (Late(r, i) \/ Owes(s, i)),
           \/ /\ mm <= m + d /\ (Pending(s, i) => Pending(r, i)) /\ (Stale(s, i) => Stale(r, i))
              /\ Made(r, i) => Made(s, i)
           \/ /\ mm <= m + 1 /\ Pending(r, i) /\ ~Pending(s, i) /\ ~Stale(s, i)
              /\ ~Made(r, i) /\ (Stale(r, i) \/ Made(s, i))
    PROVE  SendsPaid(i)' /\ MailsPaid(i)'
<1>1. RowsOK /\ CountOK /\ CountOK' /\ CallsOK BY DEF TypeOK
<1>2. PICK a : a = Cardinality(AheadOf(i)) OBVIOUS
<1>3. PICK aa : aa = Cardinality(AheadOf(i))' OBVIOUS
<1>4. PICK p : p = Cardinality(PendingOf(i)) OBVIOUS
<1>5. PICK pp : pp = Cardinality(PendingOf(i))' OBVIOUS
<1>6. PICK l : l = Cardinality(LateOf(i)) OBVIOUS
<1>7. PICK ll : ll = Cardinality(LateOf(i))' OBVIOUS
<1>8. PICK t : t = Cardinality(StaleOf(i)) OBVIOUS
<1>9. PICK tt : tt = Cardinality(StaleOf(i))' OBVIOUS
<1>10. /\ a \in Nat /\ aa \in Nat /\ p \in Nat /\ pp \in Nat
       /\ l \in Nat /\ ll \in Nat /\ t \in Nat /\ tt \in Nat
       /\ (Ahead(s, i) => Ahead(r, i)) => aa <= a
       /\ (Ahead(r, i) /\ ~Ahead(s, i)) => aa + 1 = a
       /\ (Pending(s, i) => Pending(r, i)) => pp <= p
       /\ (Pending(r, i) /\ ~Pending(s, i)) => pp + 1 = p
       /\ (Late(s, i) => Late(r, i)) => ll <= l
       /\ (Late(r, i) /\ ~Late(s, i)) => ll + 1 = l
       /\ (Stale(s, i) => Stale(r, i)) => tt <= t
       /\ (Stale(r, i) /\ ~Stale(s, i)) => tt + 1 = t
  BY <1>1, <1>2, <1>3, <1>4, <1>5, <1>6, <1>7, <1>8, <1>9, CountsMove
<1>11. ~Quiet(i) /\ RetryOf(i)' = RetryOf(i) /\ Settled(i)' = Settled(i)
  BY <1>1, KindsMove, RowSame DEF Quiet
<1>12. \A n \in Nat : HeldCount(i, n)' => HeldCount(i, n) BY <1>1, KindsMove
<1>13. /\ (NoneOwes(i)' /\ (Owes(r, i) => Owes(s, i))) => NoneOwes(i)
       /\ Owes(s, i) => ~NoneOwes(i)'
       /\ (NoneMade(i)' /\ (Made(r, i) => Made(s, i))) => NoneMade(i)
       /\ Made(s, i) => ~NoneMade(i)'
  BY <1>1, KindsMove
<1>14. /\ ee + aa <= e + a + d
       /\ (~Settled(i)' /\ NoneOwes(i)') => ~Settled(i) /\ NoneOwes(i) /\ ee + ll <= e + l + d
  <2>1. CASE /\ ee = e /\ (Ahead(s, i) => Ahead(r, i)) /\ (Late(s, i) => Late(r, i))
             /\ Owes(r, i) => Owes(s, i)
    <3>1. aa <= a /\ ll <= l BY <1>10, <2>1
    <3>2. ee + aa <= e + a + d /\ ee + ll <= e + l + d BY <1>10, <2>1, <3>1
    <3> QED BY <1>11, <1>13, <2>1, <3>2
  <2>2. CASE /\ ee = e + 1 /\ Ahead(r, i) /\ ~Ahead(s, i) /\ ~Late(s, i)
             /\ ~Owes(r, i) /\ (Late(r, i) \/ Owes(s, i))
    <3>1. aa + 1 = a /\ (Late(r, i) => ll + 1 = l) BY <1>10, <2>2
    <3>2. ee + aa <= e + a + d /\ (Late(r, i) => ee + ll <= e + l + d) BY <1>10, <2>2, <3>1
    <3> QED BY <1>11, <1>13, <2>2, <3>2
  <2> QED BY <2>1, <2>2
<1>15. /\ mm + pp <= m + p + d
       /\ (~Settled(i)' /\ NoneMade(i)') => ~Settled(i) /\ NoneMade(i) /\ mm + tt <= m + t + d
  <2>1. CASE /\ mm <= m + d /\ (Pending(s, i) => Pending(r, i)) /\ (Stale(s, i) => Stale(r, i))
             /\ Made(r, i) => Made(s, i)
    <3>1. pp <= p /\ tt <= t BY <1>10, <2>1
    <3>2. mm + pp <= m + p + d /\ mm + tt <= m + t + d BY <1>10, <2>1, <3>1
    <3> QED BY <1>11, <1>13, <2>1, <3>2
  <2>2. CASE /\ mm <= m + 1 /\ Pending(r, i) /\ ~Pending(s, i) /\ ~Stale(s, i)
             /\ ~Made(r, i) /\ (Stale(r, i) \/ Made(s, i))
    <3>1. pp + 1 = p /\ (Stale(r, i) => tt + 1 = t) BY <1>10, <2>2
    <3>2. mm + pp <= m + p + d /\ (Stale(r, i) => mm + tt <= m + t + d) BY <1>10, <2>2, <3>1
    <3> QED BY <1>11, <1>13, <2>2, <3>2
  <2> QED BY <2>1, <2>2
<1>16. SendsPaid(i)'
  BY <1>1, <1>2, <1>3, <1>6, <1>7, <1>11, <1>12, <1>14, SendsStep
<1>17. MailsPaid(i)'
  BY <1>1, <1>4, <1>5, <1>8, <1>9, <1>11, <1>15, MailsStep
<1> QED BY <1>16, <1>17

\* The call goes on with the row in hand, and effects are counted for that row.
LEMMA HandMoves ==
    ASSUME IInv, NEW c \in Consumers, NEW r, r = consumer[c], r.pc \in {"send", "try"},
           NEW s, Moves(c, s), CallOK(s), SameHand(r, s), s.pc \in {"try", "sent", "failed"},
           NEW j, j = r.item, UNCHANGED <<fila, opened>>,
           circuit' \in [Consumers -> CircuitState],
           sends' \in [Items -> Nat], mails' \in [Items -> Nat],
           \A i \in Items : i # j => sends'[i] = sends[i] /\ mails'[i] = mails[i],
           sends[j] <= sends'[j], mails[j] <= mails'[j],
           NEW d \in {0, 1}, faults' = faults + d, d = 1 => faults < MaxFaults,
           s.pc = "sent" => mails'[j] > 0,
           s.pc \in {"try", "failed"} => r.rows[j].retry + 1 <= sends'[j],
           TypeOK' => SendsPaid(j)' /\ MailsPaid(j)'
    PROVE  IInv'
<1>1. TypeOK /\ CallOK(r) /\ CountOK /\ Recorded /\ Reserved BY DEF IInv, TypeOK, CallsOK
<1>2. s.rows = r.rows /\ s.lote = r.lote /\ s.item = j BY DEF SameHand
<1>3. j \in Items /\ j \in r.lote /\ DOMAIN r.rows = {j} /\ r.rows[j] \in Row
  BY <1>1 DEF CallOK, InHandPc, LoadedPc
<1>4. CountOK'
  <2>1. faults' \in 0..MaxFaults BY <1>1, EmailAssumption DEF CountOK
  <2> QED BY <1>1, <2>1 DEF CountOK
<1>5. RowsOK' /\ \A i \in Items : fila[i] # None => fila'[i] # None BY <1>1, RowsKept DEF TypeOK
<1>6. \A i \in DOMAIN s.rows \cup s.lote : fila[i] # None BY <1>1, <1>2 DEF TypeOK, KnownRows
<1>7. TypeOK' BY <1>1, <1>4, <1>5, <1>6, CallTyped
<1>8. ASSUME NEW i \in Items, i # j PROVE SendsPaid(i)' /\ MailsPaid(i)'
  <2>1. SendsPaid(i) /\ MailsPaid(i) BY DEF IInv, Paid
  <2>2. /\ RetryOf(i)' = RetryOf(i) /\ Settled(i)' = Settled(i)
        /\ sends'[i] = sends[i] /\ mails'[i] = mails[i]
    BY <1>8, RowSame
  <2>3. Less(r, s, i) /\ Entitled(r, s, i)
    BY <1>2, <1>8 DEF Less, Entitled, Ahead, Pending, Late, Stale, Owes, Made
  <2>4. (Threat(s, i) => Threat(r, i)) /\ \A n : ~Holds(s, i, n)
    BY <1>2, <1>8 DEF Threat, Holds
  <2>5. ~Settled(i)' => ~Settled(i) /\ Entitled(r, s, i) BY <2>2, <2>3
  <2> QED BY <1>1, <1>7, <2>1, <2>2, <2>3, <2>4, <2>5, PaidItem
<1>9. Paid' BY <1>7, <1>8 DEF Paid
<1>10. ASSUME NEW i \in Items PROVE sends[i] <= sends'[i] /\ mails[i] <= mails'[i]
  BY <1>1 DEF CountOK
<1>11. CallRecord(s)'
  <2>1. PICK n \in Nat : n = r.rows[j].retry BY <1>3, EmailAssumption DEF Row, RetryLimit
  <2>2. n <= sends[j] BY <1>1, <1>3, <2>1 DEF Recorded, CallRecord
  <2>3. sends[j] \in Nat /\ sends'[j] \in Nat BY <1>1, <1>3 DEF CountOK
  <2>4. n <= sends'[j] BY <2>2, <2>3
  <2> QED BY <1>2, <1>3, <2>1, <2>4 DEF CallRecord
<1>12. Recorded' BY <1>1, <1>7, <1>10, <1>11, RecordedMove
<1>13. Reserved'
  <2>1. ASSUME faults = 0, ~opened
        PROVE  /\ \A i \in Items : Is(i, "PROCESSING")' <=> Working(s, i)
               /\ s.pc \in LoadedPc => s.rows[s.item].status = "PROCESSING"
    <3>1. r.pc # "idle" /\ r.pc \in LoadedPc BY DEF LoadedPc
    <3>2. \A i \in Items : Is(i, "PROCESSING") <=> Working(r, i)
      BY <1>1, <2>1, <3>1, ReservedKnows
    <3>3. r.rows[r.item].status = "PROCESSING" BY <1>1, <1>3, <2>1, <3>1, ReservedKnows
    <3>4. \A i \in Items : Working(s, i) <=> Working(r, i) BY <1>2 DEF Working
    <3>5. \A i \in Items : Is(i, "PROCESSING")' <=> Is(i, "PROCESSING") BY DEF Is
    <3> QED BY <1>2, <3>2, <3>3, <3>4, <3>5
  <2>2. d = 0 => faults' = faults BY <1>1 DEF CountOK
  <2>3. r.pc # "idle" /\ opened' = opened OBVIOUS
  <2> QED BY <1>1, <2>1, <2>2, <2>3, ReservedMove
<1> QED BY <1>7, <1>9, <1>12, <1>13 DEF IInv


-----------------------------------------------------------------------------
\* The circuit lets the send through.
LEMMA GuardSendsKeeps ==
    ASSUME IInv, NEW c \in Consumers, Guard(c), ~IsOpen(circuit[c]) PROVE IInv'
<1>1. PICK r : r = consumer[c] OBVIOUS
<1>2. TypeOK /\ CallOK(r) /\ CountOK /\ Recorded /\ r.pc = "send"
      /\ UNCHANGED <<fila, circuit, mails, opened, faults>>
  BY <1>1 DEF IInv, TypeOK, CallsOK, Guard, At
<1>3. PICK j \in Items : j = r.item BY <1>2 DEF CallOK, InHandPc, LoadedPc
<1>4. sends' = CountOne(sends, j) BY <1>1, <1>3 DEF Guard
<1>5. PICK l : l = r.rows OBVIOUS
<1>6. r \in CallRecs(l) BY <1>2, <1>5 DEF CallOK, CallRecs
<1>7. PICK s : s = [r EXCEPT !.pc = "try", !.attempt = 1] OBVIOUS
<1>8. Moves(c, s) BY <1>1, <1>7 DEF Guard, Moves
<1>9. 1 \in 0..MaxAttempts BY CircuitAssumption
<1>10. s \in CallRecs(l) /\ s.pc = "try" /\ s.rows = l /\ s.lote = r.lote /\ s.item = r.item
  BY <1>6, <1>7, <1>9 DEF CallRecs, ConsumerPc
<1>11. SameHand(r, s) BY <1>5, <1>10 DEF SameHand
<1>12. CallOK(s) BY <1>2, <1>5, <1>10, <1>11, HandOK DEF LoadedPc
<1>13. /\ sends' \in [Items -> Nat] /\ \A i \in Items : i # j => sends'[i] = sends[i]
       /\ sends[j] <= sends'[j] /\ sends'[j] <= sends[j] + 1
       /\ sends[j] < CountLimit => sends'[j] = sends[j] + 1
  BY <1>2, <1>4, CountOneTyped DEF CountOK
<1>14. PICK e \in Nat : e = sends[j] BY <1>2 DEF CountOK
<1>15. PICK m \in Nat : m = mails[j] BY <1>2 DEF CountOK
<1>16. Threat(r, j) /\ Ahead(r, j)
  BY <1>2, <1>3 DEF Threat, Ahead, CallOK, InHandPc, LoadedPc
<1>17. sends'[j] = e + 1
  <2>1. ~Quiet(j) BY <1>1, <1>16 DEF Quiet, Calm
  <2>2. SendsWithin(j, MaxRetries) BY <2>1 DEF IInv, Paid, SendsPaid
  <2>3. PICK f \in Nat : f = faults /\ f <= MaxFaults BY <1>2, EmailAssumption DEF CountOK
  <2>4. PICK a \in Nat : a = Cardinality(AheadOf(j)) BY CountsTyped
  <2>5. e + a <= MaxRetries + f BY <1>14, <2>2, <2>3, <2>4 DEF SendsWithin
  <2>6. MaxRetries \in Nat /\ MaxFaults \in Nat BY EmailAssumption
  <2>7. e < CountLimit BY <2>3, <2>5, <2>6 DEF CountLimit
  <2> QED BY <1>13, <1>14, <2>7
<1>18. /\ ~Ahead(s, j) /\ ~Late(s, j) /\ ~Owes(r, j) /\ (Late(r, j) \/ Owes(s, j))
       /\ Pending(r, j) /\ (Stale(s, j) => Stale(r, j)) /\ ~Made(r, j)
       /\ \A n : Holds(s, j, n) => Holds(r, j, n)
  <2>1. s.rows = r.rows /\ s.item = j /\ r.item = j BY <1>3, <1>5, <1>10
  <2>2. ~Ahead(s, j) /\ Pending(r, j) BY <1>10, <1>16, <2>1 DEF Ahead, Pending
  <2>3. ~Late(s, j) /\ ~Owes(r, j) /\ (Late(r, j) \/ Owes(s, j)) BY <1>2, <1>10, <2>1 DEF Late, Owes
  <2>4. (Stale(s, j) => Stale(r, j)) /\ ~Made(r, j) BY <1>2, <1>10, <2>1 DEF Stale, Made
  <2>5. \A n : Holds(s, j, n) => Holds(r, j, n) BY <1>2, <1>10, <2>1 DEF Holds
  <2> QED BY <2>2, <2>3, <2>4, <2>5
<1>19. ASSUME TypeOK' PROVE SendsPaid(j)' /\ MailsPaid(j)'
  <2>1. PICK ee \in Nat : ee = e + 1 OBVIOUS
  <2>2. ee = sends'[j] /\ m = mails'[j] /\ m <= m + 0 BY <1>2, <1>15, <1>17, <2>1
  <2>3. faults' = faults + 0 /\ fila'[j] = fila[j] BY <1>2 DEF CountOK
  <2>4. SendsPaid(j) /\ MailsPaid(j) BY DEF IInv, Paid
  <2>5. /\ ee = e + 1 /\ Ahead(r, j) /\ ~Ahead(s, j) /\ ~Late(s, j)
        /\ ~Owes(r, j) /\ (Late(r, j) \/ Owes(s, j))
    BY <1>16, <1>18, <2>1
  <2>6. /\ m <= m + 0 /\ (Pending(s, j) => Pending(r, j)) /\ (Stale(s, j) => Stale(r, j))
        /\ Made(r, j) => Made(s, j)
    BY <1>18, <2>2
  <2>7. \A n \in Nat : Holds(s, j, n) => Holds(r, j, n) BY <1>18
  <2> QED BY <1>1, <1>2, <1>8, <1>14, <1>15, <1>16, <1>19, <2>2, <2>3, <2>4, <2>5, <2>6, <2>7, HandPaid
<1>20. r.rows[j].retry + 1 <= sends'[j]
  <2>1. DOMAIN r.rows = {j} /\ r.rows[j] \in Row BY <1>2, <1>3 DEF CallOK, LoadedPc
  <2>2. PICK n \in Nat : n = r.rows[j].retry BY <2>1, EmailAssumption DEF Row, RetryLimit
  <2>3. n <= e BY <1>1, <1>2, <1>14, <2>1, <2>2 DEF Recorded, CallRecord
  <2> QED BY <1>17, <2>2, <2>3
<1>21. mails' \in [Items -> Nat] /\ (\A i \in Items : mails'[i] = mails[i]) /\ mails[j] <= mails'[j]
  BY <1>2 DEF CountOK
<1>22. faults' = faults + 0 /\ circuit' \in [Consumers -> CircuitState] BY <1>2 DEF CountOK
<1> QED BY <1>1, <1>2, <1>3, <1>8, <1>10, <1>11, <1>12, <1>13, <1>19, <1>20, <1>21, <1>22, HandMoves

\* The provider accepts the mail.
LEMMA EnviarKeeps == ASSUME IInv, NEW c \in Consumers, Enviar(c) PROVE IInv'
<1>1. PICK r : r = consumer[c] OBVIOUS
<1>2. TypeOK /\ CallOK(r) /\ CountOK /\ r.pc = "try" /\ Goto(c, "sent")
      /\ UNCHANGED <<fila, sends, opened, faults>>
  BY <1>1 DEF IInv, TypeOK, CallsOK, Enviar, At
<1>3. PICK j \in Items : j = r.item BY <1>2 DEF CallOK, InHandPc, LoadedPc
<1>4. mails' = CountOne(mails, j) BY <1>1, <1>3 DEF Enviar
<1>5. circuit' \in [Consumers -> CircuitState]
  BY <1>2, NewTyped DEF CountOK, Enviar, RecordSuccess
<1>6. PICK s : Moves(c, s) /\ CallOK(s) /\ s.pc = "sent" /\ SameHand(r, s)
  BY <1>1, <1>2, GotoShape DEF LoadedPc
<1>7. s.rows = r.rows /\ s.lote = r.lote /\ s.item = r.item BY <1>6 DEF SameHand
<1>8. /\ mails' \in [Items -> Nat] /\ \A i \in Items : i # j => mails'[i] = mails[i]
      /\ mails[j] <= mails'[j] /\ mails'[j] <= mails[j] + 1 /\ mails'[j] > 0
  BY <1>2, <1>4, CountOneTyped DEF CountOK
<1>9. PICK e \in Nat : e = sends[j] BY <1>2 DEF CountOK
<1>10. PICK m \in Nat : m = mails[j] BY <1>2 DEF CountOK
<1>11. PICK mm \in Nat : mm = mails'[j] BY <1>8
<1>12. Threat(r, j) BY <1>2, <1>3 DEF Threat, CallOK, InHandPc, LoadedPc
<1>13. /\ ~Ahead(s, j) /\ ~Late(s, j) /\ (Owes(r, j) => Owes(s, j))
       /\ Pending(r, j) /\ ~Pending(s, j) /\ ~Stale(s, j) /\ ~Made(r, j) /\ (Stale(r, j) \/ Made(s, j))
       /\ \A n : Holds(s, j, n) => Holds(r, j, n)
  BY <1>2, <1>3, <1>6, <1>7 DEF Ahead, Late, Owes, Pending, Stale, Made, Holds
<1>14. ASSUME TypeOK' PROVE SendsPaid(j)' /\ MailsPaid(j)'
  <2>1. e = sends'[j] /\ mm <= m + 1 BY <1>2, <1>8, <1>9, <1>10, <1>11
  <2>2. faults' = faults + 0 /\ fila'[j] = fila[j] BY <1>2 DEF CountOK
  <2>3. SendsPaid(j) /\ MailsPaid(j) BY DEF IInv, Paid
  <2>4. \A n \in Nat : Holds(s, j, n) => Holds(r, j, n) BY <1>13
  <2> QED BY <1>1, <1>2, <1>6, <1>9, <1>10, <1>11, <1>12, <1>13, <1>14, <2>1, <2>2, <2>3, <2>4, HandPaid
<1>15. sends' \in [Items -> Nat] /\ (\A i \in Items : sends'[i] = sends[i]) /\ sends[j] <= sends'[j]
  BY <1>2 DEF CountOK
<1>16. faults' = faults + 0 /\ s.pc \notin {"try", "failed"} BY <1>2, <1>6 DEF CountOK
<1> QED BY <1>1, <1>2, <1>3, <1>5, <1>6, <1>8, <1>14, <1>15, <1>16, HandMoves

\* The provider accepted the mail and nobody heard of it.
LEMMA RespostaPerdidaKeeps == ASSUME IInv, NEW c \in Consumers, RespostaPerdida(c) PROVE IInv'
<1>1. PICK r : r = consumer[c] OBVIOUS
<1>2. TypeOK /\ CountOK /\ Recorded /\ FalharTentativa(c) /\ faults < MaxFaults /\ faults' = faults + 1
      /\ UNCHANGED <<fila, sends, opened>>
  BY DEF IInv, TypeOK, RespostaPerdida, Fault
<1>3. /\ r.pc = "try" /\ CallOK(r) /\ circuit' \in [Consumers -> CircuitState]
      /\ \E s : /\ Moves(c, s) /\ CallOK(s) /\ s.pc \in {"try", "failed"} /\ SameHand(r, s)
  BY <1>1, <1>2, TryShape
<1>4. PICK s : Moves(c, s) /\ CallOK(s) /\ s.pc \in {"try", "failed"} /\ SameHand(r, s) BY <1>3
<1>5. PICK j \in Items : j = r.item BY <1>3 DEF CallOK, InHandPc, LoadedPc
<1>6. mails' = CountOne(mails, j) BY <1>1, <1>5 DEF RespostaPerdida
<1>7. /\ mails' \in [Items -> Nat] /\ \A i \in Items : i # j => mails'[i] = mails[i]
      /\ mails[j] <= mails'[j] /\ mails'[j] <= mails[j] + 1
  BY <1>2, <1>6, CountOneTyped DEF CountOK
<1>8. PICK e \in Nat : e = sends[j] BY <1>2 DEF CountOK
<1>9. PICK m \in Nat : m = mails[j] BY <1>2 DEF CountOK
<1>10. PICK mm \in Nat : mm = mails'[j] BY <1>7
<1>11. Threat(r, j) BY <1>3, <1>5 DEF Threat, CallOK, InHandPc, LoadedPc
<1>12. /\ Less(r, s, j) /\ Entitled(r, s, j)
       /\ \A n : Holds(s, j, n) => Holds(r, j, n)
  BY <1>3, <1>4, TryFacts
<1>13. ASSUME TypeOK' PROVE SendsPaid(j)' /\ MailsPaid(j)'
  <2>1. e = sends'[j] /\ mm <= m + 1 BY <1>2, <1>7, <1>8, <1>9, <1>10
  <2>2. fila'[j] = fila[j] BY <1>2
  <2>3. SendsPaid(j) /\ MailsPaid(j) BY DEF IInv, Paid
  <2>4. \A n \in Nat : Holds(s, j, n) => Holds(r, j, n) BY <1>12
  <2>5. /\ (Ahead(s, j) => Ahead(r, j)) /\ (Late(s, j) => Late(r, j)) /\ (Owes(r, j) => Owes(s, j))
        /\ (Pending(s, j) => Pending(r, j)) /\ (Stale(s, j) => Stale(r, j)) /\ (Made(r, j) => Made(s, j))
    BY <1>12 DEF Less, Entitled
  <2> QED BY <1>1, <1>2, <1>4, <1>8, <1>9, <1>10, <1>11, <1>13, <2>1, <2>2, <2>3, <2>4, <2>5, HandPaid
<1>14. sends' \in [Items -> Nat] /\ (\A i \in Items : sends'[i] = sends[i]) /\ sends[j] <= sends'[j]
  BY <1>2 DEF CountOK
<1>15. r.rows[j].retry + 1 <= sends'[j]
  BY <1>1, <1>2, <1>3, <1>5 DEF Recorded, CallRecord
<1>16. s.pc # "sent" BY <1>4
<1> QED BY <1>1, <1>2, <1>3, <1>4, <1>5, <1>7, <1>13, <1>14, <1>15, <1>16, HandMoves


-----------------------------------------------------------------------------
\* A step in which no call moves.
LEMMA CallsSame ==
    ASSUME consumer' = consumer, NEW i
    PROVE  /\ Cardinality(AheadOf(i))' = Cardinality(AheadOf(i))
           /\ Cardinality(PendingOf(i))' = Cardinality(PendingOf(i))
           /\ Cardinality(LateOf(i))' = Cardinality(LateOf(i))
           /\ Cardinality(StaleOf(i))' = Cardinality(StaleOf(i))
           /\ NoneOwes(i)' <=> NoneOwes(i)
           /\ NoneMade(i)' <=> NoneMade(i)
           /\ Calm(i)' <=> Calm(i)
           /\ \A n : HeldCount(i, n)' <=> HeldCount(i, n)
<1>1. PICK S : S = consumer OBVIOUS
<1>2. S = consumer' BY <1>1
<1>3. /\ AheadOf(i) = AheadNow(S, i) /\ PendingOf(i) = PendingNow(S, i)
      /\ LateOf(i) = LateNow(S, i) /\ StaleOf(i) = StaleNow(S, i)
  BY <1>1, SetsNow
<1>4. /\ AheadOf(i)' = AheadNow(S, i) /\ PendingOf(i)' = PendingNow(S, i)
      /\ LateOf(i)' = LateNow(S, i) /\ StaleOf(i)' = StaleNow(S, i)
  BY <1>2, SetsNow
<1>5. /\ NoneOwes(i)' <=> \A b \in Consumers : ~Owes(S[b], i)
      /\ NoneMade(i)' <=> \A b \in Consumers : ~Made(S[b], i)
      /\ \A n : HeldCount(i, n)' <=> \E b \in Consumers : Holds(S[b], i, n)
      /\ Calm(i)' <=> \A b \in Consumers : ~Threat(S[b], i)
  BY <1>2 DEF NoneOwes, NoneMade, HeldCount, Calm, Owes, Made, Holds, Threat, Over
<1>6. /\ NoneOwes(i) <=> \A b \in Consumers : ~Owes(S[b], i)
      /\ NoneMade(i) <=> \A b \in Consumers : ~Made(S[b], i)
      /\ \A n : HeldCount(i, n) <=> \E b \in Consumers : Holds(S[b], i, n)
      /\ Calm(i) <=> \A b \in Consumers : ~Threat(S[b], i)
  BY <1>1 DEF NoneOwes, NoneMade, HeldCount, Calm
<1> QED BY <1>3, <1>4, <1>5, <1>6

\* A row is added or grows old, a circuit cools: the accounts stay as they are.
LEMMA RowsOnly ==
    ASSUME IInv, UNCHANGED <<consumer, mails, sends, opened>>, CountOK',
           NEW d \in {0, 1}, faults' = faults + d,
           RowsOK', \A i \in Items : fila[i] # None => fila'[i] # None,
           \A i \in Items : RetryOf(i)' = RetryOf(i),
           \A i \in Items : \A q \in {"PROCESSING", "SENT", "ERROR"} : Is(i, q)' <=> Is(i, q)
    PROVE  IInv'
<1>1. TypeOK /\ RowsOK /\ CountOK /\ CallsOK /\ KnownRows /\ Paid /\ Recorded /\ Reserved
  BY DEF IInv, TypeOK
<1>2. CallsOK'
  <2>1. ASSUME NEW b \in Consumers PROVE CallOK(consumer[b])'
    <3>1. PICK t : t = consumer[b] OBVIOUS
    <3>2. t = consumer'[b] BY <3>1
    <3>3. CallOK(t) BY <1>1, <3>1 DEF CallsOK
    <3> QED BY <3>2, <3>3, CallNext
  <2> QED BY <1>1, <2>1 DEF CallsOK
<1>3. KnownRows'
  <2>1. ASSUME NEW b \in Consumers, NEW i \in DOMAIN consumer[b].rows \cup consumer[b].lote
        PROVE  fila'[i] # None
    <3>1. i \in Items BY <1>1, <2>1 DEF CallsOK, CallOK
    <3>2. fila[i] # None BY <1>1, <2>1 DEF KnownRows
    <3> QED BY <3>1, <3>2
  <2> QED BY <2>1 DEF KnownRows
<1>4. TypeOK' BY <1>2, <1>3 DEF TypeOK
<1>5. Paid'
  <2> SUFFICES ASSUME NEW i \in Items PROVE SendsPaid(i)' /\ MailsPaid(i)'
    BY DEF Paid
  <2>1. SendsPaid(i) /\ MailsPaid(i) BY <1>1 DEF Paid
  <2>2. Settled(i)' <=> Settled(i) BY DEF Settled
  <2>3. PICK a \in Nat : a = Cardinality(AheadOf(i)) BY CountsTyped
  <2>4. PICK p \in Nat : p = Cardinality(PendingOf(i)) BY CountsTyped
  <2>5. PICK l \in Nat : l = Cardinality(LateOf(i)) BY CountsTyped
  <2>6. PICK t \in Nat : t = Cardinality(StaleOf(i)) BY CountsTyped
  <2>7. /\ a = Cardinality(AheadOf(i))' /\ p = Cardinality(PendingOf(i))'
        /\ l = Cardinality(LateOf(i))' /\ t = Cardinality(StaleOf(i))'
    BY <2>3, <2>4, <2>5, <2>6, CallsSame
  <2>8. /\ NoneOwes(i)' <=> NoneOwes(i)
        /\ NoneMade(i)' <=> NoneMade(i)
        /\ \A n : HeldCount(i, n)' <=> HeldCount(i, n)
    BY CallsSame
  <2>9. Quiet(i) => Quiet(i)' BY <2>2, CallsSame DEF Quiet
  <2>10. PICK e \in Nat : e = sends[i] BY <1>1 DEF CountOK
  <2>11. PICK m \in Nat : m = mails[i] BY <1>1 DEF CountOK
  <2>12. e = sends'[i] /\ m = mails'[i] BY <2>10, <2>11
  <2>13. /\ e + a <= e + a + d /\ e + l <= e + l + d
         /\ m + p <= m + p + d /\ m + t <= m + t + d
    OBVIOUS
  <2>14. SendsPaid(i)'
    BY <1>1, <2>1, <2>2, <2>3, <2>5, <2>7, <2>8, <2>9, <2>10, <2>12, <2>13, SendsStep
  <2>15. MailsPaid(i)'
    BY <1>1, <2>1, <2>2, <2>4, <2>6, <2>7, <2>8, <2>9, <2>11, <2>12, <2>13, MailsStep
  <2> QED BY <2>14, <2>15
<1>6. Recorded'
  <2>1. ASSUME NEW i \in Items PROVE RowRecord(i)'
    <3>1. RowRecord(i) BY <1>1 DEF Recorded
    <3> QED BY <3>1 DEF RowRecord
  <2>2. ASSUME NEW b \in Consumers PROVE CallRecord(consumer[b])'
    BY <1>1 DEF Recorded, CallRecord
  <2> QED BY <2>1, <2>2 DEF Recorded
<1>7. Reserved'
  <2>1. CASE d = 1
    <3>1. ~(faults' = 0) BY <1>1, <2>1 DEF CountOK
    <3> QED BY <3>1 DEF Reserved
  <2>2. CASE d = 0
    <3>1. faults' = faults BY <1>1, <2>2 DEF CountOK
    <3> SUFFICES ASSUME faults = 0, ~opened PROVE Reserved' BY <3>1 DEF Reserved
    <3>2. Alone' BY <1>1 DEF Reserved, Alone, At
    <3>3. ASSUME NEW i \in Items
          PROVE  Is(i, "PROCESSING")' <=> (\E c \in Consumers : Working(consumer[c], i))'
      <4>1. Is(i, "PROCESSING") <=> \E c \in Consumers : Working(consumer[c], i) BY <1>1 DEF Reserved
      <4> QED BY <4>1 DEF Working
    <3>4. (\A c \in Consumers : consumer[c].pc \in LoadedPc =>
               consumer[c].rows[consumer[c].item].status = "PROCESSING")'
      BY <1>1 DEF Reserved
    <3> QED BY <3>2, <3>3, <3>4 DEF Reserved
  <2> QED BY <2>1, <2>2
<1> QED BY <1>4, <1>5, <1>6, <1>7 DEF IInv

LEMMA EnfileirarKeeps == ASSUME IInv, NEW j \in Items, Enfileirar(j) PROVE IInv'
<1>1. PICK x : x = [status |-> "PENDING", retry |-> 0, reserved |-> "no"] OBVIOUS
<1>2. x \in Row /\ x.status = "PENDING" /\ x.retry = 0 BY <1>1, EmailAssumption DEF Row, Status, RetryLimit
<1>3. /\ RowsOK /\ CountOK /\ fila[j] = None /\ fila' = [fila EXCEPT ![j] = x]
      /\ UNCHANGED <<consumer, circuit, mails, sends, opened, faults>>
  BY <1>1 DEF IInv, TypeOK, Enfileirar
<1>4. fila'[j] = x /\ x # None /\ \A i \in Items : i # j => fila'[i] = fila[i]
  BY <1>2, <1>3, NoneIsNoRow DEF RowsOK
<1>5. RowsOK' BY <1>2, <1>3, <1>4 DEF RowsOK
<1>6. ASSUME NEW i \in Items
      PROVE  /\ RetryOf(i)' = RetryOf(i)
             /\ \A q \in {"PROCESSING", "SENT", "ERROR"} : Is(i, q)' <=> Is(i, q)
  BY <1>2, <1>3, <1>4 DEF RetryOf, Is
<1>7. CountOK' /\ faults' = faults + 0 BY <1>3 DEF CountOK
<1> QED BY <1>3, <1>4, <1>5, <1>6, <1>7, RowsOnly

LEMMA GrowsOld ==
    ASSUME IInv, NEW j \in Items, Is(j, "PROCESSING"), fila' = [fila EXCEPT ![j].reserved = "old"],
           UNCHANGED <<consumer, circuit, mails, sends, opened>>,
           faults' = faults \/ (faults' = faults + 1 /\ faults < MaxFaults)
    PROVE  IInv'
<1>1. RowsOK /\ CountOK BY DEF IInv, TypeOK
<1>2. PICK y \in Row : y = fila[j] /\ y # None BY <1>1 DEF RowsOK, Is
<1>3. PICK x : x = [y EXCEPT !.reserved = "old"] OBVIOUS
<1>4. x \in Row /\ x.status = y.status /\ x.retry = y.retry BY <1>3 DEF Row
<1>5. fila' = [fila EXCEPT ![j] = x] BY <1>2, <1>3
<1>6. fila'[j] = x /\ x # None /\ \A i \in Items : i # j => fila'[i] = fila[i]
  BY <1>1, <1>4, <1>5, NoneIsNoRow DEF RowsOK
<1>7. RowsOK' BY <1>1, <1>4, <1>5, <1>6 DEF RowsOK
<1>8. ASSUME NEW i \in Items
      PROVE  RetryOf(i)' = RetryOf(i) /\ \A q : Is(i, q)' <=> Is(i, q)
  BY <1>2, <1>4, <1>6 DEF RetryOf, Is
<1>9. PICK d \in {0, 1} : faults' = faults + d BY <1>1 DEF CountOK
<1>10. faults' \in 0..MaxFaults BY <1>1, EmailAssumption DEF CountOK
<1>11. CountOK' BY <1>1, <1>10 DEF CountOK
<1> QED BY <1>6, <1>7, <1>8, <1>9, <1>11, RowsOnly

LEMMA TimeKeeps == ASSUME IInv, NEW i \in Items, Envelhecer(i) \/ Demorar(i) PROVE IInv'
BY GrowsOld DEF Envelhecer, Demorar, Fault

\* A step that changes no row, no call and no account.
LEMMA NothingKeeps ==
    ASSUME IInv, UNCHANGED <<fila, consumer, mails, sends, opened, faults>>,
           circuit' \in [Consumers -> CircuitState]
    PROVE  IInv'
<1>1. TypeOK /\ RowsOK /\ CountOK BY DEF IInv, TypeOK
<1>2. CountOK' /\ faults' = faults + 0 BY <1>1 DEF CountOK
<1>3. RowsOK' /\ \A i \in Items : fila[i] # None => fila'[i] # None BY <1>1, RowsKept
<1>4. ASSUME NEW i \in Items PROVE RetryOf(i)' = RetryOf(i) /\ \A q : Is(i, q)' <=> Is(i, q)
  BY RowSame
<1> QED BY <1>2, <1>3, <1>4, RowsOnly

LEMMA EsfriarKeeps == ASSUME IInv, NEW c \in Consumers, Esfriar(c) PROVE IInv'
<1>1. circuit' \in [Consumers -> CircuitState]
  BY OlderTyped DEF IInv, TypeOK, CountOK, Esfriar
<1> QED BY <1>1, NothingKeeps DEF Esfriar

LEMMA StutterKeeps == ASSUME IInv, UNCHANGED vars PROVE IInv'
<1>1. UNCHANGED <<fila, consumer, circuit, mails, sends, opened, faults>> BY DEF vars
<1>2. circuit' \in [Consumers -> CircuitState] BY <1>1 DEF IInv, TypeOK, CountOK
<1> QED BY <1>1, <1>2, NothingKeeps


-----------------------------------------------------------------------------
LEMMA InitKeeps == ASSUME Init PROVE IInv
<1>1. \A c \in Consumers : consumer[c] = Resting BY DEF Init
<1>2. TypeOK
  <2>1. CallsOK BY <1>1, RestingOK DEF Init, CallsOK
  <2>2. DOMAIN Resting.rows = {} /\ Resting.lote = {} BY RestingOK, RestingIdle, IdleCall
  <2>3. KnownRows BY <1>1, <2>2 DEF KnownRows
  <2>4. RowsOK BY DEF Init, RowsOK
  <2>5. CountOK
    <3>1. circuit \in [Consumers -> CircuitState] BY NewTyped DEF Init
    <3>2. opened = FALSE /\ faults = 0 BY DEF Init
    <3>4. opened \in BOOLEAN BY <3>2
    <3>5. 0 \in 0..MaxFaults BY EmailAssumption
    <3>3. mails \in [Items -> Nat] /\ sends \in [Items -> Nat] BY DEF Init
    <3> QED BY <3>1, <3>2, <3>3, <3>4, <3>5 DEF CountOK
  <2> QED BY <2>1, <2>3, <2>4, <2>5 DEF TypeOK
<1>3. /\ \A i : /\ ~Threat(Resting, i) /\ ~Late(Resting, i) /\ ~Stale(Resting, i)
                /\ ~Ahead(Resting, i) /\ ~Pending(Resting, i) /\ ~Working(Resting, i)
                /\ \A n : ~Holds(Resting, i, n)
      /\ DOMAIN Resting.rows = {} /\ Resting.pc = "idle"
  BY RestingOK, RestingIdle, IdleCall
<1>4. ASSUME NEW i \in Items PROVE SendsPaid(i) /\ MailsPaid(i)
  <2>1. AheadOf(i) = {} /\ PendingOf(i) = {} /\ LateOf(i) = {} /\ StaleOf(i) = {}
    BY <1>1, <1>3 DEF AheadOf, PendingOf, LateOf, StaleOf
  <2>2. /\ Cardinality(AheadOf(i)) = 0 /\ Cardinality(PendingOf(i)) = 0
        /\ Cardinality(LateOf(i)) = 0 /\ Cardinality(StaleOf(i)) = 0
    BY <2>1, FS_EmptySet
  <2>3. \A n : ~HeldCount(i, n) BY <1>1, <1>3 DEF HeldCount
  <2>4. ~Quiet(i) /\ RetryOf(i) = 0 BY <1>4 DEF Init, Quiet, Settled, Is, RetryOf
  <2>5. sends[i] = 0 /\ mails[i] = 0 /\ faults = 0 BY <1>4 DEF Init
  <2> QED BY <2>2, <2>3, <2>4, <2>5, EmailAssumption DEF SendsPaid, MailsPaid, SendsWithin
<1>5. Recorded
  <2>1. \A i \in Items : RowRecord(i) BY DEF Init, RowRecord, RetryOf, Is
  <2>2. \A c \in Consumers : CallRecord(consumer[c]) BY <1>1, <1>3 DEF CallRecord
  <2> QED BY <2>1, <2>2 DEF Recorded
<1>6. Reserved
  <2>1. \A c \in Consumers : consumer[c].pc = "idle" BY <1>1, <1>3
  <2>2. \A i \in Items : ~Is(i, "PROCESSING") BY DEF Init, Is
  <2>3. \A i \in Items : \A c \in Consumers : ~Working(consumer[c], i) BY <1>1, <1>3
  <2> QED BY <2>1, <2>2, <2>3 DEF Reserved, Alone, At, LoadedPc
<1> QED BY <1>2, <1>4, <1>5, <1>6 DEF IInv, Paid

LEMMA NextKeeps == ASSUME IInv, [Next]_vars PROVE IInv'
<1>1. CASE UNCHANGED vars BY <1>1, StutterKeeps
<1>2. ASSUME NEW i \in Items, Enfileirar(i) \/ Envelhecer(i) \/ Demorar(i) PROVE IInv'
  BY <1>2, EnfileirarKeeps, TimeKeeps
<1>3. ASSUME NEW c \in Consumers, Consumir(c) PROVE IInv'
  <2>1. CASE LerTravadas(c) BY <2>1, LerTravadasKeeps
  <2>2. CASE Liberar(c) BY <2>2, LiberarKeeps
  <2>3. CASE LerPendentes(c) BY <2>3, LerPendentesKeeps
  <2>4. CASE Reservar(c) BY <2>4, ReservarKeeps
  <2>5. CASE Guard(c) BY <2>5, GuardOpenKeeps, GuardSendsKeeps
  <2>6. CASE Falhar(c) BY <2>6, FalharKeeps
  <2>7. CASE Enviar(c) BY <2>7, EnviarKeeps
  <2>8. CASE Recusar(c) BY <2>8, RecusarKeeps
  <2>9. CASE MarcarEnviado(c) BY <2>9, MarcarEnviadoKeeps
  <2>10. CASE MarcarErro(c) BY <2>10, MarcarErroKeeps
  <2>11. CASE Auditar(c) BY <2>11, AuditarKeeps
  <2>12. CASE Terminar(c) BY <2>12, TerminarKeeps
  <2>13. ASSUME NEW i \in Items, Preparar(c, i) PROVE IInv' BY <2>13, PrepararKeeps
  <2> QED BY <1>3, <2>1, <2>2, <2>3, <2>4, <2>5, <2>6, <2>7, <2>8, <2>9, <2>10, <2>11, <2>12, <2>13 DEF Consumir
<1>4. ASSUME NEW c \in Consumers, Esfriar(c) PROVE IInv' BY <1>4, EsfriarKeeps
<1>5. ASSUME NEW c \in Consumers, RespostaPerdida(c) PROVE IInv' BY <1>5, RespostaPerdidaKeeps
<1>6. ASSUME NEW c \in Consumers, ErroBanco(c) PROVE IInv' BY <1>6, ErroBancoKeeps
<1>7. ASSUME NEW c \in Consumers, Crash(c) PROVE IInv' BY <1>7, CrashKeeps
<1> QED BY <1>1, <1>2, <1>3, <1>4, <1>5, <1>6, <1>7 DEF Next

LEMMA EmailInductive == Spec => []IInv
<1>1. Init => IInv BY InitKeeps
<1>2. IInv /\ [Next]_vars => IInv' BY NextKeeps
<1> QED BY <1>1, <1>2, PTL DEF Spec

\* Every call of consumir_fila_email_movimento works on rows that exist, holds
\* in its session what it needs where it is, and has a row in hand exactly where
\* the code has one, whatever calls overlap, end or fail.
THEOREM EmailTyped == Spec => []TypeOK
<1>1. IInv => TypeOK BY DEF IInv
<1> QED BY <1>1, EmailInductive, PTL

\* What a row of the mail queue says is true (consumer.py,
\* queue_repository.py): SENT was accepted by the provider, ERROR has had its
\* sends, and a reservation nobody holds has a fault or an open circuit behind
\* it, for any number of rows, of processes that overlap and of faults.
THEOREM EmailStatusIsTrue == Spec => []MailStatusIsTrue
<1>1. ASSUME IInv PROVE MailStatusIsTrue
  <2>1. SentWasAccepted BY <1>1 DEF IInv, Recorded, RowRecord, SentWasAccepted
  <2>2. ErrorIsExhausted BY <1>1 DEF IInv, Recorded, RowRecord, ErrorIsExhausted
  <2>3. StrandedHasCause
    <3> SUFFICES ASSUME NEW i \in Items, Is(i, "PROCESSING"), ~Held(i), ~(faults > 0), ~opened
                 PROVE  FALSE
      BY DEF StrandedHasCause
    <3>1. faults = 0 BY <1>1, EmailAssumption DEF IInv, TypeOK, CountOK
    <3>2. PICK c \in Consumers : Working(consumer[c], i) BY <1>1, <3>1 DEF IInv, Reserved
    <3> QED BY <3>2 DEF Working, Held
  <2> QED BY <2>1, <2>2, <2>3 DEF MailStatusIsTrue
<1>2. IInv => MailStatusIsTrue BY <1>1
<1> QED BY <1>2, EmailInductive, PTL

\* A row is mailed once and sent MaxRetries times, and once more of each for
\* every fault and every call that overlapped another (consumer.py
\* consumir_fila_email_movimento, queue_repository.py marcar_erro), for any
\* number of rows, processes and faults.
THEOREM EmailSendsPaid == Spec => []SendsPerFault
<1>1. ASSUME IInv, NEW i \in Items PROVE mails[i] <= 1 + faults /\ sends[i] <= MaxRetries + faults
  <2>1. SendsPaid(i) /\ MailsPaid(i) BY <1>1 DEF IInv, Paid
  <2>2. PICK a \in Nat : a = Cardinality(AheadOf(i)) BY CountsTyped
  <2>3. PICK p \in Nat : p = Cardinality(PendingOf(i)) BY CountsTyped
  <2>4. PICK e \in Nat : e = sends[i] BY <1>1 DEF IInv, TypeOK, CountOK
  <2>5. PICK m \in Nat : m = mails[i] BY <1>1 DEF IInv, TypeOK, CountOK
  <2>6. PICK f \in Nat : f = faults BY <1>1 DEF IInv, TypeOK, CountOK
  <2>7. MaxRetries \in Nat BY EmailAssumption
  <2>8. CASE Quiet(i) BY <2>1, <2>8 DEF SendsPaid, MailsPaid
  <2>9. CASE ~Quiet(i)
    <3>1. e + a <= MaxRetries + f /\ m + p <= 1 + f
      BY <2>1, <2>2, <2>3, <2>4, <2>5, <2>6, <2>9 DEF SendsPaid, SendsWithin, MailsPaid
    <3>2. e <= MaxRetries + f /\ m <= 1 + f BY <2>7, <3>1
    <3> QED BY <2>4, <2>5, <2>6, <3>2
  <2> QED BY <2>8, <2>9
<1>2. IInv => SendsPerFault BY <1>1 DEF SendsPerFault, MailsPerFault, SendsLimited
<1> QED BY <1>2, EmailInductive, PTL

-----------------------------------------------------------------------------
(***************************************************************************)
(* The breaker and the calls that share it (CircuitBreaker), for every     *)
(* threshold, cooldown, number of attempts and set of calls: the state     *)
(* keeps its type, among coroutines the circuit is open, or waiting for    *)
(* its probe, exactly when the threshold of failures was met and no call   *)
(* succeeded since, and an open circuit shields the service.               *)
(***************************************************************************)
\* A failed call opens the circuit exactly when it reaches the threshold.
LEMMA FailureOpens ==
    ASSUME NEW cb \in CircuitState, cb.age # Never <=> cb.failures >= FailureThreshold
    PROVE  LET r == RecordFailure(cb) IN r.age # Never <=> r.failures >= FailureThreshold
<1>1. /\ Counted(cb) \in CircuitState /\ Counted(cb).age = cb.age
      /\ Counted(cb).failures >= cb.failures
  BY CountedTyped
<1>2. cb.failures \in Nat /\ Counted(cb).failures \in Nat /\ FailureThreshold \in Nat
  BY <1>1, CircuitAssumption DEF CircuitState
<1>3. CASE Trips(Counted(cb))
  BY <1>1, <1>3, OpenedTyped DEF RecordFailure, Trips
<1>4. CASE ~ Trips(Counted(cb))
  BY <1>1, <1>2, <1>4 DEF RecordFailure, Trips
<1> QED BY <1>3, <1>4

-----------------------------------------------------------------------------
\* Each call either rests, tries, or records; none goes past its retries.
LEMMA CircuitCallMoves ==
    ASSUME CircuitTypeOK, NEW c \in Calls, NEW x \in CallState,
           call' = [call EXCEPT ![c] = x]
    PROVE  call' \in [Calls -> CallState]
BY DEF CircuitTypeOK

LEMMA RestingTyped == RestingCall \in CallState
BY CallsAssumption, CircuitAssumption DEF RestingCall, CallState

LEMMA FailTyped ==
    ASSUME CircuitTypeOK, NEW c \in Calls, Fail(c)
    PROVE  call' \in [Calls -> CallState]
<1> DEFINE x == IF call[c].attempt < MaxAttempts
                THEN [pc |-> "try", attempt |-> call[c].attempt + 1]
                ELSE [pc |-> "record", attempt |-> call[c].attempt]
<1>1. call[c] \in CallState
  BY DEF CircuitTypeOK
<1>2. x \in CallState
  <2>1. CASE call[c].attempt < MaxAttempts
    <3>1. x = [pc |-> "try", attempt |-> call[c].attempt + 1]
      BY <2>1
    <3> QED BY <1>1, <2>1, <3>1, CallsAssumption, CircuitAssumption DEF CallState
  <2>2. CASE ~ (call[c].attempt < MaxAttempts)
    <3>1. x = [pc |-> "record", attempt |-> call[c].attempt]
      BY <2>2
    <3> QED BY <1>1, <3>1 DEF CallState
  <2> QED BY <2>1, <2>2
<1>3. call' = [call EXCEPT ![c] = x]
  BY DEF Fail, CircuitTypeOK
<1> HIDE DEF x
<1> QED BY <1>2, <1>3, CircuitCallMoves

LEMMA CountTyped ==
    ASSUME CircuitTypeOK, NEW c \in Calls, RecordCount(c)
    PROVE  call' \in [Calls -> CallState]
<1> DEFINE x == [call[c] EXCEPT !.pc = "open"]
<1>1. x \in CallState
  BY DEF CircuitTypeOK, CallState
<1>2. call' = [call EXCEPT ![c] = x]
  BY DEF RecordCount, CircuitTypeOK
<1> HIDE DEF x
<1> QED BY <1>1, <1>2, CircuitCallMoves

\* Every step keeps the types.
LEMMA TypeStep == CircuitTypeOK /\ [CircuitNext]_circuitVars => CircuitTypeOK'
<1> SUFFICES ASSUME CircuitTypeOK, [CircuitNext]_circuitVars PROVE CircuitTypeOK'
  OBVIOUS
<1>1. /\ breaker \in CircuitState /\ call \in [Calls -> CallState] /\ up \in BOOLEAN
      /\ threads \in BOOLEAN /\ burst \in Nat
  BY DEF CircuitTypeOK
<1>2. CASE UNCHANGED circuitVars
  BY <1>2, <1>1 DEF circuitVars, CircuitTypeOK
<1>3. ASSUME NEW c \in Calls, GuardCall(c) PROVE CircuitTypeOK'
  <2>1. [pc |-> "try", attempt |-> 1] \in CallState
    BY CallsAssumption, CircuitAssumption DEF CallState
  <2>2. call' \in [Calls -> CallState]
    BY <1>3, <2>1, CircuitCallMoves DEF GuardCall
  <2> QED BY <1>1, <1>3, <2>2 DEF GuardCall, CircuitTypeOK
<1>4. ASSUME NEW c \in Calls, Succeed(c) PROVE CircuitTypeOK'
  <2>1. call' \in [Calls -> CallState]
    BY <1>4, RestingTyped, CircuitCallMoves DEF Succeed
  <2> QED BY <1>1, <1>4, <2>1, NewTyped DEF Succeed, RecordSuccess, CircuitTypeOK
<1>5. ASSUME NEW c \in Calls, Fail(c) PROVE CircuitTypeOK'
  <2>1. call' \in [Calls -> CallState]
    BY <1>5, FailTyped
  <2> QED BY <1>1, <1>5, <2>1 DEF Fail, Reach, CircuitTypeOK
<1>6. ASSUME NEW c \in Calls, Reject(c) PROVE CircuitTypeOK'
  <2>1. call' \in [Calls -> CallState]
    BY <1>6, RestingTyped, CircuitCallMoves DEF Reject
  <2> QED BY <1>1, <1>6, <2>1 DEF Reject, Reach, CircuitTypeOK
<1>7. ASSUME NEW c \in Calls, Record(c) PROVE CircuitTypeOK'
  <2>1. call' \in [Calls -> CallState]
    BY <1>7, RestingTyped, CircuitCallMoves DEF Record
  <2>2. breaker' \in CircuitState
    BY <1>1, <1>7, FailureTyped DEF Record
  <2> QED BY <1>1, <1>7, <2>1, <2>2, CircuitAssumption DEF Record, Watch, CircuitTypeOK
<1>8. ASSUME NEW c \in Calls, RecordCount(c) PROVE CircuitTypeOK'
  <2>1. call' \in [Calls -> CallState]
    BY <1>8, CountTyped
  <2>2. breaker' \in CircuitState
    BY <1>1, <1>8, CountedTyped DEF RecordCount
  <2> QED BY <1>1, <1>8, <2>1, <2>2, CircuitAssumption DEF RecordCount, CircuitTypeOK
<1>9. ASSUME NEW c \in Calls, RecordOpen(c) PROVE CircuitTypeOK'
  <2>1. call' \in [Calls -> CallState]
    BY <1>9, RestingTyped, CircuitCallMoves DEF RecordOpen
  <2>2. breaker' \in CircuitState
    BY <1>1, <1>9, OpenedTyped DEF RecordOpen
  <2> QED BY <1>1, <1>9, <2>1, <2>2 DEF RecordOpen, Watch, CircuitTypeOK
<1>10. CASE Tick
  <2>1. breaker' \in CircuitState
    BY <1>1, <1>10, OlderTyped DEF Tick
  <2> QED BY <1>1, <1>10, <2>1 DEF Tick, Watch, CircuitTypeOK
<1>11. CASE Outage
  BY <1>1, <1>11 DEF Outage, CircuitTypeOK
<1> QED BY <1>2, <1>3, <1>4, <1>5, <1>6, <1>7, <1>8, <1>9, <1>10, <1>11
        DEF CircuitNext, Finish, Attempt

\* The state of the breaker and of its calls keeps its type; the count of
\* attempts never passes max_retries (resilience.py call_with_retry).
THEOREM CircuitTyped == CircuitSpec => []CircuitTypeOK
<1>1. CircuitInit => CircuitTypeOK
  BY NewTyped, RestingTyped, CircuitAssumption DEF CircuitInit, CircuitTypeOK
<1> QED BY <1>1, TypeStep, PTL DEF CircuitSpec

-----------------------------------------------------------------------------
\* Nobody is between the test of record_failure and its assignment.
NobodyOpening == \A c \in Calls : call[c].pc # "open"

CoroutineInv == CircuitTypeOK /\ NobodyOpening /\ OpenedByFailures

\* The kind of the calls does not change.
LEMMA KindStep == [CircuitNext]_circuitVars => threads' = threads
BY DEF CircuitNext, Finish, Attempt, GuardCall, Succeed, Fail, Reject, Record, RecordCount, RecordOpen,
       Tick, Outage, circuitVars

LEMMA CoroutineStep == ~ threads /\ CoroutineInv /\ [CircuitNext]_circuitVars => CoroutineInv'
<1> SUFFICES ASSUME ~ threads, CoroutineInv, [CircuitNext]_circuitVars PROVE CoroutineInv'
  OBVIOUS
<1>1. CircuitTypeOK /\ NobodyOpening /\ OpenedByFailures /\ breaker \in CircuitState
  BY DEF CoroutineInv, CircuitTypeOK
<1>2. CircuitTypeOK'
  BY <1>1, TypeStep
<1>3. CASE UNCHANGED circuitVars
  BY <1>1, <1>2, <1>3 DEF circuitVars, CoroutineInv, NobodyOpening, OpenedByFailures
<1>4. ASSUME NEW c \in Calls, GuardCall(c) \/ Reject(c) PROVE CoroutineInv'
  <2>1. NobodyOpening'
    BY <1>1, <1>4 DEF GuardCall, Reject, RestingCall, NobodyOpening, CircuitTypeOK
  <2> QED BY <1>1, <1>2, <1>4, <2>1 DEF GuardCall, Reject, CoroutineInv, OpenedByFailures
<1>5. ASSUME NEW c \in Calls, Succeed(c) PROVE CoroutineInv'
  <2>1. NobodyOpening'
    BY <1>1, <1>5 DEF Succeed, RestingCall, NobodyOpening, CircuitTypeOK
  <2>2. OpenedByFailures'
    BY <1>5, NewTyped, CircuitAssumption DEF Succeed, RecordSuccess, OpenedByFailures
  <2> QED BY <1>2, <2>1, <2>2 DEF CoroutineInv
<1>6. ASSUME NEW c \in Calls, Fail(c) PROVE CoroutineInv'
  <2>1. ASSUME NEW d \in Calls PROVE call'[d].pc # "open"
    <3>1. call[c] \in CallState /\ call[c].pc = "try"
      BY <1>1, <1>6 DEF CircuitTypeOK, Fail, CallAt
    <3>2. CASE d # c
      BY <1>1, <1>6, <3>2 DEF Fail, NobodyOpening, CircuitTypeOK
    <3>3. call'[c] = IF call[c].attempt < MaxAttempts
                     THEN [pc |-> "try", attempt |-> call[c].attempt + 1]
                     ELSE [pc |-> "record", attempt |-> call[c].attempt]
      BY <1>1, <1>6 DEF Fail, CircuitTypeOK
    <3>4. call'[c].pc \in {"try", "record"}
      <4>1. CASE call[c].attempt < MaxAttempts
        <5>1. call'[c] = [pc |-> "try", attempt |-> call[c].attempt + 1]
          BY <3>3, <4>1
        <5> QED BY <3>1, <5>1 DEF CallState
      <4>2. CASE ~ (call[c].attempt < MaxAttempts)
        <5>1. call'[c] = [pc |-> "record", attempt |-> call[c].attempt]
          BY <3>3, <4>2
        <5> QED BY <3>1, <5>1 DEF CallState
      <4> QED BY <4>1, <4>2
    <3> QED BY <3>2, <3>4
  <2> QED BY <1>1, <1>2, <1>6, <2>1 DEF Fail, CoroutineInv, NobodyOpening, OpenedByFailures
<1>7. ASSUME NEW c \in Calls, Record(c) PROVE CoroutineInv'
  <2>1. NobodyOpening'
    BY <1>1, <1>7 DEF Record, RestingCall, NobodyOpening, CircuitTypeOK
  <2>2. OpenedByFailures'
    BY <1>1, <1>7, FailureOpens DEF Record, OpenedByFailures
  <2> QED BY <1>2, <2>1, <2>2 DEF CoroutineInv
<1>8. ASSUME NEW c \in Calls PROVE ~ RecordCount(c) /\ ~ RecordOpen(c)
  BY <1>1 DEF RecordCount, RecordOpen, CallAt, NobodyOpening
<1>9. CASE Tick
  <2>1. OpenedByFailures'
    BY <1>1, <1>9, OlderTyped DEF Tick, OpenedByFailures
  <2> QED BY <1>1, <1>2, <1>9, <2>1 DEF Tick, CoroutineInv, NobodyOpening
<1>10. CASE Outage
  BY <1>1, <1>2, <1>10 DEF Outage, CoroutineInv, NobodyOpening, OpenedByFailures
<1> QED BY <1>3, <1>4, <1>5, <1>6, <1>7, <1>8, <1>9, <1>10 DEF CircuitNext, Finish, Attempt

\* Among coroutines the circuit is open or waits for its probe exactly when
\* the threshold of consecutive failures was met and no call succeeded since
\* (resilience.py record_failure and record_success, which are one step there).
THEOREM CoroutinesOpenByFailures == CircuitSpec => []OpenedByFailures
<1> DEFINE Inv == CircuitTypeOK /\ (~ threads => CoroutineInv)
<1>1. CircuitInit => Inv
  <2>1. CircuitInit => CircuitTypeOK
    BY NewTyped, RestingTyped, CircuitAssumption DEF CircuitInit, CircuitTypeOK
  <2>2. CircuitInit => NobodyOpening /\ OpenedByFailures
    BY NewTyped, CircuitAssumption DEF CircuitInit, NobodyOpening, OpenedByFailures, RestingCall
  <2> QED BY <2>1, <2>2 DEF CoroutineInv
<1>2. Inv => OpenedByFailures
  BY DEF CoroutineInv, OpenedByFailures
<1>3. Inv /\ [CircuitNext]_circuitVars => Inv'
  BY CoroutineStep, TypeStep, KindStep
<1> QED BY <1>1, <1>2, <1>3, PTL DEF CircuitSpec


-----------------------------------------------------------------------------
(***************************************************************************)
(* The shield.  The attempts that the calls past guard have left are       *)
(* counted as a set of pairs: each request to the service takes one out,   *)
(* and while the circuit is open none is added.                            *)
(***************************************************************************)
Left == {p \in Calls \X (1..MaxAttempts) :
            call[p[1]].pc = "try" /\ p[2] >= call[p[1]].attempt}

Shut == breaker.age # Never /\ breaker.age < Cooldown

\* What the calls other than the one that opens the circuit can do at most.
Allowance == (Cardinality(Calls) - 1) * MaxAttempts

TriesCounted == \A c \in Calls : call[c].pc = "try" => call[c].attempt \in 1..MaxAttempts

ShieldInv ==
    /\ CircuitTypeOK /\ TriesCounted
    /\ ~ Shut => burst = 0
    /\ Shut => burst + Cardinality(Left) <= Allowance

LEMMA PairsFinite ==
    ASSUME NEW S, S \subseteq Calls \X (1..MaxAttempts)
    PROVE  IsFiniteSet(S) /\ Cardinality(S) \in Nat
<1>1. IsFiniteSet(1..MaxAttempts)
  BY CallsAssumption, CircuitAssumption, FS_Interval
<1>2. IsFiniteSet(Calls \X (1..MaxAttempts))
  BY <1>1, CallsAssumption, CircuitAssumption, FS_Product
<1>3. IsFiniteSet(S)
  BY <1>2, FS_Subset
<1> QED BY <1>3, FS_CardinalityType

\* A call that is not behind guard leaves the allowance to the others.
LEMMA OthersWithinAllowance ==
    ASSUME NEW c \in Calls, NEW S, S \subseteq Calls \X (1..MaxAttempts), \A p \in S : p[1] # c
    PROVE  Cardinality(S) <= Allowance
<1>1. MaxAttempts \in Nat /\ MaxAttempts >= 1 /\ IsFiniteSet(Calls)
  BY CallsAssumption, CircuitAssumption
<1>2. IsFiniteSet(1..MaxAttempts) /\ Cardinality(1..MaxAttempts) = MaxAttempts
  BY <1>1, FS_Interval
<1>3. IsFiniteSet(Calls \ {c}) /\ Cardinality(Calls \ {c}) = Cardinality(Calls) - 1
  BY <1>1, FS_RemoveElement
<1>4. /\ IsFiniteSet((Calls \ {c}) \X (1..MaxAttempts))
      /\ Cardinality((Calls \ {c}) \X (1..MaxAttempts)) = Allowance
  BY <1>2, <1>3, FS_Product DEF Allowance
<1>5. S \subseteq (Calls \ {c}) \X (1..MaxAttempts)
  OBVIOUS
<1> QED BY <1>4, <1>5, FS_Subset

\* No request is sent and no call gets past an open circuit.
LEMMA ShieldKept ==
    ASSUME ShieldInv, CircuitTypeOK', TriesCounted', Shut' => Shut /\ Left' \subseteq Left,
           burst' = IF Shut' THEN burst ELSE 0
    PROVE  ShieldInv'
<1>1. CASE ~ Shut'
  BY <1>1 DEF ShieldInv
<1>2. CASE Shut'
  <2>1. Left \subseteq Calls \X (1..MaxAttempts)
    BY DEF Left
  <2>2. IsFiniteSet(Left) /\ Cardinality(Left) \in Nat
    BY <2>1, PairsFinite
  <2>3. Cardinality(Left') <= Cardinality(Left) /\ IsFiniteSet(Left')
    BY <1>2, <2>2, FS_Subset
  <2>4. Cardinality(Left') \in Nat
    BY <2>3, FS_CardinalityType
  <2>5. burst \in Nat /\ burst + Cardinality(Left) <= Allowance /\ burst' = burst
    BY <1>2 DEF ShieldInv, CircuitTypeOK
  <2>6. Allowance' = Allowance
    BY DEF Allowance
  <2>7. PICK n \in Nat : n = Cardinality(Left)
    BY <2>2
  <2>8. PICK m \in Nat : m = Cardinality(Left')
    BY <2>4
  <2>9. MaxAttempts \in Nat /\ Cardinality(Calls) \in Nat
    BY CallsAssumption, CircuitAssumption, FS_CardinalityType
  <2>10. Allowance \in Int
    BY <2>9 DEF Allowance
  <2>11. burst + m <= Allowance
    BY <2>3, <2>5, <2>7, <2>8, <2>10
  <2>12. burst' + Cardinality(Left') <= Allowance'
    BY <2>5, <2>6, <2>8, <2>11
  <2> QED BY <1>2, <2>12 DEF ShieldInv
<1> QED BY <1>1, <1>2

\* A request takes out what it used.
LEMMA RequestCounted ==
    ASSUME ShieldInv, CircuitTypeOK', TriesCounted', Shut' <=> Shut, Left' \subseteq Left,
           burst' = IF Shut THEN burst + 1 ELSE 0, NEW p \in Left, p \notin Left'
    PROVE  ShieldInv'
<1>1. CASE ~ Shut
  BY <1>1 DEF ShieldInv
<1>2. CASE Shut
  <2>1. Left \subseteq Calls \X (1..MaxAttempts)
    BY DEF Left
  <2>2. IsFiniteSet(Left) /\ Cardinality(Left) \in Nat
    BY <2>1, PairsFinite
  <2>3. IsFiniteSet(Left \ {p}) /\ Cardinality(Left \ {p}) = Cardinality(Left) - 1
    BY <2>2, FS_RemoveElement
  <2>4. Left' \subseteq Left \ {p}
    OBVIOUS
  <2>5. Cardinality(Left') <= Cardinality(Left) - 1 /\ IsFiniteSet(Left')
    BY <2>3, <2>4, FS_Subset
  <2>6. PICK m \in Nat : m = Cardinality(Left')
    BY <2>5, FS_CardinalityType
  <2>7. PICK n \in Nat : n = Cardinality(Left)
    BY <2>2
  <2>8. burst \in Nat /\ burst + n <= Allowance /\ burst' = burst + 1
    BY <1>2, <2>7 DEF ShieldInv, CircuitTypeOK
  <2>9. MaxAttempts \in Nat /\ Cardinality(Calls) \in Nat
    BY CallsAssumption, CircuitAssumption, FS_CardinalityType
  <2>10. Allowance \in Int
    BY <2>9 DEF Allowance
  <2>11. (burst + 1) + m <= Allowance
    BY <2>5, <2>6, <2>7, <2>8, <2>10
  <2>12. Allowance' = Allowance
    BY DEF Allowance
  <2>13. burst' + Cardinality(Left') <= Allowance'
    BY <2>6, <2>8, <2>11, <2>12
  <2> QED BY <1>2, <2>13 DEF ShieldInv
<1> QED BY <1>1, <1>2

\* The call that opens the circuit has no attempts left.
LEMMA OpeningKept ==
    ASSUME ShieldInv, CircuitTypeOK', TriesCounted', Left' \subseteq Left, NEW c \in Calls,
           call'[c].pc # "try", burst' = IF Shut' THEN burst ELSE 0
    PROVE  ShieldInv'
<1>1. CASE Shut \/ ~ Shut'
  BY <1>1, ShieldKept
<1>2. CASE ~ Shut /\ Shut'
  <2>1. burst' = 0
    BY <1>2 DEF ShieldInv
  <2>2. Left' \subseteq Calls \X (1..MaxAttempts) /\ \A p \in Left' : p[1] # c
    BY DEF Left
  <2>3. Cardinality(Left') <= Allowance /\ Cardinality(Left') \in Nat
    BY <2>2, OthersWithinAllowance, PairsFinite
  <2>4. PICK m \in Nat : m = Cardinality(Left')
    BY <2>3
  <2>5. 0 + m <= Allowance /\ Allowance' = Allowance
    BY <2>3, <2>4 DEF Allowance
  <2>6. burst' + Cardinality(Left') <= Allowance'
    BY <2>1, <2>4, <2>5
  <2> QED BY <1>2, <2>6 DEF ShieldInv
<1> QED BY <1>1, <1>2

\* A call comes to rest, or goes to record its failure.
LEMMA CircuitCallEnds ==
    ASSUME CircuitTypeOK, TriesCounted, NEW c \in Calls, NEW x, x.pc # "try",
           call' = [call EXCEPT ![c] = x]
    PROVE  TriesCounted' /\ Left' \subseteq Left /\ call'[c].pc # "try"
<1>1. call'[c] = x /\ \A d \in Calls : d # c => call'[d] = call[d]
  BY DEF CircuitTypeOK
<1> QED BY <1>1 DEF TriesCounted, Left

LEMMA ShieldStep ==
    ASSUME ShieldInv, [CircuitNext]_circuitVars
    PROVE  ShieldInv'
<1>1. CircuitTypeOK /\ CircuitTypeOK' /\ TriesCounted
  BY TypeStep DEF ShieldInv
<1>2. RestingCall.pc # "try"
  BY DEF RestingCall
<1>3. ~ Shut => burst = 0
  BY DEF ShieldInv
<1>4. CASE UNCHANGED <<breaker, call, burst>>
  BY <1>1, <1>3, <1>4, ShieldKept DEF TriesCounted, Left, Shut
<1>5. ASSUME NEW c \in Calls, GuardCall(c) PROVE ShieldInv'
  <2>1. PICK x : x = [pc |-> "try", attempt |-> 1]
    OBVIOUS
  <2>2. call'[c] = x /\ \A d \in Calls : d # c => call'[d] = call[d]
    BY <1>1, <1>5, <2>1 DEF GuardCall, CircuitTypeOK
  <2>3. TriesCounted'
    BY <1>1, <2>1, <2>2, CallsAssumption, CircuitAssumption DEF TriesCounted
  <2>4. ~ Shut' /\ burst' = 0
    BY <1>3, <1>5 DEF GuardCall, IsOpen, Shut
  <2> QED BY <1>1, <2>3, <2>4, ShieldKept
<1>6. ASSUME NEW c \in Calls, Succeed(c) PROVE ShieldInv'
  <2>1. ~ Shut' /\ burst' = 0
    BY <1>6, NewTyped DEF Succeed, RecordSuccess, Shut
  <2>2. TriesCounted'
    BY <1>1, <1>2, <1>6, CircuitCallEnds DEF Succeed
  <2> QED BY <1>1, <2>1, <2>2, ShieldKept
<1>7. ASSUME NEW c \in Calls, Fail(c) \/ Reject(c) PROVE ShieldInv'
  <2>1. PICK n \in 1..MaxAttempts : n = call[c].attempt /\ call[c].pc = "try"
    BY <1>1, <1>7 DEF Fail, Reject, CallAt, TriesCounted
  <2>2. PICK x : /\ call' = [call EXCEPT ![c] = x]
                 /\ x.pc = "try" => x.attempt = n + 1 /\ n < MaxAttempts
    <3>1. CASE Reject(c)
      BY <1>2, <3>1 DEF Reject
    <3>2. CASE Fail(c) /\ n < MaxAttempts
      <4>1. PICK x : x = [pc |-> "try", attempt |-> n + 1]
        OBVIOUS
      <4>2. call' = [call EXCEPT ![c] = x]
        BY <1>1, <2>1, <3>2, <4>1 DEF Fail, CircuitTypeOK
      <4>3. x.attempt = n + 1
        BY <4>1
      <4> QED BY <3>2, <4>2, <4>3
    <3>3. CASE Fail(c) /\ ~ (n < MaxAttempts)
      <4>1. PICK x : x = [pc |-> "record", attempt |-> n]
        OBVIOUS
      <4>2. call' = [call EXCEPT ![c] = x]
        BY <1>1, <2>1, <3>3, <4>1 DEF Fail, CircuitTypeOK
      <4>3. x.pc # "try"
        BY <4>1
      <4> QED BY <4>2, <4>3
    <3> QED BY <1>7, <3>1, <3>2, <3>3
  <2>3. call'[c] = x /\ \A d \in Calls : d # c => call'[d] = call[d]
    BY <1>1, <2>2 DEF CircuitTypeOK
  <2>4. MaxAttempts \in Nat
    BY CallsAssumption, CircuitAssumption
  <2>5. TriesCounted'
    BY <1>1, <2>1, <2>2, <2>3, <2>4 DEF TriesCounted
  <2>6. PICK p : p = <<c, n>>
    OBVIOUS
  <2>7. p \in Left /\ p \notin Left'
    BY <2>1, <2>2, <2>3, <2>4, <2>6 DEF Left
  <2>8. Left' \subseteq Left
    BY <2>1, <2>2, <2>3, <2>4 DEF Left
  <2>9. (Shut' <=> Shut) /\ burst' = IF Shut THEN burst + 1 ELSE 0
    BY <1>7 DEF Fail, Reject, Reach, IsOpen, Shut
  <2> QED BY <1>1, <2>5, <2>7, <2>8, <2>9, RequestCounted
<1>8. ASSUME NEW c \in Calls, Record(c) \/ RecordOpen(c) PROVE ShieldInv'
  <2>1. TriesCounted' /\ Left' \subseteq Left /\ call'[c].pc # "try"
    BY <1>1, <1>2, <1>8, CircuitCallEnds DEF Record, RecordOpen
  <2>2. burst' = IF Shut' THEN burst ELSE 0
    BY <1>8 DEF Record, RecordOpen, Watch, IsOpen, Shut
  <2> QED BY <1>1, <2>1, <2>2, OpeningKept
<1>9. ASSUME NEW c \in Calls, RecordCount(c) PROVE ShieldInv'
  <2>1. PICK x : x = [call[c] EXCEPT !.pc = "open"]
    OBVIOUS
  <2>2. x.pc # "try" /\ call' = [call EXCEPT ![c] = x]
    BY <1>1, <1>9, <2>1 DEF RecordCount, CircuitTypeOK, CallState
  <2>3. TriesCounted' /\ Left' \subseteq Left
    BY <1>1, <2>2, CircuitCallEnds
  <2>4. breaker'.age = breaker.age /\ burst' = burst
    BY <1>1, <1>9, CountedTyped DEF RecordCount, CircuitTypeOK
  <2> QED BY <1>1, <1>3, <2>3, <2>4, ShieldKept DEF Shut
<1>10. CASE Tick
  <2>1. TriesCounted' /\ Left' = Left
    BY <1>1, <1>10 DEF Tick, TriesCounted, Left
  <2>2. burst' = IF Shut' THEN burst ELSE 0
    BY <1>10 DEF Tick, Watch, IsOpen, Shut
  <2>3. Shut' => Shut
    BY <1>1, <1>10 DEF Tick, Older, Shut
  <2> QED BY <1>1, <2>1, <2>2, <2>3, ShieldKept
<1>11. CASE UNCHANGED circuitVars \/ Outage
  BY <1>4, <1>11 DEF circuitVars, Outage
<1> QED BY <1>5, <1>6, <1>7, <1>8, <1>9, <1>10, <1>11 DEF CircuitNext, Finish, Attempt

\* While the circuit is open, the requests that reach the service are at most
\* the attempts left to the calls that were past guard when it opened: those of
\* every call but the one whose failure opened it (resilience.py guard,
\* record_failure), for threads and for coroutines.
THEOREM OpenCircuitShields == CircuitSpec => []ShieldedService
<1>1. CircuitInit => ShieldInv
  <2> SUFFICES ASSUME CircuitInit PROVE ShieldInv
    OBVIOUS
  <2>1. CircuitTypeOK
    BY NewTyped, RestingTyped, CircuitAssumption DEF CircuitInit, CircuitTypeOK
  <2>2. TriesCounted
    BY DEF CircuitInit, RestingCall, TriesCounted
  <2>3. ~ Shut /\ burst = 0
    BY NewTyped DEF CircuitInit, Shut
  <2> QED BY <2>1, <2>2, <2>3 DEF ShieldInv
<1>2. ShieldInv => ShieldedService
  <2> SUFFICES ASSUME ShieldInv, Shut PROVE burst <= Allowance
    BY DEF ShieldedService, IsOpen, Shut, Allowance
  <2>1. Left \subseteq Calls \X (1..MaxAttempts)
    BY DEF Left
  <2>2. PICK n \in Nat : n = Cardinality(Left)
    BY <2>1, PairsFinite
  <2>3. burst \in Nat /\ burst + n <= Allowance
    BY <2>2 DEF ShieldInv, CircuitTypeOK
  <2>4. MaxAttempts \in Nat /\ Cardinality(Calls) \in Nat
    BY CallsAssumption, CircuitAssumption, FS_CardinalityType
  <2>5. Allowance \in Int
    BY <2>4 DEF Allowance
  <2> QED BY <2>3, <2>5
<1>3. ShieldInv /\ [CircuitNext]_circuitVars => ShieldInv'
  BY ShieldStep
<1> QED BY <1>1, <1>2, <1>3, PTL DEF CircuitSpec
=============================================================================
