--------------------------- MODULE PentahoProofs ----------------------------
(***************************************************************************)
(* Proofs about the Pentaho batches: what was answered stays stored, and   *)
(* a claim is exclusive and limited, for any number of keys, API requests  *)
(* and executors.                                                          *)
(***************************************************************************)
EXTENDS MCPentahoBatches, FiniteSetTheorems, TLAPS

Seen == UNION {[S -> [tentativas : Nat, rev : Nat]] : S \in SUBSET Keys}

\* The types of the variables.
TypeOK ==
    /\ lote \in [Keys -> Lote \cup {None}]
    /\ ex \in [Executors -> [pc : ExecutorPc, key : Keys \cup {None}, seen : Seen]]
    /\ api \in [Handlers -> [pc : {"none", "insert", "requeue"}, key : Keys \cup {None},
                             payload : Payloads \cup {None}]]
    /\ answers \subseteq Keys \X Payloads
    /\ requeues \in [Keys -> Nat]
    /\ late \subseteq Keys
    /\ faults \in Nat

\* What an executor or a request has in hand is what its place in the code says.
InHand ==
    /\ \A e \in Executors :
           /\ ex[e].pc \in {"working", "failing"} <=> ex[e].key # None
           /\ ex[e].key # None => Stored(ex[e].key)
    /\ \A h \in Handlers :
           /\ api[h].pc = "insert" => api[h].key \in Keys /\ api[h].payload \in Payloads
           /\ api[h].pc = "requeue" => api[h].key \in Keys /\ Stored(api[h].key)

\* A listed row either has been written since, or is still the abandoned
\* batch that the recovery saw.
SeenRow(s, k) ==
    /\ Stored(k)
    /\ s.rev <= lote[k].rev
    /\ s.rev = lote[k].rev => /\ Is(k, "PROCESSANDO") /\ lote[k].old
                              /\ lote[k].tentativas = s.tentativas
SeenRows ==
    \A e \in Executors : \A k \in DOMAIN ex[e].seen : SeenRow(ex[e].seen[k], k)

\* The requests that have read the batch as quarantined and not yet written it.
Requeuing(k) == {h \in Handlers : api[h].pc = "requeue" /\ api[h].key = k}

\* The claim of an undisturbed batch: one executor at most has it, the row
\* says so and has not aged; one that is about to be requeued rests.
Claim(k) ==
    /\ \A e \in Executors : ex[e].key = k => Is(k, "PROCESSANDO") /\ ~lote[k].old
    /\ \A d, e \in Executors : (ex[d].key = k /\ ex[e].key = k) => d = e
    /\ Requeuing(k) # {} => Is(k, "QUARENTENA")
Claims == \A k \in Keys : Undisturbed(k) => Claim(k)

\* The attempts of a batch, with those its pending requeues will allow.
Budget(k) ==
    /\ IsFiniteSet(Requeuing(k)) /\ Cardinality(Requeuing(k)) <= requeues[k]
    /\ Stored(k) =>
           lote[k].tentativas + Cardinality(Requeuing(k)) <= MaxTentativas + requeues[k]
    /\ Is(k, "PENDENTE") =>
           lote[k].tentativas + Cardinality(Requeuing(k)) < MaxTentativas + requeues[k]
Budgets == \A k \in Keys : Budget(k)

\* The inductive invariant.
PentahoInv == TypeOK /\ InHand /\ SeenRows /\ AnswerIsStored /\ Claims /\ Budgets

USE PentahoAssumption, NoneIsNoRow

-----------------------------------------------------------------------------
\* Every write of a stored row leaves a row, with the next revision.
LEMMA WrittenRow ==
    ASSUME TypeOK, NEW k \in Keys, Stored(k), NEW s \in Status
    PROVE  /\ Written(k, s) \in Lote
           /\ Written(k, s).payload = lote[k].payload
           /\ Written(k, s).status = s
           /\ Written(k, s).tentativas = lote[k].tentativas
           /\ Written(k, s).old = FALSE
           /\ Written(k, s).rev = lote[k].rev + 1
<1>1. PICK r \in Lote : r = lote[k]
  BY DEF TypeOK, Stored
<1>2. PICK r1 \in Lote : r1 = [r EXCEPT !.status = s]
  BY DEF Lote
<1>3. PICK r2 \in Lote : r2 = [r1 EXCEPT !.old = FALSE]
  BY Zenon DEF Lote
<1>4. Written(k, s) = [r2 EXCEPT !.rev = @ + 1]
  BY <1>1, <1>2, <1>3 DEF Written, Lote
<1>5. Written(k, s) \in Lote
  BY <1>4 DEF Lote
<1> QED
  BY <1>1, <1>2, <1>3, <1>4, <1>5 DEF Lote

\* The claim also counts an attempt.
LEMMA ClaimedRow ==
    ASSUME TypeOK, NEW k \in Keys, Stored(k),
           NEW r, r = [Written(k, "PROCESSANDO") EXCEPT !.tentativas = @ + 1]
    PROVE  /\ r \in Lote
           /\ r.payload = lote[k].payload
           /\ r.status = "PROCESSANDO"
           /\ r.tentativas = lote[k].tentativas + 1
           /\ r.old = FALSE
           /\ r.rev = lote[k].rev + 1
<1>1. PICK w \in Lote : w = Written(k, "PROCESSANDO")
  BY WrittenRow DEF Status
<1>2. /\ w.payload = lote[k].payload
      /\ w.status = "PROCESSANDO"
      /\ w.tentativas = lote[k].tentativas
      /\ w.old = FALSE
      /\ w.rev = lote[k].rev + 1
  BY <1>1, WrittenRow DEF Status
<1>3. r = [w EXCEPT !.tentativas = @ + 1]
  BY <1>1
<1> QED
  BY <1>2, <1>3 DEF Lote

\* A stored row has the fields of a row.
LEMMA StoredRow ==
    ASSUME TypeOK, NEW k \in Keys, Stored(k)
    PROVE  /\ lote[k] \in Lote
           /\ lote[k].tentativas \in Nat
           /\ lote[k].rev \in Nat
           /\ lote[k].status \in Status
           /\ lote[k].payload \in Payloads
BY DEF TypeOK, Stored, Lote

\* The function that an executor at rest has listed nothing with.
LEMMA RestingType ==
    /\ Resting \in [pc : ExecutorPc, key : Keys \cup {None}, seen : Seen]
    /\ DOMAIN Resting.seen = {}
    /\ Resting.pc = "idle" /\ Resting.key = None
<1>1. [k \in {} |-> None] \in [{} -> [tentativas : Nat, rev : Nat]]
  OBVIOUS
<1>2. [k \in {} |-> None] \in Seen
  BY <1>1 DEF Seen
<1> QED
  BY <1>2 DEF Resting, ExecutorPc

\* What a listing holds.
LEMMA SeenType ==
    ASSUME TypeOK, NEW e \in Executors, NEW k \in DOMAIN ex[e].seen
    PROVE  /\ k \in Keys
           /\ ex[e].seen[k] \in [tentativas : Nat, rev : Nat]
           /\ ex[e].seen[k].tentativas \in Nat
           /\ ex[e].seen[k].rev \in Nat
BY DEF TypeOK, Seen

-----------------------------------------------------------------------------
LEMMA InitInv == Init => PentahoInv
<1> SUFFICES ASSUME Init PROVE PentahoInv
  OBVIOUS
<1>1. TypeOK
  BY RestingType DEF Init, TypeOK, NoRequest
<1>2. InHand /\ SeenRows /\ AnswerIsStored
  BY RestingType DEF Init, InHand, SeenRows, AnswerIsStored, NoRequest
<1>3. ASSUME NEW k \in Keys PROVE Requeuing(k) = {}
  BY DEF Init, Requeuing, NoRequest
<1>4. Claims
  BY <1>3, RestingType DEF Init, Claims, Claim
<1>5. Budgets
  BY <1>3, FS_EmptySet DEF Init, Budgets, Budget, Stored, Is
<1> QED
  BY <1>1, <1>2, <1>4, <1>5 DEF PentahoInv

-----------------------------------------------------------------------------
\* What a write of a stored row k by r, with the next revision, keeps.
LEMMA RowWrite ==
    ASSUME TypeOK, NEW k \in Keys, Stored(k), NEW r \in Lote,
           r.payload = lote[k].payload, r.rev = lote[k].rev + 1,
           lote' = [lote EXCEPT ![k] = r]
    PROVE  /\ lote' \in [Keys -> Lote \cup {None}]
           /\ lote'[k] = r /\ \A j \in Keys \ {k} : lote'[j] = lote[j]
           /\ \A j \in Keys : Stored(j)' <=> Stored(j)
           /\ AnswerIsStored /\ answers' = answers => AnswerIsStored'
           /\ \A s \in [tentativas : Nat, rev : Nat], j \in Keys :
                  SeenRow(s, j) => SeenRow(s, j)'
<1>1. /\ lote' \in [Keys -> Lote \cup {None}]
      /\ lote'[k] = r /\ \A j \in Keys \ {k} : lote'[j] = lote[j]
  BY DEF TypeOK
<1>2. \A j \in Keys : Stored(j)' <=> Stored(j)
  BY <1>1 DEF Stored
<1>3. ASSUME AnswerIsStored, answers' = answers PROVE AnswerIsStored'
  <2> SUFFICES ASSUME NEW a \in answers PROVE Stored(a[1])' /\ lote'[a[1]].payload = a[2]
    BY <1>3 DEF AnswerIsStored
  <2>1. a[1] \in Keys /\ Stored(a[1]) /\ lote[a[1]].payload = a[2]
    BY <1>3 DEF AnswerIsStored, TypeOK
  <2> QED BY <2>1, <1>1, <1>2
<1>4. ASSUME NEW s \in [tentativas : Nat, rev : Nat], NEW j \in Keys, SeenRow(s, j)
      PROVE  SeenRow(s, j)'
  <2>1. CASE j = k
    <3>1. s.rev \in Nat /\ lote[k].rev \in Nat /\ s.rev <= lote[k].rev
      BY <1>4, <2>1, StoredRow DEF SeenRow
    <3> QED BY <3>1, <2>1, <1>1, <1>2 DEF SeenRow
  <2>2. CASE j # k
    BY <2>2, <1>1, <1>2, <1>4 DEF SeenRow, Is, Stored
  <2> QED BY <2>1, <2>2
<1> QED BY <1>1, <1>2, <1>3, <1>4

\* An executor that ends its work rests; the others keep theirs.
LEMMA ExecutorRests ==
    ASSUME TypeOK, NEW e \in Executors, ex' = [ex EXCEPT ![e] = Resting]
    PROVE  /\ ex' \in [Executors -> [pc : ExecutorPc, key : Keys \cup {None}, seen : Seen]]
           /\ ex'[e].key = None /\ ex'[e].pc = "idle" /\ DOMAIN ex'[e].seen = {}
           /\ \A d \in Executors \ {e} : ex'[d] = ex[d]
BY RestingType DEF TypeOK

-----------------------------------------------------------------------------
\* The handlers of the API.
LEMMA BuscarLoteInv ==
    ASSUME PentahoInv, NEW h \in Handlers, NEW k \in Keys, NEW p \in Payloads,
           BuscarLote(h, k, p)
    PROVE  PentahoInv'
<1> USE DEF PentahoInv
<1>1. UNCHANGED <<lote, ex, requeues, late, faults>>
  BY DEF BuscarLote
<1>2. TypeOK'
  BY <1>1 DEF TypeOK, BuscarLote
<1>3. InHand'
  BY <1>1 DEF TypeOK, BuscarLote, InHand, Stored
<1>4. SeenRows'
  BY <1>1 DEF SeenRows, SeenRow, Stored, Is
<1>5. AnswerIsStored'
  BY <1>1 DEF AnswerIsStored, BuscarLote, Stored, ReusoValido
<1>6. ASSUME NEW j \in Keys PROVE Requeuing(j)' = Requeuing(j)
  BY DEF BuscarLote, Requeuing, TypeOK
<1>7. Claims'
  BY <1>1, <1>6 DEF Claims, Claim, Undisturbed, Is, Stored
<1>8. Budgets'
  BY <1>1, <1>6 DEF Budgets, Budget, Is, Stored
<1> QED BY <1>2, <1>3, <1>4, <1>5, <1>7, <1>8

\* The row of a new batch.
LEMMA NewRow ==
    ASSUME NEW p \in Payloads,
           NEW r, r = [payload |-> p, status |-> "PENDENTE", tentativas |-> 0,
                       old |-> FALSE, rev |-> 0]
    PROVE  r \in Lote
BY DEF Lote, Status

LEMMA InserirLoteInv ==
    ASSUME PentahoInv, NEW h \in Handlers, InserirLote(h)
    PROVE  PentahoInv'
<1> USE DEF PentahoInv
<1>2. PICK k \in Keys, p \in Payloads : k = api[h].key /\ p = api[h].payload
  BY DEF InHand, InserirLote
<1> DEFINE r == [payload |-> p, status |-> "PENDENTE", tentativas |-> 0,
                  old |-> FALSE, rev |-> 0]
<1>1. UNCHANGED <<ex, requeues, late, faults>>
  BY DEF InserirLote
<1>3. api' \in [Handlers -> [pc : {"none", "insert", "requeue"}, key : Keys \cup {None},
                             payload : Payloads \cup {None}]]
  BY DEF InserirLote, TypeOK, NoRequest
<1>4. ASSUME NEW j \in Keys PROVE Requeuing(j)' = Requeuing(j)
  BY DEF InserirLote, Requeuing, TypeOK, NoRequest
<1>5. CASE Stored(k)
  <2>1. lote' = lote /\ answers' \subseteq answers \cup {<<k, p>>}
        /\ (answers' = answers \/ ReusoValido(k, p))
    BY <1>2, <1>5 DEF InserirLote
  <2>2. TypeOK'
    BY <1>1, <1>2, <1>3, <2>1 DEF TypeOK
  <2>3. InHand'
    BY <1>1, <2>1 DEF InHand, InserirLote, TypeOK, Stored, NoRequest
  <2>4. SeenRows'
    BY <1>1, <2>1 DEF SeenRows, SeenRow, Stored, Is
  <2>5. AnswerIsStored'
    BY <1>5, <1>2, <2>1 DEF AnswerIsStored, Stored, ReusoValido
  <2>6. Claims'
    BY <1>1, <1>4, <2>1 DEF Claims, Claim, Undisturbed, Is, Stored
  <2>7. Budgets'
    BY <1>1, <1>4, <2>1 DEF Budgets, Budget, Is, Stored
  <2> QED BY <2>2, <2>3, <2>4, <2>5, <2>6, <2>7
<1>6. CASE ~Stored(k)
  <2>1. r \in Lote
    BY <1>2, NewRow
  <2>2. lote' = [lote EXCEPT ![k] = r] /\ answers' = answers \cup {<<k, p>>}
    BY <1>2, <1>6 DEF InserirLote, Answer
  <2>3. lote'[k] = r /\ \A j \in Keys \ {k} : lote'[j] = lote[j]
    BY <1>2, <2>2 DEF TypeOK
  <2>4. r.payload = p /\ r.status = "PENDENTE" /\ r.tentativas = 0
    OBVIOUS
  <2> HIDE DEF r
  <2>5. Stored(k)' /\ \A j \in Keys \ {k} : Stored(j)' <=> Stored(j)
    BY <2>1, <2>3 DEF Stored
  <2>6. TypeOK'
    BY <1>1, <1>2, <1>3, <2>1, <2>2 DEF TypeOK
  <2>7. InHand'
    BY <1>1, <1>2, <2>5 DEF InHand, InserirLote, TypeOK, NoRequest
  <2>8. SeenRows'
    BY <1>1, <1>6, <2>3, <2>5, SeenType DEF SeenRows, SeenRow, Is, Stored
  <2>9. AnswerIsStored'
    <3> SUFFICES ASSUME NEW a \in answers'
                 PROVE  Stored(a[1])' /\ lote'[a[1]].payload = a[2]
      BY DEF AnswerIsStored
    <3>1. CASE a = <<k, p>>
      BY <3>1, <2>3, <2>4, <2>5
    <3>2. CASE a \in answers
      <4>1. a[1] \in Keys /\ a[1] # k /\ lote[a[1]].payload = a[2]
        BY <3>2, <1>6 DEF AnswerIsStored, TypeOK
      <4> QED BY <4>1, <3>2, <2>3, <2>5 DEF AnswerIsStored
    <3> QED BY <3>1, <3>2, <2>2
  <2>10. ASSUME NEW j \in Keys, Undisturbed(j)' PROVE Claim(j)'
    <3>1. Claim(j)
      BY <2>10, <1>1 DEF Claims, Undisturbed
    <3>2. CASE j # k
      BY <3>1, <3>2, <1>1, <1>4, <2>3, <2>5 DEF Claim, Is
    <3>3. CASE j = k
      <4>1. /\ \A e \in Executors : ex[e].key # k
            /\ Requeuing(k) = {}
        BY <3>1, <3>3, <1>6 DEF Claim, Is
      <4> QED BY <4>1, <3>3, <1>1, <1>4 DEF Claim
    <3> QED BY <3>2, <3>3
  <2>11. ASSUME NEW j \in Keys PROVE Budget(j)'
    <3>1. CASE j # k
      BY <3>1, <1>1, <1>4, <2>3, <2>5 DEF Budgets, Budget, Is
    <3>2. CASE j = k
      <4>1. Requeuing(k) = {}
        BY <1>2, <1>6 DEF Requeuing, InHand
      <4>2. Cardinality(Requeuing(k)') = 0 /\ IsFiniteSet(Requeuing(k)')
        BY <1>2, <1>4, <4>1, FS_EmptySet
      <4>3. requeues'[k] \in Nat
        BY <1>1, <1>2 DEF TypeOK
      <4> QED BY <3>2, <4>2, <4>3, <2>3, <2>4 DEF Budget, Is
    <3> QED BY <3>1, <3>2
  <2> QED BY <2>6, <2>7, <2>8, <2>9, <2>10, <2>11 DEF Claims, Budgets
<1> QED BY <1>5, <1>6

\* preparar_reprocessamento: the read, and the write it leads to.
LEMMA LerQuarentenaInv ==
    ASSUME PentahoInv, NEW h \in Handlers, NEW k \in Keys, LerQuarentena(h, k)
    PROVE  PentahoInv'
<1> USE DEF PentahoInv
<1>1. UNCHANGED <<lote, ex, answers, late, faults>> /\ Is(k, "QUARENTENA")
  BY DEF LerQuarentena
<1>2. /\ requeues' \in [Keys -> Nat] /\ requeues'[k] = requeues[k] + 1
      /\ \A j \in Keys \ {k} : requeues'[j] = requeues[j]
  BY DEF LerQuarentena, TypeOK
<1>3. /\ h \notin Requeuing(k) /\ Requeuing(k)' = Requeuing(k) \cup {h}
      /\ \A j \in Keys \ {k} : Requeuing(j)' = Requeuing(j)
  BY DEF LerQuarentena, Requeuing, TypeOK
<1>4. TypeOK'
  BY <1>1, <1>2 DEF TypeOK, LerQuarentena
<1>5. InHand'
  BY <1>1 DEF InHand, LerQuarentena, TypeOK, Is, Stored
<1>6. SeenRows' /\ AnswerIsStored'
  BY <1>1 DEF SeenRows, SeenRow, AnswerIsStored, Is, Stored
<1>7. ASSUME NEW j \in Keys, Undisturbed(j)' PROVE Claim(j)'
  <2>1. Undisturbed(j)
    BY <1>7, <1>1, <1>2 DEF Undisturbed, TypeOK
  <2> QED BY <2>1, <1>1, <1>3 DEF Claims, Claim, Is, Stored
<1>8. ASSUME NEW j \in Keys PROVE Budget(j)'
  <2>1. CASE j # k
    BY <2>1, <1>1, <1>2, <1>3 DEF Budgets, Budget, Is, Stored
  <2>2. CASE j = k
    <3>1. IsFiniteSet(Requeuing(k)) /\ Cardinality(Requeuing(k)) \in Nat
      BY FS_CardinalityType DEF Budgets, Budget
    <3>2. /\ IsFiniteSet(Requeuing(k)')
          /\ Cardinality(Requeuing(k)') = Cardinality(Requeuing(k)) + 1
      BY <3>1, <1>3, FS_AddElement
    <3>3. Stored(k) /\ lote[k].tentativas \in Nat /\ lote[k].status = "QUARENTENA"
      BY <1>1, StoredRow DEF Is
    <3>4. /\ Cardinality(Requeuing(k)) <= requeues[k]
          /\ lote[k].tentativas + Cardinality(Requeuing(k)) <= MaxTentativas + requeues[k]
      BY <3>3 DEF Budgets, Budget
    <3>5. requeues[k] \in Nat
      BY DEF TypeOK
    <3> QED BY <2>2, <3>1, <3>2, <3>3, <3>4, <3>5, <1>1, <1>2 DEF Budget, Is
  <2> QED BY <2>1, <2>2
<1> QED BY <1>4, <1>5, <1>6, <1>7, <1>8 DEF Claims, Budgets

LEMMA ReprocessarInv ==
    ASSUME PentahoInv, NEW h \in Handlers, Reprocessar(h)
    PROVE  PentahoInv'
<1> USE DEF PentahoInv
<1>1. PICK k \in Keys : k = api[h].key /\ Stored(k)
  BY DEF InHand, Reprocessar
<1>2. PICK r \in Lote : /\ r = Written(k, "PENDENTE")
                        /\ r.payload = lote[k].payload /\ r.status = "PENDENTE"
                        /\ r.tentativas = lote[k].tentativas /\ r.rev = lote[k].rev + 1
  BY <1>1, WrittenRow DEF Status
<1>3. /\ lote' = [lote EXCEPT ![k] = r]
      /\ UNCHANGED <<ex, answers, requeues, late, faults>>
  BY <1>1, <1>2 DEF Reprocessar, Gravar
<1>4. /\ lote' \in [Keys -> Lote \cup {None}]
      /\ lote'[k] = r /\ \A j \in Keys \ {k} : lote'[j] = lote[j]
      /\ \A j \in Keys : Stored(j)' <=> Stored(j)
      /\ AnswerIsStored'
      /\ \A s \in [tentativas : Nat, rev : Nat], j \in Keys :
             SeenRow(s, j) => SeenRow(s, j)'
  BY <1>1, <1>2, <1>3, RowWrite
<1>5. /\ h \in Requeuing(k) /\ Requeuing(k)' = Requeuing(k) \ {h}
      /\ \A j \in Keys \ {k} : Requeuing(j)' = Requeuing(j)
  BY <1>1 DEF Reprocessar, Requeuing, TypeOK, NoRequest
<1>6. TypeOK'
  BY <1>3, <1>4 DEF TypeOK, Reprocessar, NoRequest
<1>7. InHand'
  BY <1>3, <1>4 DEF InHand, Reprocessar, TypeOK, NoRequest
<1>8. SeenRows'
  BY <1>3, <1>4, SeenType DEF SeenRows
<1>9. /\ IsFiniteSet(Requeuing(k)) /\ Cardinality(Requeuing(k)) \in Nat
      /\ IsFiniteSet(Requeuing(k)')
      /\ Cardinality(Requeuing(k)') = Cardinality(Requeuing(k)) - 1
  <2>1. IsFiniteSet(Requeuing(k)) /\ Cardinality(Requeuing(k)) \in Nat
    BY FS_CardinalityType DEF Budgets, Budget
  <2> QED BY <2>1, <1>5, FS_RemoveElement
<1>10. ASSUME NEW j \in Keys, Undisturbed(j)' PROVE Claim(j)'
  <2>1. Undisturbed(j) /\ Claim(j)
    BY <1>10, <1>3 DEF Claims, Undisturbed
  <2>2. CASE j # k
    BY <2>1, <2>2, <1>3, <1>4, <1>5 DEF Claim, Is
  <2>3. CASE j = k
    <3>1. Is(k, "QUARENTENA") /\ \A e \in Executors : ex[e].key # k
      BY <2>1, <2>3, <1>5 DEF Claim, Is
    <3>2. requeues[k] \in Nat /\ requeues[k] <= 1 /\ Cardinality(Requeuing(k)) <= requeues[k]
      BY <2>1, <2>3 DEF Undisturbed, Budgets, Budget, TypeOK
    <3>3. Cardinality(Requeuing(k)') = 0
      BY <3>2, <1>9, FS_CardinalityType
    <3>4. Requeuing(k)' = {}
      BY <3>3, <1>9, FS_EmptySet
    <3> QED BY <2>3, <3>1, <3>4, <1>3 DEF Claim
  <2> QED BY <2>2, <2>3
<1>11. ASSUME NEW j \in Keys PROVE Budget(j)'
  <2>1. CASE j # k
    BY <2>1, <1>3, <1>4, <1>5 DEF Budgets, Budget, Is
  <2>2. CASE j = k
    <3>1. /\ Cardinality(Requeuing(k)) <= requeues[k] /\ requeues[k] \in Nat
          /\ lote[k].tentativas \in Nat
          /\ lote[k].tentativas + Cardinality(Requeuing(k)) <= MaxTentativas + requeues[k]
      BY <1>1, StoredRow DEF Budgets, Budget, TypeOK
    <3> QED BY <2>2, <3>1, <1>2, <1>3, <1>4, <1>9 DEF Budget, Is
  <2> QED BY <2>1, <2>2
<1> QED BY <1>4, <1>6, <1>7, <1>8, <1>10, <1>11 DEF Claims, Budgets

-----------------------------------------------------------------------------
\* The executors.
LEMMA ReivindicarInv ==
    ASSUME PentahoInv, NEW e \in Executors, NEW k \in Keys, Reivindicar(e, k)
    PROVE  PentahoInv'
<1> USE DEF PentahoInv
<1> DEFINE r == [Written(k, "PROCESSANDO") EXCEPT !.tentativas = @ + 1]
<1>1. Stored(k) /\ lote[k].status = "PENDENTE"
  BY DEF Reivindicar, Is
<1>2. /\ r \in Lote /\ r.payload = lote[k].payload /\ r.status = "PROCESSANDO"
      /\ r.tentativas = lote[k].tentativas + 1 /\ r.old = FALSE /\ r.rev = lote[k].rev + 1
  BY <1>1, ClaimedRow
<1>3. /\ lote' = [lote EXCEPT ![k] = r]
      /\ UNCHANGED <<api, answers, requeues, late, faults>>
  BY DEF Reivindicar
<1> HIDE DEF r
<1>4. /\ lote' \in [Keys -> Lote \cup {None}]
      /\ lote'[k] = r /\ \A j \in Keys \ {k} : lote'[j] = lote[j]
      /\ \A j \in Keys : Stored(j)' <=> Stored(j)
      /\ AnswerIsStored'
      /\ \A s \in [tentativas : Nat, rev : Nat], j \in Keys :
             SeenRow(s, j) => SeenRow(s, j)'
  BY <1>1, <1>2, <1>3, RowWrite
<1>5. /\ ex' \in [Executors -> [pc : ExecutorPc, key : Keys \cup {None}, seen : Seen]]
      /\ ex'[e].key = k /\ ex'[e].pc = "working" /\ DOMAIN ex'[e].seen = {}
      /\ \A d \in Executors \ {e} : ex'[d] = ex[d]
  <2>1. PICK n : n = [Resting EXCEPT !.pc = "working", !.key = k]
    OBVIOUS
  <2>2. n = [pc |-> "working", key |-> k, seen |-> Resting.seen]
    BY <2>1 DEF Resting
  <2>3. Resting.seen \in Seen /\ DOMAIN Resting.seen = {}
    BY RestingType
  <2>4. ex' = [ex EXCEPT ![e] = n]
    BY <2>1 DEF Reivindicar
  <2> QED BY <2>2, <2>3, <2>4 DEF TypeOK, ExecutorPc
<1>6. ASSUME NEW j \in Keys PROVE Requeuing(j)' = Requeuing(j)
  BY <1>3 DEF Requeuing
<1>7. TypeOK'
  BY <1>3, <1>4, <1>5 DEF TypeOK
<1>8. InHand'
  BY <1>1, <1>3, <1>4, <1>5 DEF InHand, TypeOK
<1>9. SeenRows'
  BY <1>4, <1>5, SeenType DEF SeenRows
<1>10. ASSUME NEW j \in Keys, Undisturbed(j)' PROVE Claim(j)'
  <2>1. Claim(j)
    BY <1>10, <1>3 DEF Claims, Undisturbed
  <2>2. CASE j # k
    BY <2>1, <2>2, <1>4, <1>5, <1>6 DEF Claim, Is
  <2>3. CASE j = k
    <3>1. Requeuing(k) = {} /\ \A d \in Executors : ex[d].key # k
      BY <2>1, <2>3, <1>1 DEF Claim, Is
    <3> QED BY <2>3, <3>1, <1>1, <1>2, <1>4, <1>5, <1>6 DEF Claim, Is
  <2> QED BY <2>2, <2>3
<1>11. ASSUME NEW j \in Keys PROVE Budget(j)'
  <2>1. CASE j # k
    BY <2>1, <1>3, <1>4, <1>6 DEF Budgets, Budget, Is
  <2>2. CASE j = k
    <3>1. /\ IsFiniteSet(Requeuing(k)) /\ Cardinality(Requeuing(k)) <= requeues[k]
          /\ Cardinality(Requeuing(k)) \in Nat /\ requeues[k] \in Nat
          /\ lote[k].tentativas \in Nat
          /\ lote[k].tentativas + Cardinality(Requeuing(k)) < MaxTentativas + requeues[k]
      BY <1>1, StoredRow, FS_CardinalityType DEF Budgets, Budget, TypeOK, Is
    <3> QED BY <2>2, <3>1, <1>2, <1>3, <1>4, <1>6 DEF Budget, Is
  <2> QED BY <2>1, <2>2
<1> QED BY <1>4, <1>7, <1>8, <1>9, <1>10, <1>11 DEF Claims, Budgets

\* The end of an execution, whatever the row says by then.
LEMMA CloseInv ==
    ASSUME PentahoInv, NEW e \in Executors, NEW s \in {"CONCLUIDO", "QUARENTENA"},
           ex[e].key # None, Gravar(ex[e].key, s), ex' = [ex EXCEPT ![e] = Resting],
           UNCHANGED <<api, answers, requeues, late, faults>>
    PROVE  PentahoInv'
<1> USE DEF PentahoInv
<1>1. PICK k \in Keys : k = ex[e].key /\ Stored(k)
  BY DEF InHand, TypeOK
<1>2. PICK r \in Lote : /\ r = Written(k, s)
                        /\ r.payload = lote[k].payload /\ r.status = s
                        /\ r.tentativas = lote[k].tentativas /\ r.rev = lote[k].rev + 1
  BY <1>1, WrittenRow DEF Status
<1>3. lote' = [lote EXCEPT ![k] = r]
  BY <1>1, <1>2 DEF Gravar
<1>4. /\ lote' \in [Keys -> Lote \cup {None}]
      /\ lote'[k] = r /\ \A j \in Keys \ {k} : lote'[j] = lote[j]
      /\ \A j \in Keys : Stored(j)' <=> Stored(j)
      /\ AnswerIsStored'
      /\ \A t \in [tentativas : Nat, rev : Nat], j \in Keys :
             SeenRow(t, j) => SeenRow(t, j)'
  BY <1>1, <1>2, <1>3, RowWrite
<1>5. /\ ex' \in [Executors -> [pc : ExecutorPc, key : Keys \cup {None}, seen : Seen]]
      /\ ex'[e].key = None /\ ex'[e].pc = "idle" /\ DOMAIN ex'[e].seen = {}
      /\ \A d \in Executors \ {e} : ex'[d] = ex[d]
  BY ExecutorRests
<1>6. ASSUME NEW j \in Keys PROVE Requeuing(j)' = Requeuing(j)
  BY DEF Requeuing
<1>7. TypeOK' /\ InHand'
  BY <1>4, <1>5 DEF TypeOK, InHand
<1>8. SeenRows'
  BY <1>4, <1>5, SeenType DEF SeenRows
<1>9. ASSUME NEW j \in Keys, Undisturbed(j)' PROVE Claim(j)'
  <2>1. Claim(j)
    BY <1>9 DEF Claims, Undisturbed
  <2>2. CASE j # k
    BY <2>1, <2>2, <1>4, <1>5, <1>6 DEF Claim, Is
  <2>3. CASE j = k
    <3>1. Requeuing(k) = {} /\ \A d \in Executors \ {e} : ex[d].key # k
      BY <2>1, <2>3, <1>1 DEF Claim, Is
    <3> QED BY <2>3, <3>1, <1>5, <1>6 DEF Claim
  <2> QED BY <2>2, <2>3
<1>10. ASSUME NEW j \in Keys PROVE Budget(j)'
  BY <1>1, <1>2, <1>4, <1>6 DEF Budgets, Budget, Is
<1> QED BY <1>4, <1>7, <1>8, <1>9, <1>10 DEF Claims, Budgets

\* The listing of the abandoned batches.
LEMMA ListarInv ==
    ASSUME PentahoInv, NEW e \in Executors, ListarAbandonados(e)
    PROVE  PentahoInv'
<1> USE DEF PentahoInv
<1> DEFINE list == [k \in Abandonados |->
                        [tentativas |-> lote[k].tentativas, rev |-> lote[k].rev]]
<1>1. UNCHANGED <<lote, api, answers, requeues, late, faults>>
  BY DEF ListarAbandonados
<1>2. ASSUME NEW k \in Abandonados
      PROVE  /\ k \in Keys /\ Stored(k)
             /\ lote[k].status = "PROCESSANDO" /\ lote[k].old
             /\ lote[k].tentativas \in Nat /\ lote[k].rev \in Nat
  BY StoredRow DEF Abandonados, Is
<1>3. list \in Seen /\ DOMAIN list = Abandonados
      /\ \A k \in Abandonados : SeenRow(list[k], k)
  <2>1. Abandonados \in SUBSET Keys
    BY DEF Abandonados
  <2>2. list \in [Abandonados -> [tentativas : Nat, rev : Nat]]
    BY <1>2
  <2>3. \A k \in Abandonados : SeenRow(list[k], k)
    BY <1>2 DEF SeenRow, Is
  <2> QED BY <2>1, <2>2, <2>3 DEF Seen
<1>4. ex' = [ex EXCEPT ![e] = [pc |-> "recovering", key |-> None, seen |-> list]]
  BY DEF ListarAbandonados
<1> HIDE DEF list
<1>5. /\ ex' \in [Executors -> [pc : ExecutorPc, key : Keys \cup {None}, seen : Seen]]
      /\ ex'[e].key = None /\ ex'[e].pc = "recovering" /\ ex'[e].seen = list
      /\ \A d \in Executors \ {e} : ex'[d] = ex[d]
  BY <1>3, <1>4 DEF TypeOK, ExecutorPc
<1>6. ASSUME NEW j \in Keys PROVE Requeuing(j)' = Requeuing(j)
  BY <1>1 DEF Requeuing
<1>7. TypeOK' /\ InHand' /\ AnswerIsStored'
  BY <1>1, <1>5 DEF TypeOK, InHand, AnswerIsStored, Stored
<1>8. SeenRows'
  BY <1>1, <1>3, <1>5 DEF SeenRows, SeenRow, Is, Stored
<1>9. Claims'
  BY <1>1, <1>5, <1>6 DEF Claims, Claim, Undisturbed, Is, Stored
<1>10. Budgets'
  BY <1>1, <1>6 DEF Budgets, Budget, Is, Stored
<1> QED BY <1>7, <1>8, <1>9, <1>10

\* The recovery: it writes only rows that are still as it listed them.
LEMMA RecuperarInv ==
    ASSUME PentahoInv, NEW e \in Executors, Recuperar(e)
    PROVE  PentahoInv'
<1> USE DEF PentahoInv
<1> DEFINE Target(k) == IF ex[e].seen[k].tentativas >= MaxTentativas
                        THEN "QUARENTENA" ELSE "PENDENTE"
<1>1. /\ UNCHANGED <<api, answers, requeues, late, faults>>
      /\ ex' = [ex EXCEPT ![e] = Resting]
      /\ lote' = [k \in Keys |-> IF k \notin Untouched(e) THEN lote[k]
                                 ELSE Written(k, Target(k))]
  BY DEF Recuperar
<1>2. ASSUME NEW k \in Untouched(e)
      PROVE  /\ k \in Keys /\ Stored(k) /\ lote[k].status = "PROCESSANDO" /\ lote[k].old
             /\ lote[k].rev \in Nat /\ lote[k].tentativas \in Nat
             /\ lote'[k] \in Lote /\ lote'[k].payload = lote[k].payload
             /\ lote'[k].status \in {"QUARENTENA", "PENDENTE"}
             /\ lote'[k].status = "PENDENTE" => lote[k].tentativas < MaxTentativas
             /\ lote'[k].tentativas = lote[k].tentativas
             /\ lote'[k].rev = lote[k].rev + 1
  <2>1. k \in DOMAIN ex[e].seen /\ lote[k].rev = ex[e].seen[k].rev
    BY DEF Untouched
  <2>2. /\ k \in Keys /\ Stored(k) /\ lote[k].status = "PROCESSANDO" /\ lote[k].old
        /\ lote[k].tentativas = ex[e].seen[k].tentativas
    BY <2>1, SeenType DEF SeenRows, SeenRow, Is
  <2>3. lote[k].tentativas \in Nat /\ lote[k].rev \in Nat
    BY <2>2, StoredRow
  <2>4. /\ Target(k) \in {"QUARENTENA", "PENDENTE"}
        /\ Target(k) = "PENDENTE" => lote[k].tentativas < MaxTentativas
    BY <2>2, <2>3
  <2>5. PICK s \in {"QUARENTENA", "PENDENTE"} : s = Target(k)
    BY <2>4
  <2>6. lote'[k] = Written(k, s) /\ s \in Status
    BY <1>1, <2>2, <2>5 DEF Status
  <2>7. s = "PENDENTE" => lote[k].tentativas < MaxTentativas
    BY <2>4, <2>5
  <2> HIDE DEF Target
  <2>8. /\ Written(k, s) \in Lote
        /\ Written(k, s).payload = lote[k].payload
        /\ Written(k, s).status = s
        /\ Written(k, s).tentativas = lote[k].tentativas
        /\ Written(k, s).rev = lote[k].rev + 1
    BY <2>2, <2>6, WrittenRow
  <2> QED BY <2>2, <2>3, <2>6, <2>7, <2>8
<1>3. \A k \in Keys : k \notin Untouched(e) => lote'[k] = lote[k]
  BY <1>1
<1>4. lote' \in [Keys -> Lote \cup {None}]
  BY <1>1, <1>2, <1>3 DEF TypeOK
<1>5. \A k \in Keys : Stored(k)' <=> Stored(k)
  BY <1>2, <1>3 DEF Stored
<1>6. /\ ex' \in [Executors -> [pc : ExecutorPc, key : Keys \cup {None}, seen : Seen]]
      /\ ex'[e].key = None /\ ex'[e].pc = "idle" /\ DOMAIN ex'[e].seen = {}
      /\ \A d \in Executors \ {e} : ex'[d] = ex[d]
  BY <1>1, ExecutorRests
<1>7. ASSUME NEW j \in Keys PROVE Requeuing(j)' = Requeuing(j)
  BY <1>1 DEF Requeuing
<1>8. TypeOK' /\ InHand'
  BY <1>1, <1>4, <1>5, <1>6 DEF TypeOK, InHand
<1>9. AnswerIsStored'
  <2> SUFFICES ASSUME NEW a \in answers PROVE Stored(a[1])' /\ lote'[a[1]].payload = a[2]
    BY <1>1 DEF AnswerIsStored
  <2>1. a[1] \in Keys /\ Stored(a[1]) /\ lote[a[1]].payload = a[2]
    BY DEF AnswerIsStored, TypeOK
  <2> QED BY <2>1, <1>2, <1>3, <1>5
<1>10. ASSUME NEW d \in Executors, NEW k \in DOMAIN ex'[d].seen
       PROVE  SeenRow(ex[d].seen[k], k)'
  <2>1. d # e /\ ex'[d] = ex[d]
    BY <1>6, <1>10
  <2>2. /\ k \in Keys /\ SeenRow(ex[d].seen[k], k) /\ ex[d].seen[k].rev \in Nat
    BY <2>1, <1>10, SeenType DEF SeenRows
  <2>3. CASE k \in Untouched(e)
    <3>1. ex'[d].seen[k].rev < lote'[k].rev
      BY <2>1, <2>2, <2>3, <1>2 DEF SeenRow
    <3> QED BY <3>1, <2>1, <2>2, <2>3, <1>2, <1>5 DEF SeenRow
  <2>4. CASE k \notin Untouched(e)
    BY <2>1, <2>2, <2>4, <1>3, <1>5 DEF SeenRow, Is
  <2> QED BY <2>3, <2>4
<1>11. ASSUME NEW j \in Keys, Undisturbed(j)' PROVE Claim(j)'
  <2>1. Claim(j)
    BY <1>11, <1>1 DEF Claims, Undisturbed
  <2>2. CASE j \notin Untouched(e)
    BY <2>1, <2>2, <1>3, <1>5, <1>6, <1>7 DEF Claim, Is
  <2>3. CASE j \in Untouched(e)
    <3>1. Requeuing(j) = {} /\ \A d \in Executors : ex[d].key # j
      BY <2>1, <2>3, <1>2 DEF Claim, Is
    <3> QED BY <3>1, <1>6, <1>7 DEF Claim
  <2> QED BY <2>2, <2>3
<1>12. ASSUME NEW j \in Keys PROVE Budget(j)'
  <2>1. CASE j \notin Untouched(e)
    BY <2>1, <1>1, <1>3, <1>5, <1>7 DEF Budgets, Budget, Is
  <2>2. CASE j \in Untouched(e)
    <3>1. /\ IsFiniteSet(Requeuing(j)) /\ Cardinality(Requeuing(j)) <= requeues[j]
          /\ Cardinality(Requeuing(j)) \in Nat /\ requeues[j] \in Nat
          /\ lote[j].tentativas + Cardinality(Requeuing(j)) <= MaxTentativas + requeues[j]
      BY <2>2, <1>2, FS_CardinalityType DEF Budgets, Budget, TypeOK
    <3> QED BY <2>2, <3>1, <1>1, <1>2, <1>7 DEF Budget, Is
  <2> QED BY <2>1, <2>2
<1> QED BY <1>8, <1>9, <1>10, <1>11, <1>12 DEF SeenRows, Claims, Budgets

-----------------------------------------------------------------------------
\* Time and faults.
LEMMA OldRow ==
    ASSUME TypeOK, NEW k \in Keys, Is(k, "PROCESSANDO"),
           lote' = [lote EXCEPT ![k].old = TRUE]
    PROVE  /\ lote' \in [Keys -> Lote \cup {None}]
           /\ \A j \in Keys \ {k} : lote'[j] = lote[j]
           /\ lote'[k] \in Lote /\ lote'[k].payload = lote[k].payload
           /\ lote'[k].status = "PROCESSANDO" /\ lote'[k].tentativas = lote[k].tentativas
           /\ lote'[k].rev = lote[k].rev
<1>1. PICK r \in Lote : r = lote[k] /\ r.status = "PROCESSANDO"
  BY DEF TypeOK, Is, Stored
<1>2. PICK n \in Lote : n = [r EXCEPT !.old = TRUE]
  BY Zenon DEF Lote
<1>3. lote' = [lote EXCEPT ![k] = n]
  BY <1>1, <1>2
<1>4. /\ n.payload = r.payload /\ n.status = r.status
      /\ n.tentativas = r.tentativas /\ n.rev = r.rev
  BY <1>2 DEF Lote
<1> QED BY <1>1, <1>2, <1>3, <1>4 DEF TypeOK

LEMMA AgeInv ==
    ASSUME PentahoInv, NEW k \in Keys, Envelhecer(k) \/ Demorar(k)
    PROVE  PentahoInv'
<1> USE DEF PentahoInv
<1>1. /\ Is(k, "PROCESSANDO") /\ ~lote[k].old /\ UNCHANGED <<ex, api, answers, requeues>>
      /\ lote' = [lote EXCEPT ![k].old = TRUE]
      /\ \/ ~Working(k) /\ UNCHANGED <<late, faults>>
         \/ late' = late \cup {k} /\ faults' = faults + 1
  BY DEF Envelhecer, Demorar, Fault
<1>2. /\ lote' \in [Keys -> Lote \cup {None}]
      /\ \A j \in Keys \ {k} : lote'[j] = lote[j]
      /\ lote'[k] \in Lote /\ lote'[k].payload = lote[k].payload
      /\ lote'[k].status = "PROCESSANDO" /\ lote'[k].tentativas = lote[k].tentativas
      /\ lote'[k].rev = lote[k].rev
  BY <1>1, OldRow
<1>3. \A j \in Keys : Stored(j)' <=> Stored(j)
  BY <1>1, <1>2 DEF Stored, Is
<1>4. ASSUME NEW j \in Keys PROVE Requeuing(j)' = Requeuing(j)
  BY <1>1 DEF Requeuing
<1>5. TypeOK' /\ InHand'
  BY <1>1, <1>2, <1>3 DEF TypeOK, InHand
<1>6. AnswerIsStored'
  <2> SUFFICES ASSUME NEW a \in answers PROVE Stored(a[1])' /\ lote'[a[1]].payload = a[2]
    BY <1>1 DEF AnswerIsStored
  <2>1. a[1] \in Keys /\ Stored(a[1]) /\ lote[a[1]].payload = a[2]
    BY DEF AnswerIsStored, TypeOK
  <2> QED BY <2>1, <1>2, <1>3
<1>7. SeenRows'
  <2> SUFFICES ASSUME NEW e \in Executors, NEW j \in DOMAIN ex[e].seen
               PROVE  SeenRow(ex[e].seen[j], j)'
    BY <1>1 DEF SeenRows
  <2>1. j \in Keys /\ SeenRow(ex[e].seen[j], j)
    BY SeenType DEF SeenRows
  <2>2. CASE j = k
    BY <2>1, <2>2, <1>1, <1>2, <1>3 DEF SeenRow
  <2>3. CASE j # k
    BY <2>1, <2>3, <1>1, <1>2, <1>3 DEF SeenRow, Is
  <2> QED BY <2>2, <2>3
<1>8. ASSUME NEW j \in Keys, Undisturbed(j)' PROVE Claim(j)'
  <2>1. Undisturbed(j) /\ Claim(j)
    BY <1>8, <1>1 DEF Claims, Undisturbed
  <2>2. CASE j # k
    BY <2>1, <2>2, <1>1, <1>2, <1>3, <1>4 DEF Claim, Is
  <2>3. CASE j = k
    <3>1. \A d \in Executors : ex[d].key # k
      BY <2>3, <1>8, <1>1 DEF Undisturbed, Working
    <3>2. Requeuing(k) = {}
      BY <2>1, <2>3, <1>1 DEF Claim, Is
    <3> QED BY <2>3, <3>1, <3>2, <1>1, <1>4 DEF Claim
  <2> QED BY <2>2, <2>3
<1>9. ASSUME NEW j \in Keys PROVE Budget(j)'
  BY <1>1, <1>2, <1>3, <1>4 DEF Budgets, Budget, Is
<1> QED BY <1>5, <1>6, <1>7, <1>8, <1>9 DEF Claims, Budgets

LEMMA CrashInv ==
    ASSUME PentahoInv, NEW e \in Executors, faults' = faults + 1,
           \/ ex' = [ex EXCEPT ![e] = Resting]
           \/ ex[e].pc = "working" /\ ex' = [ex EXCEPT ![e] = [@ EXCEPT !.pc = "failing"]],
           UNCHANGED <<lote, api, answers, requeues, late>>
    PROVE  PentahoInv'
<1> USE DEF PentahoInv
<1>1. /\ ex' \in [Executors -> [pc : ExecutorPc, key : Keys \cup {None}, seen : Seen]]
      /\ \A d \in Executors \ {e} : ex'[d] = ex[d]
      /\ \/ ex'[e].key = None /\ ex'[e].pc = "idle" /\ DOMAIN ex'[e].seen = {}
         \/ /\ ex[e].pc = "working" /\ ex'[e].pc = "failing"
            /\ ex'[e].key = ex[e].key /\ ex'[e].seen = ex[e].seen
  <2>1. CASE ex' = [ex EXCEPT ![e] = Resting]
    BY <2>1, ExecutorRests
  <2>2. CASE ex[e].pc = "working" /\ ex' = [ex EXCEPT ![e] = [@ EXCEPT !.pc = "failing"]]
    BY <2>2 DEF TypeOK, ExecutorPc
  <2> QED BY <2>1, <2>2
<1>2. ASSUME NEW j \in Keys PROVE Requeuing(j)' = Requeuing(j)
  BY DEF Requeuing
<1>3. TypeOK' /\ InHand' /\ AnswerIsStored'
  BY <1>1 DEF TypeOK, InHand, AnswerIsStored, Stored
<1>4. SeenRows'
  BY <1>1 DEF SeenRows, SeenRow, Is, Stored
<1>5. Claims'
  BY <1>1, <1>2 DEF Claims, Claim, Undisturbed, Is, Stored
<1>6. Budgets'
  BY <1>2 DEF Budgets, Budget, Is, Stored
<1> QED BY <1>3, <1>4, <1>5, <1>6

-----------------------------------------------------------------------------
LEMMA NextInv == PentahoInv /\ [Next]_vars => PentahoInv'
<1> SUFFICES ASSUME PentahoInv, [Next]_vars PROVE PentahoInv'
  OBVIOUS
<1>1. ASSUME NEW h \in Handlers, NEW k \in Keys, LerQuarentena(h, k) PROVE PentahoInv'
  BY <1>1, LerQuarentenaInv
<1>2. ASSUME NEW h \in Handlers, NEW k \in Keys, NEW p \in Payloads, BuscarLote(h, k, p)
      PROVE  PentahoInv'
  BY <1>2, BuscarLoteInv
<1>3. ASSUME NEW h \in Handlers, Responder(h) PROVE PentahoInv'
  BY <1>3, InserirLoteInv, ReprocessarInv DEF Responder
<1>4. ASSUME NEW e \in Executors, Concluir(e) \/ Quarentenar(e) PROVE PentahoInv'
  <2>1. /\ ex[e].key # None /\ ex' = [ex EXCEPT ![e] = Resting]
        /\ UNCHANGED <<api, answers, requeues, late, faults>>
        /\ Gravar(ex[e].key, "CONCLUIDO") \/ Gravar(ex[e].key, "QUARENTENA")
    BY <1>4 DEF Concluir, Quarentenar, PentahoInv, InHand
  <2> QED BY <2>1, CloseInv
<1>5. ASSUME NEW e \in Executors, ListarAbandonados(e) \/ Recuperar(e) PROVE PentahoInv'
  BY <1>5, ListarInv, RecuperarInv
<1>6. ASSUME NEW e \in Executors, Crash(e) \/ ErroDeBanco(e) PROVE PentahoInv'
  <2>1. /\ faults' = faults + 1
        /\ UNCHANGED <<lote, api, answers, requeues, late>>
        /\ \/ ex' = [ex EXCEPT ![e] = Resting]
           \/ ex[e].pc = "working" /\ ex' = [ex EXCEPT ![e] = [@ EXCEPT !.pc = "failing"]]
    BY <1>6 DEF Crash, ErroDeBanco, Fault
  <2> QED BY <2>1, CrashInv
<1>7. ASSUME NEW e \in Executors, NEW k \in Keys, Reivindicar(e, k) PROVE PentahoInv'
  BY <1>7, ReivindicarInv
<1>8. ASSUME NEW k \in Keys, Envelhecer(k) \/ Demorar(k) PROVE PentahoInv'
  BY <1>8, AgeInv
<1>9. CASE UNCHANGED vars
  <2>1. \A j \in Keys : Requeuing(j)' = Requeuing(j)
    BY <1>9 DEF vars, Requeuing
  <2> QED BY <1>9, <2>1 DEF vars, PentahoInv, TypeOK, InHand, SeenRows, SeenRow, AnswerIsStored,
                            Claims, Claim, Undisturbed, Budgets, Budget, Is, Stored
<1> QED BY <1>1, <1>2, <1>3, <1>4, <1>5, <1>6, <1>7, <1>8, <1>9 DEF Next, Executar

\* The inductive invariant holds in every behaviour.
THEOREM PentahoInvariant == Spec => []PentahoInv
BY InitInv, NextInv, PTL DEF Spec

\* Whoever was answered 202 finds the payload stored under the key
\* (criar_ou_obter_lote), for any number of keys, payloads and requests.
THEOREM AnswersAreStored == Spec => []AnswerIsStored
<1>1. PentahoInv => AnswerIsStored
  BY DEF PentahoInv
<1> QED BY <1>1, PentahoInvariant, PTL

\* The claim of a batch is exclusive and limited (reivindicar_lote,
\* recuperar_lotes_abandonados), for any number of executors and faults.
THEOREM ClaimIsExclusive == Spec => []OneClaimant
<1>1. PentahoInv => OneClaimant
  <2> SUFFICES ASSUME PentahoInv PROVE OneClaimant
    OBVIOUS
  <2> USE DEF PentahoInv
  <2>1. \A e \in Executors : ex[e].key # None => ex[e].key \in Keys
    BY DEF TypeOK
  <2>2. OneAtATime /\ WorkIsMarked
    BY <2>1 DEF OneAtATime, WorkIsMarked, Claims, Claim
  <2>3. ASSUME NEW k \in Keys, Stored(k)
        PROVE  lote[k].tentativas <= MaxTentativas + requeues[k]
    <3>1. /\ lote[k].tentativas \in Nat /\ requeues[k] \in Nat
          /\ Cardinality(Requeuing(k)) \in Nat
          /\ lote[k].tentativas + Cardinality(Requeuing(k)) <= MaxTentativas + requeues[k]
      BY <2>3, StoredRow, FS_CardinalityType DEF Budgets, Budget, TypeOK
    <3> QED BY <3>1
  <2> QED BY <2>2, <2>3 DEF OneClaimant, AttemptsBounded
<1> QED BY <1>1, PentahoInvariant, PTL

=============================================================================
