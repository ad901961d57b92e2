------------------------- MODULE RuntimeJobsProofs --------------------------
(***************************************************************************)
(* Proofs about the runtime's asynchronous jobs, for any number of         *)
(* workers, jobs, requests and faults: what the lease excludes, what the   *)
(* documents count, and where the entries of a job are.                    *)
(***************************************************************************)
EXTENDS MCRuntimeJobs, FiniteSetTheorems, TLAPS

\* The places at which a worker has an entry of a job in hand, and the ones
\* at which it writes the document from its copy.
Writing == {"begin", "execute", "completed", "failed", "retry", "overflow"}
Holding == InService \cup {"popped", "contended", "confirm"}
HasJob  == Holding \cup {"repush", "release", "sweep_lrem", "sweep_push"}

ApiPc == {"none", "publish", "existing", "republish", "remove"}

\* The types of the variables.
TypeOK ==
    /\ doc \in [Jobs -> JobDoc \cup {None}]
    /\ ready \in Seq(Jobs) /\ delayed \subseteq Jobs /\ dlq \subseteq Jobs
    /\ processing \in [Jobs -> Nat]
    /\ lease \in [Jobs -> Workers \cup {Dead, None}]
    /\ wk \in [Workers -> [pc : WorkerPc, job : Jobs \cup {None}, copy : JobDoc,
                           todo : [Jobs -> Nat]]]
    /\ api \in [Handlers -> [pc : ApiPc, job : Jobs \cup {None}]]
    /\ accepted \subseteq Jobs /\ severed \subseteq Jobs /\ robbed \subseteq Jobs
    /\ faults \in [FaultKinds -> Nat] /\ requests \in Nat

\* Whoever is at a place that needs a job has one.
JobInHand ==
    /\ \A w \in Workers : wk[w].pc \in HasJob => wk[w].job \in Jobs
    /\ \A h \in Handlers : api[h].pc # "none" => api[h].job \in Jobs
    /\ \A w \in Workers : wk[w].pc = "begin" => wk[w].copy.status = "PROCESSING"

NoLapse == faults["lapse"] = 0

\* Without a lapse, a worker in service owns the lease of its job until it
\* releases it.
OwnLease ==
    NoLapse => \A w \in Workers :
        wk[w].pc \in InService \cup {"confirm", "release"} => lease[wk[w].job] = w

Open(j)  == doc[j] = None \/ doc[j].status \notin Terminal
\* What the worker of a job knows of its document.
WorkersDoc ==
    NoLapse => \A w \in Workers :
        /\ wk[w].pc \in Writing => Open(wk[w].job)
        /\ wk[w].pc = "quarantine" /\ wk[w].job \notin severed => ~Open(wk[w].job)

\* The attempts counted in the documents and in the workers' copies.
Counting(j) ==
    \E w \in Workers : wk[w].job = j /\ wk[w].pc \in {"begin", "execute", "completed", "failed"}
Attempts ==
    NoLapse =>
        /\ \A w \in Workers :
               /\ wk[w].pc \in Writing => wk[w].copy.tentativas <= MaxTentativas + FaultCount
               /\ wk[w].pc \in {"retry", "overflow"} => wk[w].copy.tentativas < MaxTentativas
        /\ \A j \in Jobs : doc[j] # None =>
               /\ doc[j].tentativas <= MaxTentativas + FaultCount
               /\ (Open(j) /\ ~Counting(j)) => doc[j].tentativas < MaxTentativas + FaultCount

InReady(j) == \E i \in DOMAIN ready : ready[i] = j

\* Without a crash, a started job is in a list other than the processing list
\* or in the hands of a worker that will write it or push it.
Moving == (InService \ {"quarantine"}) \cup {"popped", "contended", "repush", "sweep_push"}
Carried(j) ==
    \/ j \in delayed \/ InReady(j)
    \/ \E w \in Workers : wk[w].job = j /\ wk[w].pc \in Moving
NoCrash == faults["crash"] = 0
CarriedWithoutCrash ==
    NoCrash => \A j \in Jobs \ severed : InFlight(j) => Carried(j)

\* With crashes, the processing list has an entry for each worker that holds
\* one, and for a started job there is an entry besides the one that its
\* worker is about to confirm.
Whole(j) == NoLapse /\ j \notin severed \cup robbed
HeldEntries ==
    \A j \in Jobs : Whole(j) /\ Open(j) => Cardinality(Holders(j)) <= processing[j]
Pushing(j) == \E w \in Workers : wk[w].job = j /\ wk[w].pc \in {"repush", "sweep_push"}
Confirming(j) == \E w \in Workers : wk[w].job = j /\ wk[w].pc = "confirm"
SpareEntry ==
    \A j \in Jobs : Whole(j) /\ InFlight(j) =>
        \/ j \in delayed \/ InReady(j) \/ Pushing(j)
        \/ processing[j] > (IF Confirming(j) THEN 1 ELSE 0)

JobsInv ==
    /\ TypeOK /\ JobInHand /\ OwnLease /\ WorkersDoc /\ Attempts
    /\ CarriedWithoutCrash /\ HeldEntries /\ SpareEntry /\ DeadLetterQuarantined

USE JobsAssumption, JobsBoundAssumption, NoneIsNoDoc

-----------------------------------------------------------------------------
\* A document rewritten with another status.
LEMMA WithStatus ==
    ASSUME NEW d \in JobDoc, NEW s \in Status
    PROVE  /\ [d EXCEPT !.status = s] \in JobDoc
           /\ [d EXCEPT !.status = s].status = s
           /\ [d EXCEPT !.status = s].tentativas = d.tentativas
BY DEF JobDoc

\* The fields of a document and of a worker.
LEMMA DocFields ==
    ASSUME TypeOK, NEW j \in Jobs, doc[j] # None
    PROVE  doc[j] \in JobDoc /\ doc[j].tentativas \in Nat /\ doc[j].status \in Status
BY DEF TypeOK, JobDoc

LEMMA WorkerFields ==
    ASSUME TypeOK, NEW w \in Workers
    PROVE  /\ wk[w].pc \in WorkerPc /\ wk[w].job \in Jobs \cup {None}
           /\ wk[w].copy \in JobDoc /\ wk[w].copy.tentativas \in Nat
           /\ wk[w].todo \in [Jobs -> Nat]
BY DEF TypeOK, JobDoc

LEMMA NewJobType == NewJob \in JobDoc /\ NewJob.status = "QUEUED" /\ NewJob.tentativas = 0
BY DEF NewJob, JobDoc, Status

LEMMA FaultCountType ==
    ASSUME TypeOK
    PROVE  FaultCount \in Nat /\ \A f \in FaultKinds : faults[f] \in Nat
BY DEF TypeOK, FaultCount, FaultKinds

LEMMA FaultAdds ==
    ASSUME TypeOK, NEW kind \in FaultKinds, faults' = [faults EXCEPT ![kind] = @ + 1]
    PROVE  /\ faults' \in [FaultKinds -> Nat] /\ faults'[kind] = faults[kind] + 1
           /\ \A f \in FaultKinds \ {kind} : faults'[f] = faults[f]
           /\ FaultCount \in Nat /\ FaultCount' = FaultCount + 1
<1>1. /\ faults \in [FaultKinds -> Nat] /\ faults["crash"] \in Nat
      /\ faults["interrupt"] \in Nat /\ faults["lapse"] \in Nat
  BY DEF TypeOK, FaultKinds
<1>2. /\ faults' \in [FaultKinds -> Nat] /\ faults'[kind] = faults[kind] + 1
      /\ \A f \in FaultKinds \ {kind} : faults'[f] = faults[f]
  BY <1>1
<1>3. PICK a \in Nat, b \in Nat, c \in Nat :
          a = faults["crash"] /\ b = faults["interrupt"] /\ c = faults["lapse"]
  BY <1>1
<1>4. PICK x \in Nat, y \in Nat, z \in Nat :
          x = faults'["crash"] /\ y = faults'["interrupt"] /\ z = faults'["lapse"]
  BY <1>2 DEF FaultKinds
<1>5. x + y + z = (a + b + c) + 1
  <2>1. CASE kind = "crash"
    <3>1. x = a + 1 /\ y = b /\ z = c
      BY <2>1, <1>2, <1>3, <1>4 DEF FaultKinds
    <3> QED BY <3>1
  <2>2. CASE kind = "interrupt"
    <3>1. x = a /\ y = b + 1 /\ z = c
      BY <2>2, <1>2, <1>3, <1>4 DEF FaultKinds
    <3> QED BY <3>1
  <2>3. CASE kind = "lapse"
    <3>1. x = a /\ y = b /\ z = c + 1
      BY <2>3, <1>2, <1>3, <1>4 DEF FaultKinds
    <3> QED BY <3>1
  <2> QED BY <2>1, <2>2, <2>3 DEF FaultKinds
<1>6. FaultCount = a + b + c
  BY <1>3 DEF FaultCount
<1>7. FaultCount' = x + y + z
  BY <1>4 DEF FaultCount
<1> QED BY <1>2, <1>5, <1>6, <1>7

LEMMA HoldersFinite ==
    ASSUME NEW j
    PROVE  IsFiniteSet(Holders(j)) /\ Cardinality(Holders(j)) \in Nat
<1>1. Holders(j) \subseteq Workers
  BY DEF Holders
<1> QED BY <1>1, FS_Subset, FS_CardinalityType

\* The entries of the main list after a push and after a pop.
LEMMA AppendEntries ==
    ASSUME NEW q \in Seq(Jobs), NEW x \in Jobs, NEW j
    PROVE  /\ Append(q, x) \in Seq(Jobs)
           /\ (\E i \in DOMAIN q : q[i] = j) => \E i \in DOMAIN Append(q, x) : Append(q, x)[i] = j
           /\ \E i \in DOMAIN Append(q, x) : Append(q, x)[i] = x
<1>1. /\ Append(q, x) \in Seq(Jobs) /\ Len(q) \in Nat
      /\ DOMAIN q = 1..Len(q) /\ DOMAIN Append(q, x) = 1..(Len(q) + 1)
      /\ \A i \in 1..Len(q) : Append(q, x)[i] = q[i]
      /\ Append(q, x)[Len(q) + 1] = x
  OBVIOUS
<1>2. Len(q) + 1 \in 1..(Len(q) + 1)
  BY <1>1
<1>3. \A i \in 1..Len(q) : i \in 1..(Len(q) + 1)
  BY <1>1
<1> QED BY <1>1, <1>2, <1>3

LEMMA TailEntries ==
    ASSUME NEW q \in Seq(Jobs), q # <<>>, NEW j
    PROVE  /\ Tail(q) \in Seq(Jobs) /\ Head(q) \in Jobs
           /\ (\E i \in DOMAIN q : q[i] = j) =>
                  j = Head(q) \/ \E i \in DOMAIN Tail(q) : Tail(q)[i] = j
<1>1. /\ Tail(q) \in Seq(Jobs) /\ Head(q) \in Jobs
      /\ Len(q) \in Nat /\ Len(q) > 0 /\ Head(q) = q[1]
      /\ DOMAIN q = 1..Len(q) /\ DOMAIN Tail(q) = 1..(Len(q) - 1)
      /\ \A i \in 1..(Len(q) - 1) : Tail(q)[i] = q[i + 1]
  OBVIOUS
<1>2. ASSUME NEW i \in DOMAIN q, q[i] = j, i # 1
      PROVE  \E k \in DOMAIN Tail(q) : Tail(q)[k] = j
  <2>1. i - 1 \in 1..(Len(q) - 1) /\ (i - 1) + 1 = i
    BY <1>1, <1>2
  <2> QED BY <1>1, <1>2, <2>1
<1> QED BY <1>1, <1>2

-----------------------------------------------------------------------------
LEMMA InitInv == Init => JobsInv
<1> SUFFICES ASSUME Init PROVE JobsInv
  OBVIOUS
<1>1. /\ \A w \in Workers : /\ wk[w].pc = "off" /\ wk[w].job = None
                             /\ wk[w] \in [pc : WorkerPc, job : Jobs \cup {None},
                                           copy : JobDoc, todo : [Jobs -> Nat]]
      /\ \A h \in Handlers : api[h].pc = "none" /\ api[h].job = None
  BY NewJobType DEF Init, Off, NoRequest, WorkerPc, NoJobs
<1>2. TypeOK
  BY <1>1 DEF Init, TypeOK, NoJobs, NoRequest, ApiPc, FaultKinds, Off
<1>3. JobInHand /\ OwnLease /\ WorkersDoc
  BY <1>1 DEF JobInHand, OwnLease, WorkersDoc, HasJob, Holding, InService, Writing
<1>4. Attempts
  BY <1>1 DEF Init, Attempts, Writing
<1>5. CarriedWithoutCrash /\ SpareEntry /\ DeadLetterQuarantined
  BY DEF Init, CarriedWithoutCrash, SpareEntry, InFlight, DeadLetterQuarantined
<1>6. HeldEntries
  <2>1. \A j \in Jobs : Holders(j) = {}
    BY <1>1 DEF Holders, InService
  <2>2. \A j \in Jobs : Cardinality(Holders(j)) = 0 /\ processing[j] = 0
    BY <2>1, FS_EmptySet DEF Init, NoJobs
  <2> QED BY <2>2 DEF HeldEntries
<1> QED BY <1>2, <1>3, <1>4, <1>5, <1>6 DEF JobsInv

-----------------------------------------------------------------------------
(***************************************************************************)
(* Steps that leave the workers alone.                                     *)
(***************************************************************************)
LEMMA WorkersStay ==
    ASSUME wk' = wk, NEW j
    PROVE  /\ Holders(j)' = Holders(j) /\ Counting(j)' = Counting(j)
           /\ Pushing(j)' = Pushing(j) /\ Confirming(j)' = Confirming(j)
           /\ (\E w \in Workers : wk'[w].job = j /\ wk'[w].pc \in Moving)
                 <=> (\E w \in Workers : wk[w].job = j /\ wk[w].pc \in Moving)
           /\ (\E w \in Workers : At(w, "quarantine")' /\ wk'[w].job = j)
                 <=> (\E w \in Workers : At(w, "quarantine") /\ wk[w].job = j)
BY DEF Holders, Counting, Pushing, Confirming, At

\* A step that only changes the requests, what they were answered, and the
\* main list by a push.
LEMMA ApiQuiet ==
    ASSUME JobsInv, UNCHANGED <<doc, delayed, processing, dlq, lease, wk, severed, robbed>>,
           ready' = ready \/ (\E x \in Jobs : ready' = Append(ready, x)),
           faults' = faults \/ faults' = [faults EXCEPT !["crash"] = @ + 1],
           requests' \in Nat, accepted' \subseteq Jobs,
           api' \in [Handlers -> [pc : ApiPc, job : Jobs \cup {None}]],
           \A h \in Handlers : api'[h].pc # "none" => api'[h].job \in Jobs
    PROVE  JobsInv'
<1> USE DEF JobsInv
<1>1. /\ faults' \in [FaultKinds -> Nat] /\ FaultCount \in Nat /\ FaultCount' \in Nat
      /\ FaultCount <= FaultCount'
      /\ NoLapse' <=> NoLapse
      /\ NoCrash' => NoCrash
  <2>1. /\ faults \in [FaultKinds -> Nat] /\ faults["crash"] \in Nat
        /\ faults["interrupt"] \in Nat /\ faults["lapse"] \in Nat
    BY DEF TypeOK, FaultKinds
  <2>2. CASE faults' = faults
    BY <2>1, <2>2 DEF FaultCount, NoLapse, NoCrash
  <2>3. CASE faults' = [faults EXCEPT !["crash"] = @ + 1]
    <3>1. /\ faults' \in [FaultKinds -> Nat] /\ faults'["crash"] = faults["crash"] + 1
          /\ faults'["lapse"] = faults["lapse"]
      BY <2>1, <2>3, FaultAdds DEF FaultKinds
    <3>2. FaultCount \in Nat /\ FaultCount' = FaultCount + 1
      BY <2>3, FaultAdds DEF FaultKinds
    <3>3. faults'["crash"] # 0 /\ (NoLapse' <=> NoLapse)
      BY <2>1, <3>1 DEF NoLapse
    <3> QED BY <3>1, <3>2, <3>3 DEF NoCrash
  <2> QED BY <2>2, <2>3
<1>2. ready' \in Seq(Jobs) /\ \A j \in Jobs : InReady(j) => InReady(j)'
  <2>1. ready \in Seq(Jobs)
    BY DEF TypeOK
  <2>2. CASE ready' = ready
    BY <2>1, <2>2 DEF InReady
  <2>3. CASE \E x \in Jobs : ready' = Append(ready, x)
    BY <2>1, <2>3, AppendEntries DEF InReady
  <2> QED BY <2>2, <2>3
<1>3. TypeOK' /\ JobInHand'
  BY <1>1, <1>2 DEF TypeOK, JobInHand
<1>4. OwnLease' /\ WorkersDoc'
  BY <1>1 DEF OwnLease, WorkersDoc, Open
<1>5. Attempts'
  <2> SUFFICES ASSUME NoLapse' PROVE Attempts'
    BY DEF Attempts
  <2>1. Attempts /\ NoLapse
    BY <1>1
  <2>2. \A w \in Workers : wk[w].copy.tentativas \in Nat
    BY WorkerFields
  <2>3. \A j \in Jobs : doc[j] # None => doc[j].tentativas \in Nat
    BY DocFields
  <2>4. \A j \in Jobs : Counting(j)' = Counting(j) /\ Open(j)' = Open(j)
    BY WorkersStay DEF Open
  <2> QED BY <2>1, <2>2, <2>3, <2>4, <1>1 DEF Attempts
<1>6. CarriedWithoutCrash'
  BY <1>1, <1>2, WorkersStay DEF CarriedWithoutCrash, Carried, InFlight
<1>7. HeldEntries'
  BY <1>1, WorkersStay DEF HeldEntries, Whole, Open
<1>8. SpareEntry'
  BY <1>1, <1>2, WorkersStay DEF SpareEntry, Whole, InFlight
<1>9. DeadLetterQuarantined'
  BY WorkersStay DEF DeadLetterQuarantined
<1> QED BY <1>3, <1>4, <1>5, <1>6, <1>7, <1>8, <1>9

\* A request that goes on with r.
LEMMA RequestGoesOn ==
    ASSUME JobsInv, NEW h \in Handlers, NEW pc \in ApiPc, NEW job \in Jobs \cup {None},
           pc # "none" => job \in Jobs,
           api' = [api EXCEPT ![h] = [pc |-> pc, job |-> job]]
    PROVE  /\ api' \in [Handlers -> [pc : ApiPc, job : Jobs \cup {None}]]
           /\ \A g \in Handlers : api'[g].pc # "none" => api'[g].job \in Jobs
BY DEF JobsInv, TypeOK, JobInHand

LEMMA CriarInv ==
    ASSUME JobsInv, NEW h \in Handlers, NEW j \in Jobs, CriarTodoEvento(h, j)
    PROVE  JobsInv'
<1> USE DEF JobsInv
<1>1. /\ UNCHANGED <<ready, delayed, processing, dlq, lease, wk, accepted, severed, robbed, faults>>
      /\ requests' \in Nat
  BY DEF CriarTodoEvento, redis, TypeOK
<1>2. /\ api' \in [Handlers -> [pc : ApiPc, job : Jobs \cup {None}]]
      /\ \A g \in Handlers : api'[g].pc # "none" => api'[g].job \in Jobs
  <2>1. \E pc \in {"publish", "existing"} : api' = [api EXCEPT ![h] = [pc |-> pc, job |-> j]]
    BY DEF CriarTodoEvento
  <2> QED BY <2>1, RequestGoesOn DEF ApiPc
<1>3. CASE doc[j] # None
  <2>1. doc' = doc
    BY <1>3 DEF CriarTodoEvento
  <2> QED BY <1>1, <1>2, <2>1, ApiQuiet DEF TypeOK
<1>4. CASE doc[j] = None
  <2>1. /\ doc'[j] = NewJob /\ \A k \in Jobs \ {j} : doc'[k] = doc[k]
        /\ doc' \in [Jobs -> JobDoc \cup {None}]
    <3>1. doc' = [doc EXCEPT ![j] = NewJob]
      BY <1>4 DEF CriarTodoEvento, Salvar
    <3> QED BY <3>1, NewJobType DEF TypeOK
  <2>2. /\ NewJob # None /\ NewJob.status = "QUEUED" /\ NewJob.tentativas = 0
        /\ NewJob.status \notin Terminal
    BY NewJobType DEF Terminal
  <2>3. \A k \in Jobs : Open(k)' <=> Open(k)
    BY <1>4, <2>1, <2>2 DEF Open
  <2>4. \A k \in Jobs : InFlight(k)' <=> InFlight(k)
    BY <1>4, <2>1, <2>2 DEF InFlight
  <2>5. TypeOK' /\ JobInHand'
    BY <1>1, <1>2, <2>1 DEF TypeOK, JobInHand
  <2>6. OwnLease'
    BY <1>1 DEF OwnLease, NoLapse
  <2>7. WorkersDoc'
    BY <1>1, <2>3 DEF WorkersDoc, NoLapse, JobInHand, HasJob, Holding, InService, Writing
  <2>8. Attempts'
    <3>1. FaultCount \in Nat /\ FaultCount' = FaultCount /\ (NoLapse' <=> NoLapse)
      BY <1>1, FaultCountType DEF FaultCount, NoLapse
    <3>2. \A k \in Jobs : Counting(k)' = Counting(k)
      BY <1>1, WorkersStay
    <3>3. 0 < MaxTentativas + FaultCount
      BY <3>1
    <3> QED BY <1>1, <2>1, <2>2, <2>3, <3>1, <3>2, <3>3 DEF Attempts
  <2>9. CarriedWithoutCrash' /\ SpareEntry'
    BY <1>1, <2>4, WorkersStay
    DEF CarriedWithoutCrash, Carried, InReady, SpareEntry, Whole, NoLapse, NoCrash
  <2>10. HeldEntries'
    BY <1>1, <2>3, WorkersStay DEF HeldEntries, Whole, NoLapse
  <2>11. DeadLetterQuarantined'
    BY <1>1, <2>1, <2>2, WorkersStay DEF DeadLetterQuarantined
  <2> QED BY <2>5, <2>6, <2>7, <2>8, <2>9, <2>10, <2>11
<1> QED BY <1>3, <1>4

LEMMA RemoverInv ==
    ASSUME JobsInv, NEW h \in Handlers, Remover(h)
    PROVE  JobsInv'
<1> USE DEF JobsInv
<1>1. PICK j \in Jobs : j = api[h].job
  BY DEF Remover, JobInHand
<1>2. /\ UNCHANGED <<ready, delayed, processing, dlq, lease, wk, accepted, robbed, faults, requests>>
      /\ severed' = severed \cup {j}
      /\ doc'[j] = None /\ \A k \in Jobs \ {j} : doc'[k] = doc[k]
      /\ doc' \in [Jobs -> JobDoc \cup {None}]
  BY <1>1 DEF Remover, redis, Salvar, TypeOK
<1>3. /\ api' \in [Handlers -> [pc : ApiPc, job : Jobs \cup {None}]]
      /\ \A g \in Handlers : api'[g].pc # "none" => api'[g].job \in Jobs
  BY DEF Remover, NoRequest, TypeOK, ApiPc, JobInHand
<1>4. TypeOK' /\ JobInHand'
  BY <1>1, <1>2, <1>3 DEF TypeOK, JobInHand
<1>5. OwnLease'
  BY <1>2 DEF OwnLease, NoLapse
<1>6. WorkersDoc'
  BY <1>2 DEF WorkersDoc, NoLapse, Open, JobInHand, HasJob, Holding, InService, Writing
<1>7. Attempts'
  <2>1. FaultCount' = FaultCount /\ (NoLapse' <=> NoLapse)
    BY <1>2 DEF FaultCount, NoLapse
  <2>2. \A k \in Jobs : Counting(k)' = Counting(k)
    BY <1>2, WorkersStay
  <2>3. \A k \in Jobs \ {j} : Open(k)' <=> Open(k)
    BY <1>2 DEF Open
  <2> QED BY <1>2, <2>1, <2>2, <2>3 DEF Attempts
<1>8. CarriedWithoutCrash' /\ SpareEntry'
  BY <1>2, WorkersStay
  DEF CarriedWithoutCrash, Carried, InReady, SpareEntry, Whole, NoLapse, NoCrash, InFlight
<1>9. HeldEntries'
  BY <1>2, WorkersStay DEF HeldEntries, Whole, NoLapse, Open
<1>10. DeadLetterQuarantined'
  BY <1>2, WorkersStay DEF DeadLetterQuarantined
<1> QED BY <1>4, <1>5, <1>6, <1>7, <1>8, <1>9, <1>10

\* The other steps of the requests.
LEMMA ApiInv ==
    ASSUME JobsInv, NEW h \in Handlers, ReplayObter(h) \/ Publicar(h) \/ HandlerCrash(h)
    PROVE  JobsInv'
<1> USE DEF JobsInv
<1>1. api[h].pc # "none" /\ api[h].job \in Jobs
  BY DEF ReplayObter, Publicar, HandlerCrash, JobInHand
<1>2. /\ api' \in [Handlers -> [pc : ApiPc, job : Jobs \cup {None}]]
      /\ \A g \in Handlers : api'[g].pc # "none" => api'[g].job \in Jobs
  <2>1. CASE api' = [api EXCEPT ![h] = NoRequest]
    BY <2>1, RequestGoesOn DEF NoRequest, ApiPc
  <2>2. ASSUME NEW pc \in {"republish", "remove"}, api' = [api EXCEPT ![h].pc = pc]
        PROVE  api' = [api EXCEPT ![h] = [pc |-> pc, job |-> api[h].job]]
    <3>1. PICK r \in [pc : ApiPc, job : Jobs \cup {None}] : r = api[h]
      BY DEF TypeOK
    <3>2. [r EXCEPT !.pc = pc] = [pc |-> pc, job |-> r.job]
      OBVIOUS
    <3> QED BY <2>2, <3>1, <3>2
  <2>3. \/ api' = [api EXCEPT ![h] = NoRequest]
        \/ \E pc \in {"republish", "remove"} : api' = [api EXCEPT ![h].pc = pc]
    BY DEF ReplayObter, Publicar, HandlerCrash
  <2> QED BY <1>1, <2>1, <2>2, <2>3, RequestGoesOn DEF ApiPc
<1>3. /\ UNCHANGED <<doc, delayed, processing, dlq, lease, wk, severed, robbed>>
      /\ ready' = ready \/ (\E x \in Jobs : ready' = Append(ready, x))
      /\ faults' = faults \/ faults' = [faults EXCEPT !["crash"] = @ + 1]
      /\ requests' \in Nat /\ accepted' \subseteq Jobs
  BY <1>1 DEF ReplayObter, Publicar, HandlerCrash, Fault, redis, TypeOK
<1> QED BY <1>2, <1>3, ApiQuiet

\* Leases that expire.
LEMMA LeaseInv ==
    ASSUME JobsInv, NEW k \in Jobs, LeaseExpires(k) \/ LeaseLapses(k)
    PROVE  JobsInv'
<1> USE DEF JobsInv
<1>1. /\ UNCHANGED <<doc, ready, delayed, processing, dlq, wk, api, accepted, severed, robbed,
                     requests>>
      /\ lease' = [lease EXCEPT ![k] = None]
      /\ \/ lease[k] = Dead /\ faults' = faults
         \/ faults' = [faults EXCEPT !["lapse"] = @ + 1]
  BY DEF LeaseExpires, LeaseLapses, Fault, past
<1>2. /\ faults' \in [FaultKinds -> Nat]
      /\ NoLapse' => NoLapse /\ lease[k] = Dead /\ FaultCount' = FaultCount
      /\ NoCrash' <=> NoCrash
  <2>1. CASE faults' = faults /\ lease[k] = Dead
    BY <2>1 DEF TypeOK, NoLapse, NoCrash, FaultCount
  <2>2. CASE faults' = [faults EXCEPT !["lapse"] = @ + 1]
    <3>1. /\ faults' \in [FaultKinds -> Nat] /\ faults'["lapse"] = faults["lapse"] + 1
          /\ faults'["crash"] = faults["crash"] /\ faults["lapse"] \in Nat
      BY <2>2, FaultAdds, FaultCountType DEF FaultKinds
    <3> QED BY <3>1 DEF NoLapse, NoCrash
  <2> QED BY <1>1, <2>1, <2>2
<1>3. TypeOK' /\ JobInHand'
  BY <1>1, <1>2 DEF TypeOK, JobInHand
<1>4. OwnLease'
  <2> SUFFICES ASSUME NoLapse', NEW w \in Workers,
                      wk[w].pc \in InService \cup {"confirm", "release"}
               PROVE  lease'[wk[w].job] = w
    BY <1>1 DEF OwnLease
  <2>1. lease[wk[w].job] = w /\ wk[w].job \in Jobs /\ w # Dead
    BY <1>2 DEF OwnLease, JobInHand, HasJob, Holding
  <2> QED BY <2>1, <1>1, <1>2 DEF TypeOK
<1>5. WorkersDoc'
  BY <1>1, <1>2 DEF WorkersDoc, Open
<1>6. Attempts'
  BY <1>1, <1>2, WorkersStay DEF Attempts, Open
<1>7. CarriedWithoutCrash'
  BY <1>1, <1>2, WorkersStay DEF CarriedWithoutCrash, Carried, InFlight, InReady
<1>8. HeldEntries' /\ SpareEntry'
  BY <1>1, <1>2, WorkersStay DEF HeldEntries, SpareEntry, Whole, Open, InFlight, InReady
<1>9. DeadLetterQuarantined'
  BY <1>1, WorkersStay DEF DeadLetterQuarantined
<1> QED BY <1>3, <1>4, <1>5, <1>6, <1>7, <1>8, <1>9

-----------------------------------------------------------------------------
(***************************************************************************)
(* Steps of a worker that has no job in service.                           *)
(***************************************************************************)
Worker == [pc : WorkerPc, job : Jobs \cup {None}, copy : JobDoc, todo : [Jobs -> Nat]]
Serving == InService \cup {"confirm", "release"}

\* One worker becomes n.
LEMMA OneMoves ==
    ASSUME TypeOK, NEW w \in Workers, NEW n \in Worker, wk' = [wk EXCEPT ![w] = n]
    PROVE  /\ wk' \in [Workers -> Worker]
           /\ wk'[w] = n /\ \A v \in Workers \ {w} : wk'[v] = wk[v]
BY DEF TypeOK, Worker

LEMMA AsideInv ==
    ASSUME JobsInv, NEW w \in Workers, NEW n \in Worker, wk' = [wk EXCEPT ![w] = n],
           wk[w].pc \notin Serving, n.pc \notin Serving, n.pc \in HasJob => n.job \in Jobs,
           UNCHANGED <<doc, dlq, lease, api, accepted, severed, faults, requests>>,
           ready' \in Seq(Jobs), delayed' \subseteq Jobs, processing' \in [Jobs -> Nat],
           robbed' \subseteq Jobs
    PROVE  /\ TypeOK' /\ JobInHand' /\ OwnLease' /\ WorkersDoc' /\ Attempts'
           /\ DeadLetterQuarantined'
<1> USE DEF JobsInv
<1>1. /\ wk' \in [Workers -> Worker]
      /\ wk'[w] = n /\ \A v \in Workers \ {w} : wk'[v] = wk[v]
  BY OneMoves
<1>2. TypeOK'
  BY <1>1 DEF TypeOK, Worker
<1>3. JobInHand'
  BY <1>1 DEF JobInHand, Serving, InService
<1>4. OwnLease'
  BY <1>1 DEF OwnLease, NoLapse, Serving
<1>5. WorkersDoc'
  BY <1>1 DEF WorkersDoc, NoLapse, Open, Serving, InService, Writing
<1>6. \A j \in Jobs : Counting(j)' <=> Counting(j)
  BY <1>1 DEF Counting, Serving, InService
<1>7. Attempts'
  BY <1>1, <1>6 DEF Attempts, NoLapse, FaultCount, Open, Serving, InService, Writing
<1>8. DeadLetterQuarantined'
  BY <1>1 DEF DeadLetterQuarantined, At, Serving, InService
<1> QED BY <1>2, <1>3, <1>4, <1>5, <1>7, <1>8

\* A worker outside of any job, while the main list may get entries.
Outside == {"off", "sweep", "sweep_lrem", "pending", "idle"}
LEMMA OutsideInv ==
    ASSUME JobsInv, NEW w \in Workers, NEW n \in Worker, wk' = [wk EXCEPT ![w] = n],
           wk[w].pc \in Outside, n.pc \in Outside, n.pc \in HasJob => n.job \in Jobs,
           UNCHANGED <<doc, processing, dlq, lease, api, past>>,
           ready' \in Seq(Jobs), delayed' \subseteq Jobs,
           \A j \in Jobs : j \in delayed \/ InReady(j) => j \in delayed' \/ InReady(j)'
    PROVE  JobsInv'
<1> USE DEF JobsInv
<1>1. /\ wk' \in [Workers -> Worker]
      /\ wk'[w] = n /\ \A v \in Workers \ {w} : wk'[v] = wk[v]
  BY OneMoves
<1>2. /\ TypeOK' /\ JobInHand' /\ OwnLease' /\ WorkersDoc' /\ Attempts'
      /\ DeadLetterQuarantined'
  BY AsideInv DEF Outside, Serving, InService, past, TypeOK
<1>3. ASSUME NEW j \in Jobs
      PROVE  /\ Holders(j)' = Holders(j)
             /\ Pushing(j)' <=> Pushing(j)
             /\ Confirming(j)' <=> Confirming(j)
             /\ Carried(j) => Carried(j)'
  <2>1. Holders(j)' = Holders(j)
    BY <1>1 DEF Holders, Outside, InService
  <2>2. Pushing(j)' <=> Pushing(j)
    BY <1>1 DEF Pushing, Outside
  <2>3. Confirming(j)' <=> Confirming(j)
    BY <1>1 DEF Confirming, Outside
  <2>4. Carried(j) => Carried(j)'
    BY <1>1 DEF Carried, Outside, Moving, InService
  <2> QED BY <2>1, <2>2, <2>3, <2>4
<1>4. CarriedWithoutCrash' /\ HeldEntries' /\ SpareEntry'
  BY <1>3 DEF CarriedWithoutCrash, HeldEntries, SpareEntry, NoCrash, NoLapse, Whole, Open,
              InFlight, past
<1> QED BY <1>2, <1>4

\* What a worker becomes when its place, its job or its list change.
LEMMA NewPlace ==
    ASSUME TypeOK, NEW w \in Workers, NEW pc \in WorkerPc,
           wk' = [wk EXCEPT ![w].pc = pc]
    PROVE  \E n \in Worker : /\ wk' = [wk EXCEPT ![w] = n]
                            /\ n.pc = pc /\ n.job = wk[w].job
                            /\ n.copy = wk[w].copy
<1>1. PICK r \in Worker : r = wk[w]
  BY DEF TypeOK, Worker
<1>2. wk \in [Workers -> Worker]
  BY DEF TypeOK, Worker
<1>3. PICK n \in Worker : n = [r EXCEPT !.pc = pc]
  BY DEF Worker
<1>4. wk' = [wk EXCEPT ![w] = n]
  BY <1>1, <1>2, <1>3
<1>5. n.pc = pc /\ n.job = r.job /\ n.copy = r.copy
  BY <1>3 DEF Worker
<1> QED BY <1>1, <1>4, <1>5

LEMMA NewPlaceAndList ==
    ASSUME TypeOK, NEW w \in Workers, NEW pc \in WorkerPc, NEW todo \in [Jobs -> Nat],
           wk' = [wk EXCEPT ![w].pc = pc, ![w].todo = todo]
    PROVE  \E n \in Worker : /\ wk' = [wk EXCEPT ![w] = n]
                            /\ n.pc = pc /\ n.job = wk[w].job
                            /\ n.copy = wk[w].copy
<1>1. PICK r \in Worker : r = wk[w]
  BY DEF TypeOK, Worker
<1>2. wk \in [Workers -> Worker]
  BY DEF TypeOK, Worker
<1>3. PICK n \in Worker : n = [r EXCEPT !.pc = pc, !.todo = todo]
  BY DEF Worker
<1>4. wk' = [wk EXCEPT ![w] = n]
  BY <1>1, <1>2, <1>3
<1>5. n.pc = pc /\ n.job = r.job /\ n.copy = r.copy
  BY <1>3 DEF Worker
<1> QED BY <1>1, <1>4, <1>5

LEMMA NewList ==
    ASSUME TypeOK, NEW w \in Workers, NEW todo \in [Jobs -> Nat],
           wk' = [wk EXCEPT ![w].todo = todo]
    PROVE  \E n \in Worker : /\ wk' = [wk EXCEPT ![w] = n]
                            /\ n.pc = wk[w].pc /\ n.job = wk[w].job
                            /\ n.copy = wk[w].copy
<1>1. PICK r \in Worker : r = wk[w]
  BY DEF TypeOK, Worker
<1>2. wk \in [Workers -> Worker]
  BY DEF TypeOK, Worker
<1>3. PICK n \in Worker : n = [r EXCEPT !.todo = todo]
  BY DEF Worker
<1>4. wk' = [wk EXCEPT ![w] = n]
  BY <1>1, <1>2, <1>3
<1>5. n.pc = r.pc /\ n.job = r.job /\ n.copy = r.copy
  BY <1>3 DEF Worker
<1> QED BY <1>1, <1>4, <1>5

\* A push to the main list.
LEMMA Push ==
    ASSUME TypeOK, NEW x \in Jobs, ready' = Append(ready, x)
    PROVE  ready' \in Seq(Jobs) /\ InReady(x)' /\ \A j \in Jobs : InReady(j) => InReady(j)'
<1>1. ready \in Seq(Jobs)
  BY DEF TypeOK
<1>2. ASSUME NEW j \in Jobs
      PROVE  ready' \in Seq(Jobs) /\ InReady(x)' /\ (InReady(j) => InReady(j)')
  BY <1>1, AppendEntries DEF InReady
<1>3. ready' \in Seq(Jobs) /\ InReady(x)'
  BY <1>2
<1> QED BY <1>2, <1>3

\* A worker that has ended its round, or starts.
LEMMA OffType ==
    ASSUME NEW pc \in WorkerPc, NEW todo \in [Jobs -> Nat]
    PROVE  /\ Off \in Worker /\ Off.pc = "off" /\ Off.job = None
           /\ [Off EXCEPT !.pc = pc] \in Worker
           /\ [Off EXCEPT !.pc = pc].pc = pc /\ [Off EXCEPT !.pc = pc].job = None
           /\ [Off EXCEPT !.pc = pc, !.todo = todo] \in Worker
           /\ [Off EXCEPT !.pc = pc, !.todo = todo].pc = pc
           /\ [Off EXCEPT !.pc = pc, !.todo = todo].job = None
<1>1. PICK r \in Worker : r = Off
  BY NewJobType DEF Off, Worker, WorkerPc, NoJobs
<1>2. r.pc = "off" /\ r.job = None
  BY <1>1 DEF Off
<1>3. /\ [r EXCEPT !.pc = pc] \in Worker
      /\ [r EXCEPT !.pc = pc].pc = pc /\ [r EXCEPT !.pc = pc].job = None
      /\ [r EXCEPT !.pc = pc, !.todo = todo] \in Worker
      /\ [r EXCEPT !.pc = pc, !.todo = todo].pc = pc
      /\ [r EXCEPT !.pc = pc, !.todo = todo].job = None
  BY <1>2 DEF Worker
<1> QED BY <1>1, <1>2, <1>3

\* The start of a worker and the promotion of retries.
LEMMA StartInv ==
    ASSUME JobsInv, NEW w \in Workers,
           \/ Iniciar(w) \/ Listar(w) \/ WorkerIniciado(w)
           \/ \E j \in Jobs : SweepExists(w, j) \/ PublicarPendente(w, j)
                                                 \/ PromoverAtrasados(w, j)
    PROVE  JobsInv'
<1> USE DEF JobsInv
<1>0. ready \in Seq(Jobs) /\ delayed \subseteq Jobs /\ wk[w].todo \in [Jobs -> Nat]
      /\ NoJobs \in [Jobs -> Nat]
  BY WorkerFields DEF TypeOK, NoJobs
<1>1. CASE Iniciar(w)
  <2>1. processing \in [Jobs -> Nat]
    BY DEF TypeOK
  <2>2. PICK n : n = [Off EXCEPT !.pc = "sweep", !.todo = processing]
    OBVIOUS
  <2>3. n \in Worker /\ n.pc = "sweep" /\ n.pc \notin HasJob
    <3>1. "sweep" \in WorkerPc /\ "sweep" \notin HasJob
      BY DEF WorkerPc, HasJob, Holding, InService
    <3> QED BY <2>1, <2>2, <3>1, OffType
  <2>4. wk' = [wk EXCEPT ![w] = n] /\ wk[w].pc = "off"
        /\ UNCHANGED <<doc, ready, delayed, processing, dlq, lease, api, past>>
    BY <1>1, <2>2 DEF Iniciar, At, redis
  <2> QED BY <1>0, <2>3, <2>4, OutsideInv DEF Outside, InReady
<1>2. CASE Listar(w)
  <2>1. PICK todo \in [Jobs -> Nat] :
            todo = [j \in Jobs |-> IF doc[j] # None /\ doc[j].status = "QUEUED" THEN 1 ELSE 0]
    OBVIOUS
  <2>2. wk' = [wk EXCEPT ![w].pc = "pending", ![w].todo = todo] /\ wk[w].pc = "sweep"
        /\ UNCHANGED <<doc, ready, delayed, processing, dlq, lease, api, past>>
    BY <1>2, <2>1 DEF Listar, At, redis
  <2>3. "pending" \in WorkerPc /\ "pending" \notin HasJob
    BY DEF WorkerPc, HasJob, Holding, InService
  <2>4. PICK n \in Worker : /\ wk' = [wk EXCEPT ![w] = n]
                           /\ n.pc = "pending" /\ n.job = wk[w].job
                           /\ n.copy = wk[w].copy
    BY <2>2, <2>3, NewPlaceAndList, Zenon
  <2> QED BY <1>0, <2>2, <2>3, <2>4, OutsideInv DEF Outside, InReady
<1>3. CASE WorkerIniciado(w)
  <2>1. wk' = [wk EXCEPT ![w].pc = "idle"] /\ wk[w].pc = "pending"
        /\ UNCHANGED <<doc, ready, delayed, processing, dlq, lease, api, past>>
    BY <1>3 DEF WorkerIniciado, Goto, At, redis
  <2>2. "idle" \in WorkerPc /\ "idle" \notin HasJob
    BY DEF WorkerPc, HasJob, Holding, InService
  <2>3. PICK n \in Worker : /\ wk' = [wk EXCEPT ![w] = n]
                           /\ n.pc = "idle" /\ n.job = wk[w].job
                           /\ n.copy = wk[w].copy
    BY <2>1, <2>2, NewPlace, Zenon
  <2> QED BY <1>0, <2>1, <2>2, <2>3, OutsideInv DEF Outside, InReady
<1>4. ASSUME NEW j \in Jobs, SweepExists(w, j) PROVE JobsInv'
  <2>1. PICK todo \in [Jobs -> Nat] : todo = [wk[w].todo EXCEPT ![j] = @ - 1]
    <3>1. wk[w].todo[j] \in Nat /\ wk[w].todo[j] > 0
      BY <1>0, <1>4 DEF SweepExists
    <3>2. PICK t \in [Jobs -> Nat] : t = wk[w].todo
      BY <1>0
    <3>3. [t EXCEPT ![j] = @ - 1] \in [Jobs -> Nat]
      BY <3>1, <3>2
    <3> QED BY <3>2, <3>3
  <2>2. PICK pc \in {"sweep", "sweep_lrem"}, job \in {j, None} :
            /\ pc = IF lease[j] = None THEN "sweep_lrem" ELSE "sweep"
            /\ job = IF lease[j] = None THEN j ELSE None
    OBVIOUS
  <2>3. wk' = [wk EXCEPT ![w].todo = todo, ![w].pc = pc, ![w].job = job]
    <3>1. wk[w].pc = "sweep"
      BY <1>4 DEF SweepExists, At
    <3>2. wk' = [wk EXCEPT ![w].todo[j] = @ - 1, ![w].pc = pc, ![w].job = job]
      BY <1>4, <2>2, <3>1 DEF SweepExists
    <3>3. wk \in [Workers -> Worker]
      BY DEF TypeOK, Worker
    <3> QED BY <2>1, <3>2, <3>3 DEF Worker
  <2>4. wk[w].pc = "sweep"
        /\ UNCHANGED <<doc, ready, delayed, processing, dlq, lease, api, past>>
    BY <1>4 DEF SweepExists, At, redis
  <2>5. pc \in WorkerPc /\ job \in Jobs \cup {None} /\ (pc \in HasJob => job \in Jobs)
    BY <2>2 DEF WorkerPc, HasJob, Holding, InService
  <2>6. PICK n \in Worker : /\ wk' = [wk EXCEPT ![w] = n]
                           /\ n.pc = pc /\ n.job = job
                           /\ n.copy = wk[w].copy
    <3>1. PICK r \in Worker : r = wk[w]
      BY DEF TypeOK, Worker
    <3>2. wk \in [Workers -> Worker]
      BY DEF TypeOK, Worker
    <3>3. PICK n \in Worker : n = [r EXCEPT !.todo = todo, !.pc = pc, !.job = job]
      BY <2>5 DEF Worker
    <3>4. wk' = [wk EXCEPT ![w] = n]
      BY <2>3, <3>1, <3>2, <3>3
    <3>5. n.pc = pc /\ n.job = job /\ n.copy = r.copy
      BY <3>3 DEF Worker
    <3> QED BY <3>1, <3>4, <3>5
  <2> QED BY <1>0, <2>4, <2>5, <2>6, OutsideInv DEF Outside, InReady
<1>5. ASSUME NEW j \in Jobs, PublicarPendente(w, j) PROVE JobsInv'
  <2>1. PICK todo \in [Jobs -> Nat] : todo = IF Full THEN NoJobs ELSE [wk[w].todo EXCEPT ![j] = 0]
    BY <1>0
  <2>2. /\ wk' = [wk EXCEPT ![w].todo = todo] /\ wk[w].pc = "pending"
        /\ ready' = ready \/ ready' = Append(ready, j)
        /\ UNCHANGED <<doc, delayed, processing, dlq, lease, api, past>>
    BY <1>5, <2>1 DEF PublicarPendente, At
  <2>3. "pending" \in WorkerPc /\ "pending" \notin HasJob
    BY DEF WorkerPc, HasJob, Holding, InService
  <2>4. PICK n \in Worker : /\ wk' = [wk EXCEPT ![w] = n]
                           /\ n.pc = wk[w].pc /\ n.job = wk[w].job
                           /\ n.copy = wk[w].copy
    BY <2>2, <2>3, NewList, Zenon
  <2>5. ready' \in Seq(Jobs) /\ \A k \in Jobs : InReady(k) => InReady(k)'
    BY <1>0, <2>2, Push DEF InReady
  <2>6. /\ n.pc = "pending" /\ delayed' \subseteq Jobs
        /\ \A k \in Jobs : k \in delayed \/ InReady(k) => k \in delayed' \/ InReady(k)'
    BY <1>0, <2>2, <2>4, <2>5
  <2>7. /\ wk[w].pc \in Outside /\ n.pc \in Outside /\ (n.pc \in HasJob => n.job \in Jobs)
        /\ UNCHANGED <<doc, processing, dlq, lease, api, past>>
    BY <2>2, <2>3, <2>6 DEF Outside
  <2> HIDE DEF JobsInv
  <2> QED BY <2>4, <2>5, <2>6, <2>7, OutsideInv
<1>6. ASSUME NEW j \in Jobs, PromoverAtrasados(w, j) PROVE JobsInv'
  <2>1. /\ wk' = wk /\ wk[w].pc = "idle" /\ delayed' = delayed \ {j}
        /\ ready' = Append(ready, j)
        /\ UNCHANGED <<doc, processing, dlq, lease, api, past>>
    BY <1>6 DEF PromoverAtrasados, At
  <2>2. PICK n \in Worker : n = wk[w]
    BY DEF TypeOK, Worker
  <2>3. wk' = [wk EXCEPT ![w] = n]
    BY <2>1, <2>2 DEF TypeOK
  <2>4. "idle" \notin HasJob
    BY DEF HasJob, Holding, InService
  <2>5. ready' \in Seq(Jobs) /\ InReady(j)' /\ \A k \in Jobs : InReady(k) => InReady(k)'
    BY <2>1, Push
  <2> QED BY <1>0, <2>1, <2>2, <2>3, <2>4, <2>5, OutsideInv DEF Outside
<1> QED BY <1>1, <1>2, <1>3, <1>4, <1>5, <1>6

\* LREM of one entry.
LEMMA LremEffect ==
    ASSUME TypeOK, NEW j \in Jobs, Lrem(j)
    PROVE  /\ processing' \in [Jobs -> Nat] /\ processing[j] \in Nat
           /\ processing[j] > 0 => processing'[j] = processing[j] - 1
           /\ processing[j] = 0 => processing'[j] = 0
           /\ \A k \in Jobs \ {j} : processing'[k] = processing[k]
BY DEF TypeOK, Lrem

\* The two entry invariants say nothing that a job's bystanders can change.
SameJob(k) ==
    /\ Holders(k)' = Holders(k) /\ processing'[k] = processing[k]
    /\ Pushing(k) => Pushing(k)'
    /\ Confirming(k)' => Confirming(k)
    /\ InReady(k) => InReady(k)'
    /\ k \in delayed => k \in delayed'
LEMMA Bystander ==
    ASSUME JobsInv, NEW k \in Jobs, SameJob(k), Whole(k)' => Whole(k)
    PROVE  /\ (Whole(k)' /\ Open(k)) => Cardinality(Holders(k)') <= processing'[k]
           /\ (Whole(k)' /\ InFlight(k)) =>
                 \/ k \in delayed' \/ InReady(k)' \/ Pushing(k)'
                 \/ processing'[k] > (IF Confirming(k)' THEN 1 ELSE 0)
<1>1. (Whole(k)' /\ Open(k)) => Cardinality(Holders(k)') <= processing'[k]
  BY DEF JobsInv, HeldEntries, SameJob
<1>2. ASSUME Whole(k)', InFlight(k)
      PROVE  \/ k \in delayed' \/ InReady(k)' \/ Pushing(k)'
             \/ processing'[k] > (IF Confirming(k)' THEN 1 ELSE 0)
  <2>1. processing[k] \in Nat
    BY DEF JobsInv, TypeOK
  <2>2. \/ k \in delayed \/ InReady(k) \/ Pushing(k)
        \/ processing[k] > (IF Confirming(k) THEN 1 ELSE 0)
    BY <1>2 DEF JobsInv, SpareEntry
  <2> QED BY <2>1, <2>2 DEF SameJob
<1> QED BY <1>1, <1>2

LEMMA SweepLremInv ==
    ASSUME JobsInv, NEW w \in Workers, SweepLrem(w)
    PROVE  JobsInv'
<1> USE DEF JobsInv
<1>1. PICK j \in Jobs : j = wk[w].job /\ wk[w].pc = "sweep_lrem"
  BY DEF SweepLrem, At, JobInHand, HasJob
<1>2. /\ processing' \in [Jobs -> Nat] /\ processing[j] \in Nat
      /\ processing[j] > 0 => processing'[j] = processing[j] - 1
      /\ processing[j] = 0 => processing'[j] = 0
      /\ \A k \in Jobs \ {j} : processing'[k] = processing[k]
  BY <1>1, LremEffect DEF SweepLrem
<1>3. PICK pc \in WorkerPc, job \in Jobs \cup {None} :
          /\ pc = IF processing[j] > 0 THEN "sweep_push" ELSE "sweep"
          /\ job = IF processing[j] > 0 THEN j ELSE None
  BY DEF WorkerPc
<1>4. wk' = [wk EXCEPT ![w].pc = pc, ![w].job = job]
  BY <1>1, <1>3 DEF SweepLrem
<1>5. pc \in HasJob => job \in Jobs
  BY <1>3 DEF WorkerPc, HasJob, Holding, InService
<1>6. PICK n \in Worker : /\ wk' = [wk EXCEPT ![w] = n]
                         /\ n.pc = pc /\ n.job = job
                         /\ n.copy = wk[w].copy
  <2>1. PICK r \in Worker : r = wk[w]
    BY DEF TypeOK, Worker
  <2>2. wk \in [Workers -> Worker]
    BY DEF TypeOK, Worker
  <2>3. PICK n \in Worker : n = [r EXCEPT !.pc = pc, !.job = job]
    BY DEF Worker
  <2>4. wk' = [wk EXCEPT ![w] = n]
    BY <1>4, <2>1, <2>2, <2>3
  <2>5. n.pc = pc /\ n.job = job /\ n.copy = r.copy
    BY <2>3 DEF Worker
  <2> QED BY <2>1, <2>4, <2>5
<1>7. /\ UNCHANGED <<doc, ready, delayed, dlq, lease, api, accepted, severed, faults, requests>>
      /\ robbed' = IF processing[j] > Cardinality(Holders(j)) THEN robbed ELSE robbed \cup {j}
  BY <1>1 DEF SweepLrem
<1>8. /\ wk' \in [Workers -> Worker]
      /\ wk'[w] = n /\ \A v \in Workers \ {w} : wk'[v] = wk[v]
  BY <1>6, OneMoves
<1>9. /\ TypeOK' /\ JobInHand' /\ OwnLease' /\ WorkersDoc' /\ Attempts'
      /\ DeadLetterQuarantined'
  <2>1. wk[w].pc \notin Serving /\ n.pc \notin Serving
    BY <1>1, <1>3, <1>6 DEF Serving, InService
  <2>2. ready' \in Seq(Jobs) /\ delayed' \subseteq Jobs /\ robbed' \subseteq Jobs
    BY <1>7 DEF TypeOK
  <2> HIDE DEF JobsInv
  <2> QED BY <1>2, <1>5, <1>6, <1>7, <2>1, <2>2, AsideInv
<1>10. ASSUME NEW k \in Jobs
       PROVE  /\ Holders(k)' = Holders(k) /\ (Confirming(k)' <=> Confirming(k))
              /\ (Pushing(k) => Pushing(k)') /\ (Carried(k) => Carried(k)')
              /\ (processing[k] > 0 /\ k = j => Pushing(k)')
              /\ (InReady(k)' <=> InReady(k)) /\ (Whole(k)' => Whole(k))
              /\ (InFlight(k)' <=> InFlight(k)) /\ (Open(k)' <=> Open(k))
  <2>1. Holders(k)' = Holders(k)
    BY <1>1, <1>3, <1>6, <1>8 DEF Holders, InService
  <2>2. Confirming(k)' <=> Confirming(k)
    BY <1>1, <1>3, <1>6, <1>8 DEF Confirming
  <2>3. Pushing(k) => Pushing(k)'
    BY <1>1, <1>8 DEF Pushing
  <2>4. Carried(k) => Carried(k)'
    BY <1>1, <1>7, <1>8 DEF Carried, InReady, Moving, InService
  <2>5. processing[k] > 0 /\ k = j => Pushing(k)'
    BY <1>3, <1>6, <1>8 DEF Pushing
  <2>6. (InReady(k)' <=> InReady(k)) /\ (Whole(k)' => Whole(k))
        /\ (InFlight(k)' <=> InFlight(k)) /\ (Open(k)' <=> Open(k))
    BY <1>7 DEF InReady, Whole, NoLapse, InFlight, Open
  <2> QED BY <2>1, <2>2, <2>3, <2>4, <2>5, <2>6
<1>11. CarriedWithoutCrash'
  BY <1>7, <1>10 DEF CarriedWithoutCrash, NoCrash
<1>12. HeldEntries' /\ SpareEntry'
  <2> SUFFICES ASSUME NEW k \in Jobs
               PROVE  /\ (Whole(k)' /\ Open(k)) => Cardinality(Holders(k)') <= processing'[k]
                      /\ (Whole(k)' /\ InFlight(k)) =>
                            \/ k \in delayed' \/ InReady(k)' \/ Pushing(k)'
                            \/ processing'[k] > (IF Confirming(k)' THEN 1 ELSE 0)
    BY <1>10 DEF HeldEntries, SpareEntry
  <2>1. CASE k # j
    BY <2>1, <1>2, <1>7, <1>10, Bystander DEF SameJob
  <2>2. CASE k = j
    <3>1. Whole(k)' => processing[j] > Cardinality(Holders(j))
      BY <2>2, <1>7 DEF Whole
    <3>2. Cardinality(Holders(j)) \in Nat
      BY HoldersFinite
    <3> QED BY <2>2, <3>1, <3>2, <1>2, <1>10
  <2> QED BY <2>1, <2>2
<1> QED BY <1>9, <1>11, <1>12

-----------------------------------------------------------------------------
(***************************************************************************)
(* Steps of a worker with a job.  What the invariant says of one job, and  *)
(* that a step of a worker only disturbs it for the job it has in hand.    *)
(***************************************************************************)
LeaseOf(j) ==
    NoLapse => \A v \in Workers : wk[v].job = j /\ wk[v].pc \in Serving => lease[j] = v
DocOf(j) ==
    NoLapse => \A v \in Workers : wk[v].job = j =>
        /\ wk[v].pc \in Writing => Open(j)
        /\ wk[v].pc = "quarantine" /\ j \notin severed => ~Open(j)
CountOf(j) ==
    NoLapse /\ doc[j] # None =>
        /\ doc[j].tentativas <= MaxTentativas + FaultCount
        /\ (Open(j) /\ ~Counting(j)) => doc[j].tentativas < MaxTentativas + FaultCount
CarriedOf(j) == NoCrash /\ j \notin severed /\ InFlight(j) => Carried(j)
HeldOf(j)    == Whole(j) /\ Open(j) => Cardinality(Holders(j)) <= processing[j]
SpareOf(j)   == Whole(j) /\ InFlight(j) =>
                    \/ j \in delayed \/ InReady(j) \/ Pushing(j)
                    \/ processing[j] > (IF Confirming(j) THEN 1 ELSE 0)
InQuarantine(j) == \E w \in Workers : At(w, "quarantine") /\ wk[w].job = j
DlqOf(j)     == (j \notin severed /\ doc[j] # None /\ doc[j].status = "DEAD_LETTER")
                    => j \in dlq \/ InQuarantine(j)
ForJob(j) ==
    /\ LeaseOf(j) /\ DocOf(j) /\ CountOf(j) /\ CarriedOf(j)
    /\ HeldOf(j) /\ SpareOf(j) /\ DlqOf(j)

\* What the invariant says of the workers' copies.
CopyOf(w) ==
    /\ wk[w].pc = "begin" => wk[w].copy.status = "PROCESSING"
    /\ NoLapse /\ wk[w].pc \in Writing =>
          wk[w].copy.tentativas <= MaxTentativas + FaultCount
    /\ NoLapse /\ wk[w].pc \in {"retry", "overflow"} => wk[w].copy.tentativas < MaxTentativas

\* The invariant, job by job.
JobByJob ==
    /\ TypeOK /\ \A w \in Workers : wk[w].pc \in HasJob => wk[w].job \in Jobs
    /\ \A h \in Handlers : api[h].pc # "none" => api[h].job \in Jobs
    /\ \A w \in Workers : CopyOf(w)
    /\ \A j \in Jobs : ForJob(j)
LEMMA ByJobs == JobsInv <=> JobByJob
<1>1. ASSUME \A w \in Workers : wk[w].pc \in HasJob => wk[w].job \in Jobs
      PROVE  /\ OwnLease <=> \A j \in Jobs : LeaseOf(j)
             /\ WorkersDoc <=> \A j \in Jobs : DocOf(j)
  <2>1. \A w \in Workers : wk[w].pc \in Serving \cup Writing => wk[w].job \in Jobs
    BY <1>1 DEF HasJob, Holding, Serving, Writing, InService
  <2>2. "quarantine" \in Serving
    BY DEF Serving, InService
  <2>3. OwnLease <=> \A j \in Jobs : LeaseOf(j)
    BY <2>1 DEF OwnLease, LeaseOf, Serving
  <2>4. WorkersDoc <=> \A j \in Jobs : DocOf(j)
    BY <2>1, <2>2 DEF WorkersDoc, DocOf
  <2> QED BY <2>3, <2>4
<1>2. /\ CarriedWithoutCrash <=> \A j \in Jobs : CarriedOf(j)
      /\ HeldEntries <=> \A j \in Jobs : HeldOf(j)
      /\ SpareEntry <=> \A j \in Jobs : SpareOf(j)
      /\ DeadLetterQuarantined <=> \A j \in Jobs : DlqOf(j)
  BY DEF CarriedWithoutCrash, CarriedOf, HeldEntries, HeldOf, SpareEntry, SpareOf,
         DeadLetterQuarantined, DlqOf, InQuarantine
<1>3. /\ (\A w \in Workers : wk[w].pc \in HasJob => wk[w].job \in Jobs)
         /\ (\A h \in Handlers : api[h].pc # "none" => api[h].job \in Jobs) /\ Attempts
         /\ (\A w \in Workers : wk[w].pc = "begin" => wk[w].copy.status = "PROCESSING")
      <=> /\ \A w \in Workers : wk[w].pc \in HasJob => wk[w].job \in Jobs
          /\ \A h \in Handlers : api[h].pc # "none" => api[h].job \in Jobs
          /\ \A w \in Workers : CopyOf(w)
          /\ \A j \in Jobs : CountOf(j)
  BY DEF Attempts, CopyOf, CountOf
<1> QED BY <1>1, <1>2, <1>3 DEF JobsInv, JobByJob, JobInHand, ForJob

\* The variables of the repository and the queue have their types.
StoreOK ==
    /\ doc \in [Jobs -> JobDoc \cup {None}]
    /\ ready \in Seq(Jobs) /\ delayed \subseteq Jobs /\ dlq \subseteq Jobs
    /\ processing \in [Jobs -> Nat] /\ lease \in [Jobs -> Workers \cup {Dead, None}]
\* A step of w disturbs no job but j, and faults are only added.
Spares(w, j) ==
    \A k \in Jobs \ {j} :
        /\ doc'[k] = doc[k] /\ processing'[k] = processing[k]
        /\ \A v \in Workers \ {w} : lease[k] = v => lease'[k] = v
        /\ k \in delayed \/ InReady(k) => k \in delayed' \/ InReady(k)'
        /\ k \in dlq => k \in dlq'
FaultsAdd(j) ==
    /\ faults' \in [FaultKinds -> Nat] /\ FaultCount \in Nat /\ FaultCount' \in Nat
    /\ FaultCount <= FaultCount' /\ (NoLapse' => NoLapse) /\ (NoCrash' => NoCrash)
    /\ severed' \subseteq Jobs /\ (severed' = severed \/ severed' = severed \cup {j})
    /\ UNCHANGED <<api, accepted, robbed, requests>>

LEMMA PastStays ==
    ASSUME TypeOK, UNCHANGED <<api, past>>, NEW j
    PROVE  /\ FaultsAdd(j) /\ FaultCount' = FaultCount /\ (NoLapse' <=> NoLapse)
           /\ (NoCrash' <=> NoCrash) /\ severed' = severed /\ robbed' = robbed
           /\ (Whole(j)' <=> Whole(j))
<1>1. FaultCount \in Nat /\ faults' = faults /\ UNCHANGED <<accepted, severed, robbed, requests>>
  BY FaultCountType DEF past
<1>2. FaultCount' = FaultCount
  BY <1>1 DEF FaultCount
<1> QED BY <1>1, <1>2 DEF FaultsAdd, NoLapse, NoCrash, TypeOK, Whole

\* What a step of w does to who has a job k that is not its own.
LEMMA OtherJob ==
    ASSUME TypeOK, NEW w \in Workers, NEW n \in Worker, wk' = [wk EXCEPT ![w] = n],
           NEW j, wk[w].pc \in HasJob => wk[w].job = j, n.pc \in HasJob => n.job = j,
           NEW k, k # j
    PROVE  /\ Holders(k)' = Holders(k) /\ (Pushing(k)' <=> Pushing(k))
           /\ (Confirming(k)' <=> Confirming(k)) /\ (Counting(k)' <=> Counting(k))
           /\ (\E v \in Workers : wk'[v].job = k /\ wk'[v].pc \in Moving)
                 <=> (\E v \in Workers : wk[v].job = k /\ wk[v].pc \in Moving)
           /\ InQuarantine(k)' <=> InQuarantine(k)
<1>1. /\ wk' \in [Workers -> Worker]
      /\ wk'[w] = n /\ \A v \in Workers \ {w} : wk'[v] = wk[v]
  BY OneMoves
<1>2. \A v \in Workers : (wk'[v].pc \in HasJob /\ wk'[v].job = k) <=> (wk[v].pc \in HasJob /\ wk[v].job = k)
  BY <1>1
<1>3. Moving \subseteq HasJob /\ Holding \subseteq HasJob
  BY DEF Moving, HasJob, Holding, InService
<1>4. \A v \in Workers : wk[v].job = k /\ wk[v].pc \in HasJob => wk'[v] = wk[v]
  BY <1>1
<1>5. \A v \in Workers : wk'[v].job = k /\ wk'[v].pc \in HasJob => wk'[v] = wk[v]
  BY <1>1
<1>6. Holders(k)' = Holders(k)
  BY <1>3, <1>4, <1>5 DEF Holders, Holding
<1>7. (Pushing(k)' <=> Pushing(k)) /\ (Confirming(k)' <=> Confirming(k))
      /\ (Counting(k)' <=> Counting(k))
  BY <1>4, <1>5 DEF Pushing, Confirming, Counting, HasJob, Holding, InService
<1>8. (\E v \in Workers : wk'[v].job = k /\ wk'[v].pc \in Moving)
                 <=> (\E v \in Workers : wk[v].job = k /\ wk[v].pc \in Moving)
  BY <1>3, <1>4, <1>5
<1>9. InQuarantine(k)' <=> InQuarantine(k)
  BY <1>4, <1>5 DEF InQuarantine, At, HasJob, Holding, InService
<1> QED BY <1>6, <1>7, <1>8, <1>9

\* It is enough to look at the job that the worker has in hand.
LEMMA JobStep ==
    ASSUME JobsInv, NEW w \in Workers, NEW n \in Worker, wk' = [wk EXCEPT ![w] = n],
           NEW j, wk[w].pc \in HasJob => wk[w].job = j,
           n.pc \in HasJob => n.job = j /\ j \in Jobs,
           StoreOK', Spares(w, j), FaultsAdd(j), CopyOf(w)', j \in Jobs => ForJob(j)'
    PROVE  JobsInv'
<1>1. /\ wk' \in [Workers -> Worker]
      /\ wk'[w] = n /\ \A v \in Workers \ {w} : wk'[v] = wk[v]
  BY OneMoves DEF JobsInv
<1>2. TypeOK'
  BY <1>1 DEF JobsInv, TypeOK, Worker, StoreOK, FaultsAdd
<1>3. /\ \A v \in Workers : wk'[v].pc \in HasJob => wk'[v].job \in Jobs
      /\ \A h \in Handlers : api'[h].pc # "none" => api'[h].job \in Jobs
  BY <1>1 DEF JobsInv, JobInHand, FaultsAdd
<1>4. ASSUME NEW v \in Workers PROVE CopyOf(v)'
  <2>1. CASE v = w
    BY <2>1
  <2>2. CASE v # w
    <3>1. CopyOf(v) /\ wk'[v] = wk[v]
      BY <1>1, <2>2, ByJobs DEF JobByJob
    <3>2. wk[v].copy.tentativas \in Nat
      BY WorkerFields DEF JobsInv
    <3> QED BY <3>1, <3>2 DEF CopyOf, FaultsAdd
  <2> QED BY <2>1, <2>2
<1>5. ASSUME NEW k \in Jobs, k # j PROVE ForJob(k)'
  <2>1. ForJob(k)
    BY ByJobs DEF JobByJob
  <2>2. /\ Holders(k)' = Holders(k) /\ (Pushing(k)' <=> Pushing(k))
        /\ (Confirming(k)' <=> Confirming(k)) /\ (Counting(k)' <=> Counting(k))
        /\ (\E v \in Workers : wk'[v].job = k /\ wk'[v].pc \in Moving)
              <=> (\E v \in Workers : wk[v].job = k /\ wk[v].pc \in Moving)
        /\ InQuarantine(k)' <=> InQuarantine(k)
    <3>1. TypeOK /\ (n.pc \in HasJob => n.job = j) /\ k # j
      BY <1>5 DEF JobsInv
    <3> QED BY <3>1, OtherJob
  <2>3. /\ doc'[k] = doc[k] /\ processing'[k] = processing[k]
        /\ \A v \in Workers \ {w} : lease[k] = v => lease'[k] = v
        /\ k \in delayed \/ InReady(k) => k \in delayed' \/ InReady(k)'
        /\ k \in dlq => k \in dlq'
    BY <1>5 DEF Spares
  <2>4. /\ FaultCount \in Nat /\ FaultCount' \in Nat
        /\ FaultCount <= FaultCount' /\ (NoLapse' => NoLapse) /\ (NoCrash' => NoCrash)
        /\ (k \in severed' <=> k \in severed) /\ (k \in robbed' <=> k \in robbed)
        /\ (Whole(k)' => Whole(k))
    BY <1>5 DEF FaultsAdd, Whole
  <2>5. (Open(k)' <=> Open(k)) /\ (InFlight(k)' <=> InFlight(k))
    BY <2>3 DEF Open, InFlight
  <2>6. \A v \in Workers : wk'[v].job = k /\ wk'[v].pc \in HasJob => v # w /\ wk'[v] = wk[v]
    BY <1>1, <1>5
  <2>7. Serving \subseteq HasJob /\ Writing \subseteq HasJob /\ "quarantine" \in HasJob
    BY DEF Serving, Writing, HasJob, Holding, InService
  <2>8. LeaseOf(k)'
    BY <2>1, <2>3, <2>4, <2>6, <2>7 DEF ForJob, LeaseOf
  <2>9. DocOf(k)'
    BY <2>1, <2>4, <2>5, <2>6, <2>7 DEF ForJob, DocOf
  <2>10. CountOf(k)'
    <3>1. doc[k] # None => doc[k].tentativas \in Nat
      BY DocFields DEF JobsInv
    <3> QED BY <2>1, <2>2, <2>3, <2>4, <2>5, <3>1 DEF ForJob, CountOf
  <2>11. CarriedOf(k)'
    BY <2>1, <2>2, <2>3, <2>4, <2>5 DEF ForJob, CarriedOf, Carried
  <2>12. HeldOf(k)'
    BY <2>1, <2>2, <2>3, <2>4, <2>5 DEF ForJob, HeldOf
  <2>13. SpareOf(k)'
    BY <2>1, <2>2, <2>3, <2>4, <2>5 DEF ForJob, SpareOf
  <2>14. DlqOf(k)'
    BY <2>1, <2>2, <2>3, <2>4 DEF ForJob, DlqOf
  <2> QED BY <2>8, <2>9, <2>10, <2>11, <2>12, <2>13, <2>14 DEF ForJob
<1>6. ASSUME NEW k \in Jobs PROVE ForJob(k)'
  <2>1. CASE k = j
    BY <2>1
  <2>2. CASE k # j
    BY <1>5, <2>2
  <2> QED BY <2>1, <2>2
<1>7. JobByJob'
  BY <1>2, <1>3, <1>4, <1>6 DEF JobByJob
<1> QED BY <1>7, ByJobs, PTL

\* The worker that serves a job without a lapse is alone in it, and its entry
\* is in the processing list.
LEMMA Alone ==
    ASSUME JobsInv, NoLapse, NEW w \in Workers, NEW j \in Jobs, wk[w].job = j,
           wk[w].pc \in Serving
    PROVE  /\ lease[j] = w
           /\ \A v \in Workers \ {w} : wk[v].job = j => wk[v].pc \notin Serving
<1>1. LeaseOf(j)
  BY ByJobs DEF JobByJob, ForJob
<1> QED BY <1>1 DEF LeaseOf

LEMMA EntryHeld ==
    ASSUME JobsInv, NEW w \in Workers, NEW j \in Jobs, wk[w].job = j, wk[w].pc \in Holding,
           Whole(j), Open(j)
    PROVE  /\ w \in Holders(j) /\ IsFiniteSet(Holders(j)) /\ Cardinality(Holders(j)) \in Nat
           /\ Cardinality(Holders(j)) >= 1 /\ processing[j] \in Nat
           /\ Cardinality(Holders(j)) <= processing[j]
<1>1. w \in Holders(j)
  BY DEF Holders, Holding
<1>2. IsFiniteSet(Holders(j)) /\ Cardinality(Holders(j)) \in Nat
  BY HoldersFinite
<1>3. Cardinality(Holders(j)) # 0
  BY <1>1, <1>2, FS_EmptySet
<1>4. processing[j] \in Nat /\ Cardinality(Holders(j)) <= processing[j]
  BY DEF JobsInv, TypeOK, HeldEntries
<1> QED BY <1>1, <1>2, <1>3, <1>4

\* The holders of the job before and after a step of w.
LEMMA HoldersMove ==
    ASSUME TypeOK, NEW w \in Workers, NEW n \in Worker, wk' = [wk EXCEPT ![w] = n], NEW j
    PROVE  /\ (wk[w].job = j /\ wk[w].pc \in Holding) = (n.job = j /\ n.pc \in Holding)
                  => Holders(j)' = Holders(j)
           /\ ~(wk[w].job = j /\ wk[w].pc \in Holding) /\ n.job = j /\ n.pc \in Holding
                  => Cardinality(Holders(j)') = Cardinality(Holders(j)) + 1
           /\ (wk[w].job = j /\ wk[w].pc \in Holding) /\ ~(n.job = j /\ n.pc \in Holding)
                  => Cardinality(Holders(j)') = Cardinality(Holders(j)) - 1
<1>1. /\ wk' \in [Workers -> Worker]
      /\ wk'[w] = n /\ \A v \in Workers \ {w} : wk'[v] = wk[v]
  BY OneMoves
<1>2. IsFiniteSet(Holders(j))
  BY HoldersFinite
<1>3. ASSUME (wk[w].job = j /\ wk[w].pc \in Holding) = (n.job = j /\ n.pc \in Holding)
      PROVE  Holders(j)' = Holders(j)
  BY <1>1, <1>3 DEF Holders, Holding
<1>4. ASSUME ~(wk[w].job = j /\ wk[w].pc \in Holding), n.job = j, n.pc \in Holding
      PROVE  Cardinality(Holders(j)') = Cardinality(Holders(j)) + 1
  <2>1. Holders(j)' = Holders(j) \cup {w} /\ w \notin Holders(j)
    BY <1>1, <1>4 DEF Holders, Holding
  <2> QED BY <1>2, <2>1, FS_AddElement
<1>5. ASSUME wk[w].job = j, wk[w].pc \in Holding, ~(n.job = j /\ n.pc \in Holding)
      PROVE  Cardinality(Holders(j)') = Cardinality(Holders(j)) - 1
  <2>1. Holders(j)' = Holders(j) \ {w} /\ w \in Holders(j)
    BY <1>1, <1>5 DEF Holders, Holding
  <2> QED BY <1>2, <2>1, FS_RemoveElement
<1> QED BY <1>3, <1>4, <1>5

\* A worker pushes the entry it took out of the processing list.
LEMMA PushInv ==
    ASSUME JobsInv, NEW w \in Workers, SweepPush(w) \/ ContendedLpush(w)
    PROVE  JobsInv'
<1>0. TypeOK
  BY DEF JobsInv
<1>1. PICK pc \in WorkerPc : /\ pc \in {"sweep", "idle"}
                             /\ wk' = [wk EXCEPT ![w].pc = pc, ![w].job = None]
                             /\ wk[w].pc \in {"sweep_push", "repush"}
                             /\ ready' = Append(ready, wk[w].job)
                             /\ UNCHANGED <<doc, delayed, processing, dlq, lease, api, past>>
  BY DEF SweepPush, ContendedLpush, At, WorkerPc
<1>2. PICK j \in Jobs : j = wk[w].job
  BY <1>1 DEF JobsInv, JobInHand, HasJob
<1>3. PICK n \in Worker : wk' = [wk EXCEPT ![w] = n] /\ n.pc = pc /\ n.job = None
  <2>1. PICK r \in Worker : r = wk[w]
    BY <1>0 DEF TypeOK, Worker
  <2>2. wk \in [Workers -> Worker]
    BY <1>0 DEF TypeOK, Worker
  <2>3. PICK n \in Worker : n = [r EXCEPT !.pc = pc, !.job = None]
    BY DEF Worker
  <2>4. wk' = [wk EXCEPT ![w] = n]
    BY <1>1, <2>1, <2>2, <2>3
  <2>5. n.pc = pc /\ n.job = None
    BY <2>3 DEF Worker
  <2> QED BY <2>4, <2>5
<1>4. /\ wk'[w] = n /\ \A v \in Workers \ {w} : wk'[v] = wk[v]
  BY <1>0, <1>3, OneMoves
<1>5. ready' \in Seq(Jobs) /\ InReady(j)' /\ \A k \in Jobs : InReady(k) => InReady(k)'
  BY <1>0, <1>1, <1>2, Push
<1>6. pc \notin HasJob /\ pc \notin Writing /\ pc \notin Holding /\ wk[w].pc \notin Holding
  BY <1>1 DEF HasJob, Writing, Holding, InService
<1>7. StoreOK' /\ Spares(w, j) /\ (Open(j)' <=> Open(j))
  BY <1>0, <1>1, <1>5 DEF TypeOK, StoreOK, Spares, Open
<1>8. /\ FaultsAdd(j) /\ FaultCount' = FaultCount /\ (NoLapse' <=> NoLapse)
      /\ (NoCrash' <=> NoCrash) /\ severed' = severed /\ robbed' = robbed
      /\ (Whole(j)' <=> Whole(j))
  BY <1>0, <1>1, PastStays
<1>9. CopyOf(w)'
  BY <1>1, <1>3, <1>4, <1>6 DEF CopyOf
<1>10. ForJob(j)'
  <2>1. ForJob(j)
    BY ByJobs DEF JobByJob
  <2>2. LeaseOf(j)' /\ DocOf(j)'
    BY <2>1, <1>1, <1>3, <1>4, <1>7, <1>8 DEF ForJob, LeaseOf, DocOf
  <2>3. CountOf(j)'
    <3>1. Counting(j)' <=> Counting(j)
      BY <1>1, <1>3, <1>4 DEF Counting
    <3> QED BY <2>1, <3>1, <1>1, <1>7, <1>8 DEF ForJob, CountOf
  <2>4. CarriedOf(j)' /\ SpareOf(j)'
    BY <1>5 DEF CarriedOf, Carried, SpareOf
  <2>5. HeldOf(j)'
    <3>1. Holders(j)' = Holders(j)
      BY <1>0, <1>3, <1>6, HoldersMove
    <3> QED BY <2>1, <3>1, <1>1, <1>7, <1>8 DEF ForJob, HeldOf
  <2>6. DlqOf(j)'
    BY <2>1, <1>1, <1>3, <1>4, <1>8 DEF ForJob, DlqOf, InQuarantine, At
  <2> QED BY <2>2, <2>3, <2>4, <2>5, <2>6 DEF ForJob
<1>11. (wk[w].pc \in HasJob => wk[w].job = j) /\ (n.pc \in HasJob => n.job = j /\ j \in Jobs)
  BY <1>2, <1>3, <1>6
<1> QED BY <1>3, <1>7, <1>8, <1>9, <1>10, <1>11, JobStep

LEMMA BrpoplpushInv ==
    ASSUME JobsInv, NEW w \in Workers, Brpoplpush(w)
    PROVE  JobsInv'
<1>0. TypeOK
  BY DEF JobsInv
<1>1. PICK j \in Jobs : j = Head(ready)
  BY <1>0, TailEntries DEF Brpoplpush, TypeOK
<1>2. /\ wk[w].pc = "idle" /\ ready # <<>> /\ ready' = Tail(ready)
      /\ processing' = [processing EXCEPT ![j] = @ + 1]
      /\ wk' = [wk EXCEPT ![w].pc = "popped", ![w].job = j]
      /\ UNCHANGED <<doc, delayed, dlq, lease, api, past>>
  BY <1>1 DEF Brpoplpush, At
<1>3. PICK n \in Worker : wk' = [wk EXCEPT ![w] = n] /\ n.pc = "popped" /\ n.job = j
  <2>1. PICK r \in Worker : r = wk[w]
    BY <1>0 DEF TypeOK, Worker
  <2>2. wk \in [Workers -> Worker]
    BY <1>0 DEF TypeOK, Worker
  <2>3. PICK n \in Worker : n = [r EXCEPT !.pc = "popped", !.job = j]
    BY DEF Worker, WorkerPc
  <2>4. wk' = [wk EXCEPT ![w] = n]
    BY <1>2, <2>1, <2>2, <2>3
  <2>5. n.pc = "popped" /\ n.job = j
    BY <2>3 DEF Worker
  <2> QED BY <2>4, <2>5
<1>4. /\ wk'[w] = n /\ \A v \in Workers \ {w} : wk'[v] = wk[v]
  BY <1>0, <1>3, OneMoves
<1>5. /\ ready' \in Seq(Jobs) /\ \A k \in Jobs \ {j} : InReady(k) => InReady(k)'
  <2>1. ready \in Seq(Jobs)
    BY <1>0 DEF TypeOK
  <2>2. ASSUME NEW k \in Jobs \ {j}
        PROVE  ready' \in Seq(Jobs) /\ (InReady(k) => InReady(k)')
    BY <1>1, <1>2, <2>1, <2>2, TailEntries DEF InReady
  <2>3. ready' \in Seq(Jobs)
    BY <1>2, <2>1, TailEntries
  <2> QED BY <2>2, <2>3
<1>6. "popped" \notin Writing /\ "popped" \in Holding /\ wk[w].pc \notin Holding
      /\ wk[w].pc \notin HasJob
  BY <1>2 DEF HasJob, Writing, Holding, InService
<1>7. /\ StoreOK' /\ Spares(w, j) /\ (Open(j)' <=> Open(j)) /\ (InFlight(j)' <=> InFlight(j))
      /\ processing[j] \in Nat /\ processing'[j] = processing[j] + 1
  BY <1>0, <1>2, <1>5 DEF TypeOK, StoreOK, Spares, Open, InFlight
<1>8. /\ FaultsAdd(j) /\ FaultCount' = FaultCount /\ (NoLapse' <=> NoLapse)
      /\ (NoCrash' <=> NoCrash) /\ severed' = severed /\ robbed' = robbed
      /\ (Whole(j)' <=> Whole(j))
  BY <1>0, <1>2, PastStays
<1>9. CopyOf(w)'
  BY <1>2, <1>3, <1>4, <1>6 DEF CopyOf
<1>10. ForJob(j)'
  <2>1. ForJob(j)
    BY ByJobs DEF JobByJob
  <2>2. LeaseOf(j)' /\ DocOf(j)'
    <3>1. "popped" \notin Serving
      BY DEF Serving, InService
    <3>2. LeaseOf(j)'
      BY <2>1, <3>1, <1>2, <1>3, <1>4, <1>6, <1>7, <1>8 DEF ForJob, LeaseOf
    <3>3. DocOf(j)'
      BY <2>1, <3>1, <1>2, <1>3, <1>4, <1>6, <1>7, <1>8 DEF ForJob, DocOf
    <3> QED BY <3>2, <3>3
  <2>3. CountOf(j)'
    <3>1. Counting(j)' <=> Counting(j)
      BY <1>2, <1>3, <1>4 DEF Counting
    <3> QED BY <2>1, <3>1, <1>2, <1>7, <1>8 DEF ForJob, CountOf
  <2>4. CarriedOf(j)'
    BY <1>3, <1>4 DEF CarriedOf, Carried, Moving
  <2>5. HeldOf(j)'
    <3>1. Cardinality(Holders(j)') = Cardinality(Holders(j)) + 1
      BY <1>0, <1>3, <1>6, HoldersMove
    <3>2. Cardinality(Holders(j)) \in Nat
      BY HoldersFinite
    <3> QED BY <2>1, <3>1, <3>2, <1>7, <1>8 DEF ForJob, HeldOf
  <2>6. SpareOf(j)'
    <3> SUFFICES ASSUME Whole(j), InFlight(j)
                 PROVE  processing'[j] > (IF Confirming(j)' THEN 1 ELSE 0)
      BY <1>7, <1>8 DEF SpareOf
    <3>1. CASE Confirming(j)'
      <4>1. PICK v \in Workers : wk[v].job = j /\ wk[v].pc = "confirm"
        BY <3>1, <1>3, <1>4 DEF Confirming
      <4>2. Open(j) /\ wk[v].pc \in Holding
        BY <4>1 DEF Open, InFlight, Terminal, Holding
      <4>3. /\ Cardinality(Holders(j)) \in Nat /\ Cardinality(Holders(j)) >= 1
            /\ Cardinality(Holders(j)) <= processing[j]
        BY <4>1, <4>2, EntryHeld
      <4> QED BY <4>3, <1>7
    <3>2. CASE ~Confirming(j)'
      BY <3>2, <1>7
    <3> QED BY <3>1, <3>2
  <2>7. DlqOf(j)'
    BY <2>1, <1>2, <1>3, <1>4, <1>8 DEF ForJob, DlqOf, InQuarantine, At
  <2> QED BY <2>2, <2>3, <2>4, <2>5, <2>6, <2>7 DEF ForJob
<1>11. (wk[w].pc \in HasJob => wk[w].job = j) /\ (n.pc \in HasJob => n.job = j /\ j \in Jobs)
  BY <1>3, <1>6
<1> QED BY <1>3, <1>7, <1>8, <1>9, <1>10, <1>11, JobStep

LEMMA SetLeaseInv ==
    ASSUME JobsInv, NEW w \in Workers, SetLease(w)
    PROVE  JobsInv'
<1>0. TypeOK
  BY DEF JobsInv
<1>1. PICK j \in Jobs : j = wk[w].job /\ wk[w].pc = "popped"
  BY DEF SetLease, At, JobsInv, JobInHand, HasJob, Holding
<1>2. PICK pc \in WorkerPc :
          /\ pc = IF lease[j] = None THEN "obter" ELSE "contended"
          /\ wk' = [wk EXCEPT ![w].pc = pc]
          /\ lease' = IF lease[j] = None THEN [lease EXCEPT ![j] = w] ELSE lease
          /\ UNCHANGED <<doc, ready, delayed, processing, dlq, api, past>>
  BY <1>1 DEF SetLease, Goto, WorkerPc, InService
<1>3. PICK n \in Worker : /\ wk' = [wk EXCEPT ![w] = n]
                         /\ n.pc = pc /\ n.job = wk[w].job
                         /\ n.copy = wk[w].copy
  BY <1>0, <1>2, NewPlace, Zenon
<1>4. /\ wk'[w] = n /\ \A v \in Workers \ {w} : wk'[v] = wk[v]
  BY <1>0, <1>3, OneMoves
<1>5. pc \notin Writing /\ pc \in Holding /\ wk[w].pc \in Holding /\ pc \in HasJob
      /\ pc \in Moving /\ pc \in {"obter", "contended"}
  BY <1>1, <1>2 DEF HasJob, Writing, Holding, InService, Moving
<1>6. /\ StoreOK' /\ Spares(w, j) /\ (Open(j)' <=> Open(j)) /\ (InFlight(j)' <=> InFlight(j))
  BY <1>0, <1>2 DEF TypeOK, StoreOK, Spares, Open, InFlight, InReady
<1>7. /\ FaultsAdd(j) /\ FaultCount' = FaultCount /\ (NoLapse' <=> NoLapse)
      /\ (NoCrash' <=> NoCrash) /\ severed' = severed /\ robbed' = robbed
      /\ (Whole(j)' <=> Whole(j))
  BY <1>0, <1>2, PastStays
<1>8. CopyOf(w)'
  BY <1>3, <1>4, <1>5 DEF CopyOf
<1>9. ForJob(j)'
  <2>1. ForJob(j)
    BY ByJobs DEF JobByJob
  <2>2. LeaseOf(j)'
    <3> SUFFICES ASSUME NoLapse, NEW v \in Workers, wk'[v].job = j, wk'[v].pc \in Serving
                 PROVE  lease'[j] = v
      BY <1>7 DEF LeaseOf
    <3>1. CASE v = w
      <4>1. lease[j] = None
        BY <3>1, <1>2, <1>3, <1>4 DEF Serving, InService
      <4> QED BY <3>1, <4>1, <1>0, <1>2 DEF TypeOK
    <3>2. CASE v # w
      <4>1. lease[j] = v /\ v # None
        BY <2>1, <3>2, <1>4 DEF ForJob, LeaseOf
      <4> QED BY <4>1, <1>2
    <3> QED BY <3>1, <3>2
  <2>3. DocOf(j)'
    BY <2>1, <1>3, <1>4, <1>5, <1>6, <1>7 DEF ForJob, DocOf
  <2>4. CountOf(j)'
    <3>1. Counting(j)' <=> Counting(j)
      BY <1>1, <1>3, <1>4, <1>5 DEF Counting
    <3> QED BY <2>1, <3>1, <1>2, <1>6, <1>7 DEF ForJob, CountOf
  <2>5. CarriedOf(j)'
    BY <1>1, <1>3, <1>4, <1>5 DEF CarriedOf, Carried
  <2>6. HeldOf(j)'
    <3>1. Holders(j)' = Holders(j)
      BY <1>0, <1>1, <1>3, <1>5, HoldersMove
    <3> QED BY <2>1, <3>1, <1>2, <1>6, <1>7 DEF ForJob, HeldOf
  <2>7. SpareOf(j)'
    <3>1. (Confirming(j)' <=> Confirming(j)) /\ (Pushing(j)' <=> Pushing(j))
      BY <1>1, <1>3, <1>4, <1>5 DEF Confirming, Pushing
    <3> QED BY <2>1, <3>1, <1>2, <1>6, <1>7 DEF ForJob, SpareOf, InReady
  <2>8. DlqOf(j)'
    BY <2>1, <1>1, <1>2, <1>3, <1>4, <1>5, <1>7 DEF ForJob, DlqOf, InQuarantine, At
  <2> QED BY <2>2, <2>3, <2>4, <2>5, <2>6, <2>7, <2>8 DEF ForJob
<1>10. (wk[w].pc \in HasJob => wk[w].job = j) /\ (n.pc \in HasJob => n.job = j /\ j \in Jobs)
  BY <1>1, <1>3
<1> QED BY <1>3, <1>6, <1>7, <1>8, <1>9, <1>10, JobStep

LEMMA ContendedLremInv ==
    ASSUME JobsInv, NEW w \in Workers, ContendedLrem(w)
    PROVE  JobsInv'
<1>0. TypeOK
  BY DEF JobsInv
<1>1. PICK j \in Jobs : j = wk[w].job /\ wk[w].pc = "contended"
  BY DEF ContendedLrem, At, JobsInv, JobInHand, HasJob, Holding
<1>2. /\ wk' = [wk EXCEPT ![w].pc = "repush"] /\ Lrem(j) /\ "repush" \in WorkerPc
      /\ UNCHANGED <<doc, ready, delayed, dlq, lease, api, past>>
  BY <1>1 DEF ContendedLrem, Goto, WorkerPc
<1>3. PICK n \in Worker : /\ wk' = [wk EXCEPT ![w] = n]
                         /\ n.pc = "repush" /\ n.job = wk[w].job
                         /\ n.copy = wk[w].copy
  BY <1>0, <1>2, NewPlace, Zenon
<1>4. /\ wk'[w] = n /\ \A v \in Workers \ {w} : wk'[v] = wk[v]
  BY <1>0, <1>3, OneMoves
<1>5. /\ processing' \in [Jobs -> Nat] /\ processing[j] \in Nat
      /\ processing[j] > 0 => processing'[j] = processing[j] - 1
      /\ \A k \in Jobs \ {j} : processing'[k] = processing[k]
  BY <1>0, <1>2, LremEffect
<1>6. /\ StoreOK' /\ Spares(w, j) /\ (Open(j)' <=> Open(j))
  BY <1>0, <1>2, <1>5 DEF TypeOK, StoreOK, Spares, Open, InReady
<1>7. /\ FaultsAdd(j) /\ FaultCount' = FaultCount /\ (NoLapse' <=> NoLapse)
      /\ (NoCrash' <=> NoCrash) /\ severed' = severed /\ robbed' = robbed
      /\ (Whole(j)' <=> Whole(j))
  BY <1>0, <1>2, PastStays
<1>8. /\ "repush" \notin Writing /\ "repush" \notin Holding /\ wk[w].pc \in Holding
      /\ "repush" \notin Serving /\ "repush" \in Moving
  BY <1>1 DEF Writing, Holding, InService, Serving, Moving
<1>9. CopyOf(w)'
  BY <1>3, <1>4, <1>8 DEF CopyOf
<1>10. ForJob(j)'
  <2>1. ForJob(j)
    BY ByJobs DEF JobByJob
  <2>2. LeaseOf(j)' /\ DocOf(j)'
    BY <2>1, <1>2, <1>3, <1>4, <1>6, <1>7, <1>8 DEF ForJob, LeaseOf, DocOf
  <2>3. CountOf(j)'
    <3>1. Counting(j)' <=> Counting(j)
      BY <1>1, <1>3, <1>4 DEF Counting
    <3> QED BY <2>1, <3>1, <1>2, <1>6, <1>7 DEF ForJob, CountOf
  <2>4. CarriedOf(j)' /\ SpareOf(j)'
    BY <1>1, <1>3, <1>4, <1>8 DEF CarriedOf, Carried, SpareOf, Pushing
  <2>5. HeldOf(j)'
    <3> SUFFICES ASSUME Whole(j), Open(j) PROVE Cardinality(Holders(j)') <= processing'[j]
      BY <1>6, <1>7 DEF HeldOf
    <3>1. Cardinality(Holders(j)') = Cardinality(Holders(j)) - 1
      BY <1>0, <1>1, <1>3, <1>8, HoldersMove
    <3>2. /\ Cardinality(Holders(j)) \in Nat /\ Cardinality(Holders(j)) >= 1
          /\ Cardinality(Holders(j)) <= processing[j]
      BY <1>1, <1>8, EntryHeld
    <3> QED BY <3>1, <3>2, <1>5
  <2>6. DlqOf(j)'
    BY <2>1, <1>1, <1>2, <1>3, <1>4, <1>7 DEF ForJob, DlqOf, InQuarantine, At
  <2> QED BY <2>2, <2>3, <2>4, <2>5, <2>6 DEF ForJob
<1>11. (wk[w].pc \in HasJob => wk[w].job = j) /\ (n.pc \in HasJob => n.job = j /\ j \in Jobs)
  BY <1>1, <1>3
<1> QED BY <1>3, <1>6, <1>7, <1>9, <1>10, <1>11, JobStep

LEMMA ConfirmarLremInv ==
    ASSUME JobsInv, NEW w \in Workers, ConfirmarLrem(w)
    PROVE  JobsInv'
<1>0. TypeOK
  BY DEF JobsInv
<1>1. PICK j \in Jobs : j = wk[w].job /\ wk[w].pc = "confirm"
  BY DEF ConfirmarLrem, At, JobsInv, JobInHand, HasJob, Holding
<1>2. /\ wk' = [wk EXCEPT ![w].pc = "release"] /\ Lrem(j) /\ "release" \in WorkerPc
      /\ UNCHANGED <<doc, ready, delayed, dlq, lease, api, past>>
  BY <1>1 DEF ConfirmarLrem, Goto, WorkerPc
<1>3. PICK n \in Worker : /\ wk' = [wk EXCEPT ![w] = n]
                         /\ n.pc = "release" /\ n.job = wk[w].job
                         /\ n.copy = wk[w].copy
  BY <1>0, <1>2, NewPlace, Zenon
<1>4. /\ wk'[w] = n /\ \A v \in Workers \ {w} : wk'[v] = wk[v]
  BY <1>0, <1>3, OneMoves
<1>5. /\ processing' \in [Jobs -> Nat] /\ processing[j] \in Nat
      /\ processing[j] > 0 => processing'[j] = processing[j] - 1
      /\ \A k \in Jobs \ {j} : processing'[k] = processing[k]
  BY <1>0, <1>2, LremEffect
<1>6. /\ StoreOK' /\ Spares(w, j) /\ (Open(j)' <=> Open(j)) /\ (InFlight(j)' <=> InFlight(j))
  BY <1>0, <1>2, <1>5 DEF TypeOK, StoreOK, Spares, Open, InReady, InFlight
<1>7. /\ FaultsAdd(j) /\ FaultCount' = FaultCount /\ (NoLapse' <=> NoLapse)
      /\ (NoCrash' <=> NoCrash) /\ severed' = severed /\ robbed' = robbed
      /\ (Whole(j)' <=> Whole(j))
  BY <1>0, <1>2, PastStays
<1>8. /\ "release" \notin Writing /\ "release" \notin Holding /\ wk[w].pc \in Holding
      /\ "confirm" \in Serving /\ "confirm" \notin Moving
  BY <1>1 DEF Writing, Holding, InService, Serving, Moving
<1>9. CopyOf(w)'
  BY <1>3, <1>4, <1>8 DEF CopyOf
<1>10. ForJob(j)'
  <2>1. ForJob(j)
    BY ByJobs DEF JobByJob
  <2>2. LeaseOf(j)' /\ DocOf(j)'
    BY <2>1, <1>1, <1>2, <1>3, <1>4, <1>6, <1>7, <1>8 DEF ForJob, LeaseOf, DocOf
  <2>3. CountOf(j)'
    <3>1. Counting(j)' <=> Counting(j)
      BY <1>1, <1>3, <1>4 DEF Counting
    <3> QED BY <2>1, <3>1, <1>2, <1>6, <1>7 DEF ForJob, CountOf
  <2>4. CarriedOf(j)'
    <3>1. Carried(j) => Carried(j)'
      BY <1>1, <1>2, <1>4, <1>8 DEF Carried, InReady
    <3> QED BY <2>1, <3>1, <1>6, <1>7 DEF ForJob, CarriedOf
  <2>5. HeldOf(j)'
    <3> SUFFICES ASSUME Whole(j), Open(j) PROVE Cardinality(Holders(j)') <= processing'[j]
      BY <1>6, <1>7 DEF HeldOf
    <3>1. Cardinality(Holders(j)') = Cardinality(Holders(j)) - 1
      BY <1>0, <1>1, <1>3, <1>8, HoldersMove
    <3>2. /\ Cardinality(Holders(j)) \in Nat /\ Cardinality(Holders(j)) >= 1
          /\ Cardinality(Holders(j)) <= processing[j]
      BY <1>1, <1>8, EntryHeld
    <3> QED BY <3>1, <3>2, <1>5
  <2>6. SpareOf(j)'
    <3> SUFFICES ASSUME Whole(j), InFlight(j)
                 PROVE  \/ j \in delayed' \/ InReady(j)' \/ Pushing(j)'
                        \/ processing'[j] > (IF Confirming(j)' THEN 1 ELSE 0)
      BY <1>6, <1>7 DEF SpareOf
    <3>1. \A v \in Workers \ {w} : wk[v].job = j => wk[v].pc \notin Serving
      BY <1>1, <1>8, Alone DEF Whole
    <3>2. ~Confirming(j)'
      BY <3>1, <1>3, <1>4, <1>8 DEF Confirming
    <3>3. Confirming(j)
      BY <1>1 DEF Confirming
    <3>4. \/ j \in delayed' \/ InReady(j)' \/ Pushing(j) \/ processing[j] > 1
      BY <2>1, <3>3, <1>2 DEF ForJob, SpareOf, InReady
    <3>5. Pushing(j) => Pushing(j)'
      BY <1>1, <1>4 DEF Pushing
    <3> QED BY <3>2, <3>4, <3>5, <1>5
  <2>7. DlqOf(j)'
    BY <2>1, <1>1, <1>2, <1>3, <1>4, <1>7 DEF ForJob, DlqOf, InQuarantine, At
  <2> QED BY <2>2, <2>3, <2>4, <2>5, <2>6, <2>7 DEF ForJob
<1>11. (wk[w].pc \in HasJob => wk[w].job = j) /\ (n.pc \in HasJob => n.job = j /\ j \in Jobs)
  BY <1>1, <1>3
<1> QED BY <1>3, <1>6, <1>7, <1>9, <1>10, <1>11, JobStep

\* A worker in service writes the document of its job.
LEMMA WriteInv ==
    ASSUME JobsInv, NEW w \in Workers, NEW j \in Jobs, j = wk[w].job, wk[w].pc \in Writing,
           NEW d \in JobDoc, doc' = [doc EXCEPT ![j] = d],
           d.tentativas = wk[w].copy.tentativas,
           NEW pc \in WorkerPc, wk' = [wk EXCEPT ![w].pc = pc],
           \/ d.status = "PROCESSING" /\ pc = "execute"
           \/ d.status = "COMPLETED" /\ pc = "confirm"
           \/ d.status = "DEAD_LETTER" /\ pc = "quarantine"
           \/ d.status = "RETRYING" /\ pc = "retry" /\ d.tentativas < MaxTentativas,
           UNCHANGED <<ready, delayed, processing, dlq, lease, api, past>>
    PROVE  JobsInv'
<1>0. TypeOK
  BY DEF JobsInv
<1>1. PICK n \in Worker : /\ wk' = [wk EXCEPT ![w] = n]
                         /\ n.pc = pc /\ n.job = wk[w].job
                         /\ n.copy = wk[w].copy
  BY <1>0, NewPlace, Zenon
<1>2. /\ wk'[w] = n /\ \A v \in Workers \ {w} : wk'[v] = wk[v]
  BY <1>0, <1>1, OneMoves
<1>3. /\ doc' \in [Jobs -> JobDoc \cup {None}] /\ doc'[j] = d /\ d # None
      /\ \A k \in Jobs \ {j} : doc'[k] = doc[k]
  BY <1>0 DEF TypeOK
<1>4. StoreOK' /\ Spares(w, j)
  BY <1>0, <1>3 DEF TypeOK, StoreOK, Spares, InReady
<1>5. /\ FaultsAdd(j) /\ FaultCount' = FaultCount /\ (NoLapse' <=> NoLapse)
      /\ (NoCrash' <=> NoCrash) /\ severed' = severed /\ robbed' = robbed
      /\ (Whole(j)' <=> Whole(j)) /\ FaultCount \in Nat
  BY <1>0, PastStays, FaultCountType
<1>6. /\ wk[w].pc \in Serving /\ wk[w].pc \in Holding /\ wk[w].pc \in HasJob
      /\ pc \in Serving /\ pc \in Holding /\ pc \in HasJob
      /\ pc \notin {"begin", "overflow"}
  BY DEF Writing, Serving, Holding, HasJob, InService
<1>7. d.tentativas \in Nat /\ (NoLapse => d.tentativas <= MaxTentativas + FaultCount)
  BY ByJobs DEF JobByJob, CopyOf, JobDoc
<1>8. CopyOf(w)'
  BY <1>1, <1>2, <1>5, <1>6, <1>7 DEF CopyOf
<1>9. ForJob(j)
  BY ByJobs DEF JobByJob
<1>10. NoLapse => /\ Open(j)
                  /\ \A v \in Workers \ {w} : wk'[v].job = j => wk'[v].pc \notin Serving
  BY <1>2, <1>6, <1>9, Alone DEF ForJob, DocOf
<1>11. /\ Open(j)' <=> d.status \in {"PROCESSING", "RETRYING"}
       /\ InFlight(j)' <=> d.status \in {"PROCESSING", "RETRYING"}
  BY <1>3 DEF Open, InFlight, Terminal
<1>12. ForJob(j)'
  <2>1. LeaseOf(j)'
    BY <1>2, <1>5, <1>6, <1>9 DEF ForJob, LeaseOf
  <2>2. DocOf(j)'
    <3>1. Writing \subseteq Serving /\ "quarantine" \in Serving
          /\ "confirm" \notin Writing /\ "quarantine" \notin Writing
      BY DEF Writing, Serving, InService
    <3>2. pc \in Writing => Open(j)'
      BY <3>1, <1>11
    <3>3. pc = "quarantine" => ~Open(j)'
      BY <1>11
    <3> QED BY <3>1, <3>2, <3>3, <1>1, <1>2, <1>5, <1>10 DEF DocOf
  <2>3. CountOf(j)'
    <3>1. pc = "execute" => Counting(j)'
      BY <1>1, <1>2 DEF Counting
    <3> QED BY <3>1, <1>3, <1>5, <1>7, <1>11 DEF CountOf
  <2>4. CarriedOf(j)'
    BY <1>1, <1>2, <1>11 DEF CarriedOf, Carried, Moving, InService
  <2>5. HeldOf(j)'
    <3>1. Holders(j)' = Holders(j)
      BY <1>0, <1>1, <1>6, HoldersMove
    <3> QED BY <3>1, <1>5, <1>9, <1>10 DEF ForJob, HeldOf, Whole
  <2>6. SpareOf(j)'
    <3> SUFFICES ASSUME Whole(j), InFlight(j)'
                 PROVE  processing'[j] > (IF Confirming(j)' THEN 1 ELSE 0)
      BY <1>5 DEF SpareOf
    <3>1. NoLapse /\ pc # "confirm" /\ "confirm" \in Serving
      BY <1>11 DEF Whole, Serving
    <3>2. ~Confirming(j)'
      BY <3>1, <1>1, <1>2, <1>10 DEF Confirming
    <3>3. /\ Cardinality(Holders(j)) \in Nat /\ Cardinality(Holders(j)) >= 1
          /\ processing[j] \in Nat /\ Cardinality(Holders(j)) <= processing[j]
      BY <3>1, <1>6, <1>10, EntryHeld
    <3> QED BY <3>2, <3>3
  <2>7. DlqOf(j)'
    BY <1>1, <1>2, <1>3 DEF DlqOf, InQuarantine, At
  <2> QED BY <2>1, <2>2, <2>3, <2>4, <2>5, <2>6, <2>7 DEF ForJob
<1>13. (wk[w].pc \in HasJob => wk[w].job = j) /\ (n.pc \in HasJob => n.job = j /\ j \in Jobs)
  BY <1>1
<1> QED BY <1>1, <1>4, <1>5, <1>8, <1>12, <1>13, JobStep

\* The actions that write.
LEMMA SalvarInv ==
    ASSUME JobsInv, NEW w \in Workers,
           SalvarProcessing(w) \/ SalvarCompleted(w) \/ RegistrarFalha(w) \/ MoverParaDlq(w)
    PROVE  JobsInv'
<1>0. TypeOK
  BY DEF JobsInv
<1>1. wk[w].pc \in {"begin", "completed", "failed", "overflow"} /\ wk[w].pc \in Writing
  BY DEF SalvarProcessing, SalvarCompleted, RegistrarFalha, MoverParaDlq, At, Writing
<1>2. PICK j \in Jobs : j = wk[w].job
  BY <1>1 DEF JobsInv, JobInHand, HasJob, Holding, InService
<1>3. PICK c \in JobDoc : c = wk[w].copy
  BY <1>0, WorkerFields
<1>4. c.tentativas \in Nat
  BY DEF JobDoc
<1>5. UNCHANGED <<ready, delayed, processing, dlq, lease, api, past>>
  BY DEF SalvarProcessing, SalvarCompleted, RegistrarFalha, MoverParaDlq, redis
<1>6. CASE SalvarProcessing(w)
  <2>1. c.status = "PROCESSING"
    BY <1>3, <1>6 DEF SalvarProcessing, At, JobsInv, JobInHand
  <2>2. doc' = [doc EXCEPT ![j] = c] /\ wk' = [wk EXCEPT ![w].pc = "execute"]
        /\ "execute" \in WorkerPc
    BY <1>2, <1>3, <1>6 DEF SalvarProcessing, Salvar, Goto, WorkerPc, InService
  <2> QED BY <1>1, <1>2, <1>3, <1>5, <2>1, <2>2, WriteInv
<1>7. CASE SalvarCompleted(w)
  <2>1. PICK d \in JobDoc : /\ d = [c EXCEPT !.status = "COMPLETED"]
                            /\ d.status = "COMPLETED" /\ d.tentativas = c.tentativas
    BY WithStatus DEF Status
  <2>2. doc' = [doc EXCEPT ![j] = d] /\ wk' = [wk EXCEPT ![w].pc = "confirm"]
        /\ "confirm" \in WorkerPc
    BY <1>2, <1>3, <1>7, <2>1 DEF SalvarCompleted, Salvar, Goto, WorkerPc
  <2> QED BY <1>1, <1>2, <1>3, <1>5, <2>1, <2>2, WriteInv
<1>8. CASE MoverParaDlq(w)
  <2>1. PICK d \in JobDoc : /\ d = [c EXCEPT !.status = "DEAD_LETTER"]
                            /\ d.status = "DEAD_LETTER" /\ d.tentativas = c.tentativas
    BY WithStatus DEF Status
  <2>2. doc' = [doc EXCEPT ![j] = d] /\ wk' = [wk EXCEPT ![w].pc = "quarantine"]
        /\ "quarantine" \in WorkerPc
    BY <1>2, <1>3, <1>8, <2>1 DEF MoverParaDlq, Salvar, Goto, WorkerPc, InService
  <2> QED BY <1>1, <1>2, <1>3, <1>5, <2>1, <2>2, WriteInv
<1>9. CASE RegistrarFalha(w)
  <2>1. CASE c.tentativas >= MaxTentativas
    <3>1. PICK d \in JobDoc : /\ d = [c EXCEPT !.status = "DEAD_LETTER"]
                              /\ d.status = "DEAD_LETTER" /\ d.tentativas = c.tentativas
      BY WithStatus DEF Status
    <3>2. doc' = [doc EXCEPT ![j] = d] /\ wk' = [wk EXCEPT ![w].pc = "quarantine"]
          /\ "quarantine" \in WorkerPc
      BY <1>2, <1>3, <1>9, <2>1, <3>1 DEF RegistrarFalha, Salvar, Goto, WorkerPc, InService
    <3> QED BY <1>1, <1>2, <1>3, <1>5, <3>1, <3>2, WriteInv
  <2>2. CASE ~(c.tentativas >= MaxTentativas)
    <3>1. PICK d \in JobDoc : /\ d = [c EXCEPT !.status = "RETRYING"]
                              /\ d.status = "RETRYING" /\ d.tentativas = c.tentativas
      BY WithStatus DEF Status
    <3>2. doc' = [doc EXCEPT ![j] = d] /\ wk' = [wk EXCEPT ![w].pc = "retry"]
          /\ "retry" \in WorkerPc
      BY <1>2, <1>3, <1>9, <2>2, <3>1 DEF RegistrarFalha, Salvar, Goto, WorkerPc, InService
    <3>3. d.tentativas < MaxTentativas
      BY <1>4, <2>2, <3>1
    <3> QED BY <1>1, <1>2, <1>3, <1>5, <3>1, <3>2, <3>3, WriteInv
  <2> QED BY <2>1, <2>2
<1> QED BY <1>6, <1>7, <1>8, <1>9

\* A worker in service goes on and leaves the document alone.
LEMMA GoOnInv ==
    ASSUME JobsInv, NEW w \in Workers, NEW j \in Jobs, j = wk[w].job,
           wk[w].pc \in {"obter", "execute", "retry"},
           NEW n \in Worker, wk' = [wk EXCEPT ![w] = n], n.job = j,
           \/ wk[w].pc = "obter" /\ n.pc = "confirm" /\ ~InFlight(j)
           \/ wk[w].pc = "obter" /\ n.pc = "begin" /\ Open(j)
           \/ wk[w].pc = "execute" /\ n.pc \in {"completed", "failed"}
           \/ wk[w].pc = "retry" /\ n.pc = "overflow"
           \/ wk[w].pc = "retry" /\ n.pc = "confirm" /\ j \in delayed',
           CopyOf(w)', delayed' \in {delayed, delayed \cup {j}},
           UNCHANGED <<doc, ready, processing, dlq, lease, api, past>>
    PROVE  JobsInv'
<1>0. TypeOK
  BY DEF JobsInv
<1>1. /\ wk'[w] = n /\ \A v \in Workers \ {w} : wk'[v] = wk[v]
  BY <1>0, OneMoves
<1>2. /\ StoreOK' /\ Spares(w, j) /\ (Open(j)' <=> Open(j)) /\ (InFlight(j)' <=> InFlight(j))
      /\ (InReady(j)' <=> InReady(j)) /\ (j \in delayed => j \in delayed')
  BY <1>0 DEF TypeOK, StoreOK, Spares, InReady, Open, InFlight
<1>3. /\ FaultsAdd(j) /\ FaultCount' = FaultCount /\ (NoLapse' <=> NoLapse)
      /\ (NoCrash' <=> NoCrash) /\ severed' = severed /\ robbed' = robbed
      /\ (Whole(j)' <=> Whole(j))
  BY <1>0, PastStays
<1>4. /\ wk[w].pc \in Serving /\ wk[w].pc \in Holding /\ wk[w].pc \in HasJob
      /\ n.pc \in Serving /\ n.pc \in Holding /\ n.pc \in HasJob
      /\ n.pc # "quarantine" /\ wk[w].pc # "quarantine"
      /\ (n.pc # "confirm" => n.pc \in Moving)
      /\ (n.pc \in Writing => wk[w].pc \in Writing \/ Open(j))
  BY DEF Writing, Serving, Holding, HasJob, InService, Moving
<1>5. ForJob(j)
  BY ByJobs DEF JobByJob
<1>6. ForJob(j)'
  <2>1. LeaseOf(j)'
    BY <1>1, <1>3, <1>4, <1>5 DEF ForJob, LeaseOf
  <2>2. DocOf(j)'
    BY <1>1, <1>2, <1>3, <1>4, <1>5 DEF ForJob, DocOf
  <2>3. CountOf(j)'
    <3>1. Counting(j) => Counting(j)'
      BY <1>1 DEF Counting
    <3> QED BY <3>1, <1>2, <1>3, <1>5 DEF ForJob, CountOf
  <2>4. CarriedOf(j)'
    BY <1>1, <1>2, <1>4 DEF CarriedOf, Carried
  <2>5. HeldOf(j)'
    <3>1. Holders(j)' = Holders(j)
      BY <1>0, <1>4, HoldersMove
    <3> QED BY <3>1, <1>2, <1>3, <1>5 DEF ForJob, HeldOf
  <2>6. SpareOf(j)'
    <3>1. Pushing(j) => Pushing(j)'
      BY <1>1 DEF Pushing
    <3>2. n.pc # "confirm" => (Confirming(j)' => Confirming(j))
      BY <1>1 DEF Confirming
    <3>3. processing'[j] \in Nat
      BY <1>2 DEF StoreOK
    <3> QED BY <3>1, <3>2, <3>3, <1>2, <1>3, <1>5 DEF ForJob, SpareOf
  <2>7. DlqOf(j)'
    BY <1>1, <1>3, <1>4, <1>5 DEF ForJob, DlqOf, InQuarantine, At
  <2> QED BY <2>1, <2>2, <2>3, <2>4, <2>5, <2>6, <2>7 DEF ForJob
<1>7. (wk[w].pc \in HasJob => wk[w].job = j) /\ (n.pc \in HasJob => n.job = j /\ j \in Jobs)
  OBVIOUS
<1> QED BY <1>2, <1>3, <1>6, <1>7, JobStep

LEMMA ObterInv ==
    ASSUME JobsInv, NEW w \in Workers, Obter(w)
    PROVE  JobsInv'
<1>0. TypeOK
  BY DEF JobsInv
<1>1. PICK j \in Jobs : j = wk[w].job /\ wk[w].pc = "obter"
  BY DEF Obter, At, JobsInv, JobInHand, HasJob, Holding, InService
<1>2. UNCHANGED <<doc, ready, delayed, processing, dlq, lease, api, past>>
  BY DEF Obter, redis
<1>3. CASE doc[j] = None \/ (doc[j] # None /\ doc[j].status \in Terminal)
  <2>1. wk' = [wk EXCEPT ![w].pc = "confirm"] /\ "confirm" \in WorkerPc
    BY <1>1, <1>3 DEF Obter, Goto, WorkerPc
  <2>2. PICK n \in Worker : /\ wk' = [wk EXCEPT ![w] = n]
                           /\ n.pc = "confirm" /\ n.job = wk[w].job
                           /\ n.copy = wk[w].copy
    BY <1>0, <2>1, NewPlace, Zenon
  <2>3. wk'[w] = n
    BY <1>0, <2>2, OneMoves
  <2>4. CopyOf(w)' /\ ~InFlight(j) /\ n.job = j
    BY <1>1, <1>3, <2>2, <2>3 DEF CopyOf, Writing, InFlight, Terminal
  <2>5. wk[w].pc \in {"obter", "execute", "retry"} /\ delayed' \in {delayed, delayed \cup {j}}
    BY <1>1, <1>2
  <2> QED BY <1>1, <1>2, <2>2, <2>4, <2>5, GoOnInv
<1>4. CASE ~(doc[j] = None \/ (doc[j] # None /\ doc[j].status \in Terminal))
  <2>1. /\ doc[j] # None /\ Open(j) /\ doc[j].tentativas \in Nat
    BY <1>0, <1>4, DocFields DEF Open
  <2>2. PICK c \in JobDoc : /\ c = [status |-> "PROCESSING", tentativas |-> doc[j].tentativas + 1]
                            /\ c.status = "PROCESSING" /\ c.tentativas = doc[j].tentativas + 1
    <3>1. PICK t \in Nat : t = doc[j].tentativas + 1
      BY <2>1
    <3>2. [status |-> "PROCESSING", tentativas |-> t] \in JobDoc
      BY DEF JobDoc, Status
    <3> QED BY <3>1, <3>2
  <2>3. wk' = [wk EXCEPT ![w].pc = "begin", ![w].copy = c]
    BY <1>1, <1>4, <2>2 DEF Obter
  <2>4. PICK n \in Worker : wk' = [wk EXCEPT ![w] = n] /\ n.pc = "begin" /\ n.job = j /\ n.copy = c
    <3>1. PICK r \in Worker : r = wk[w]
      BY <1>0 DEF TypeOK, Worker
    <3>2. wk \in [Workers -> Worker]
      BY <1>0 DEF TypeOK, Worker
    <3>3. PICK n \in Worker : n = [r EXCEPT !.pc = "begin", !.copy = c]
      BY DEF Worker, WorkerPc, InService
    <3>4. wk' = [wk EXCEPT ![w] = n]
      BY <2>3, <3>1, <3>2, <3>3
    <3>5. n.pc = "begin" /\ n.job = r.job /\ n.copy = c
      BY <3>3 DEF Worker
    <3> QED BY <1>1, <3>1, <3>4, <3>5
  <2>5. wk'[w] = n
    BY <1>0, <2>4, OneMoves
  <2>6. FaultCount' = FaultCount /\ FaultCount \in Nat /\ (NoLapse' <=> NoLapse)
    BY <1>0, <1>2, PastStays, FaultCountType
  <2>7. NoLapse => c.tentativas <= MaxTentativas + FaultCount
    <3> SUFFICES ASSUME NoLapse PROVE c.tentativas <= MaxTentativas + FaultCount
      OBVIOUS
    <3>1. \A v \in Workers \ {w} : wk[v].job = j => wk[v].pc \notin Serving
      BY <1>1, Alone DEF Serving, InService
    <3>2. ~Counting(j)
      BY <3>1, <1>1 DEF Counting, Serving, InService
    <3>3. CountOf(j)
      BY ByJobs DEF JobByJob, ForJob
    <3> QED BY <2>1, <2>2, <2>6, <3>2, <3>3 DEF CountOf
  <2>8. CopyOf(w)'
    BY <2>2, <2>4, <2>5, <2>6, <2>7 DEF CopyOf
  <2> QED BY <1>1, <1>2, <2>1, <2>4, <2>8, GoOnInv
<1> QED BY <1>3, <1>4

\* The call to the destination, and the publication of a retry.
LEMMA ServeInv ==
    ASSUME JobsInv, NEW w \in Workers, ExecutarOperacao(w) \/ PublicarRetry(w)
    PROVE  JobsInv'
<1>0. TypeOK
  BY DEF JobsInv
<1>1. PICK j \in Jobs : j = wk[w].job /\ wk[w].pc \in {"execute", "retry"}
  BY DEF ExecutarOperacao, PublicarRetry, At, JobsInv, JobInHand, HasJob, Holding, InService
<1>2. PICK pc \in WorkerPc :
          /\ wk' = [wk EXCEPT ![w].pc = pc]
          /\ \/ wk[w].pc = "execute" /\ pc \in {"completed", "failed"}
             \/ wk[w].pc = "retry" /\ pc = "overflow"
             \/ wk[w].pc = "retry" /\ pc = "confirm" /\ j \in delayed'
          /\ delayed' \in {delayed, delayed \cup {j}}
          /\ UNCHANGED <<doc, ready, processing, dlq, lease, api, past>>
  <2>1. CASE ExecutarOperacao(w)
    BY <1>1, <2>1 DEF ExecutarOperacao, At, Goto, WorkerPc, InService, redis
  <2>2. CASE PublicarRetry(w)
    <3>1. CASE Full
      BY <1>1, <2>2, <3>1 DEF PublicarRetry, At, Goto, WorkerPc, InService
    <3>2. CASE ~Full
      BY <1>1, <2>2, <3>2 DEF PublicarRetry, At, Goto, WorkerPc
    <3> QED BY <3>1, <3>2
  <2> QED BY <2>1, <2>2
<1>3. PICK n \in Worker : /\ wk' = [wk EXCEPT ![w] = n]
                         /\ n.pc = pc /\ n.job = wk[w].job
                         /\ n.copy = wk[w].copy
  BY <1>0, <1>2, NewPlace, Zenon
<1>4. wk'[w] = n
  BY <1>0, <1>3, OneMoves
<1>5. FaultCount' = FaultCount /\ (NoLapse' <=> NoLapse)
  BY <1>0, <1>2, PastStays
<1>6. CopyOf(w)'
  <2>1. CopyOf(w)
    BY ByJobs DEF JobByJob
  <2> QED BY <2>1, <1>2, <1>3, <1>4, <1>5 DEF CopyOf, Writing
<1>7. /\ wk[w].pc \in {"obter", "execute", "retry"} /\ n.job = j
      /\ \/ wk[w].pc = "execute" /\ n.pc \in {"completed", "failed"}
         \/ wk[w].pc = "retry" /\ n.pc = "overflow"
         \/ wk[w].pc = "retry" /\ n.pc = "confirm" /\ j \in delayed'
  BY <1>1, <1>2, <1>3
<1> QED BY <1>1, <1>2, <1>3, <1>6, <1>7, GoOnInv

LEMMA QuarentenarInv ==
    ASSUME JobsInv, NEW w \in Workers, Quarentenar(w)
    PROVE  JobsInv'
<1>0. TypeOK
  BY DEF JobsInv
<1>1. PICK j \in Jobs : j = wk[w].job /\ wk[w].pc = "quarantine"
  BY DEF Quarentenar, At, JobsInv, JobInHand, HasJob, Holding, InService
<1>2. /\ wk' = [wk EXCEPT ![w].pc = "confirm"] /\ Lrem(j) /\ "confirm" \in WorkerPc
      /\ dlq' = dlq \cup {j} /\ UNCHANGED <<doc, ready, delayed, lease, api, past>>
  BY <1>1 DEF Quarentenar, Goto, WorkerPc
<1>3. PICK n \in Worker : /\ wk' = [wk EXCEPT ![w] = n]
                         /\ n.pc = "confirm" /\ n.job = wk[w].job
                         /\ n.copy = wk[w].copy
  BY <1>0, <1>2, NewPlace, Zenon
<1>4. /\ wk'[w] = n /\ \A v \in Workers \ {w} : wk'[v] = wk[v]
  BY <1>0, <1>3, OneMoves
<1>5. /\ processing' \in [Jobs -> Nat] /\ \A k \in Jobs \ {j} : processing'[k] = processing[k]
  BY <1>0, <1>2, LremEffect
<1>6. /\ StoreOK' /\ Spares(w, j) /\ (Open(j)' <=> Open(j)) /\ (InFlight(j)' <=> InFlight(j))
  BY <1>0, <1>2, <1>5 DEF TypeOK, StoreOK, Spares, Open, InReady, InFlight
<1>7. /\ FaultsAdd(j) /\ FaultCount' = FaultCount /\ (NoLapse' <=> NoLapse)
      /\ (NoCrash' <=> NoCrash) /\ severed' = severed /\ robbed' = robbed
      /\ (Whole(j)' <=> Whole(j))
  BY <1>0, <1>2, PastStays
<1>8. /\ "confirm" \notin Writing /\ "quarantine" \in Serving /\ "quarantine" \notin Moving
      /\ "confirm" \in Serving
  BY DEF Writing, InService, Serving, Moving
<1>9. CopyOf(w)'
  BY <1>3, <1>4, <1>8 DEF CopyOf
<1>10. ForJob(j)'
  <2>1. ForJob(j)
    BY ByJobs DEF JobByJob
  <2>2. LeaseOf(j)' /\ DocOf(j)'
    BY <2>1, <1>1, <1>2, <1>3, <1>4, <1>6, <1>7, <1>8 DEF ForJob, LeaseOf, DocOf
  <2>3. CountOf(j)'
    <3>1. Counting(j)' <=> Counting(j)
      BY <1>1, <1>3, <1>4 DEF Counting
    <3> QED BY <2>1, <3>1, <1>2, <1>6, <1>7 DEF ForJob, CountOf
  <2>4. CarriedOf(j)'
    <3>1. Carried(j) => Carried(j)'
      BY <1>1, <1>2, <1>4, <1>8 DEF Carried, InReady
    <3> QED BY <2>1, <3>1, <1>6, <1>7 DEF ForJob, CarriedOf
  <2>5. HeldOf(j)' /\ SpareOf(j)'
    <3>1. Whole(j) => ~Open(j) /\ ~InFlight(j)
      BY <2>1, <1>1 DEF ForJob, DocOf, Whole, Open, InFlight, Terminal
    <3> QED BY <3>1, <1>6, <1>7 DEF HeldOf, SpareOf
  <2>6. DlqOf(j)'
    BY <1>2 DEF DlqOf
  <2> QED BY <2>2, <2>3, <2>4, <2>5, <2>6 DEF ForJob
<1>11. (wk[w].pc \in HasJob => wk[w].job = j) /\ (n.pc \in HasJob => n.job = j /\ j \in Jobs)
  BY <1>1, <1>3
<1> QED BY <1>3, <1>6, <1>7, <1>9, <1>10, <1>11, JobStep

LEMMA ReleaseLeaseInv ==
    ASSUME JobsInv, NEW w \in Workers, ReleaseLease(w)
    PROVE  JobsInv'
<1>0. TypeOK
  BY DEF JobsInv
<1>1. PICK j \in Jobs : j = wk[w].job /\ wk[w].pc = "release"
  BY DEF ReleaseLease, At, JobsInv, JobInHand, HasJob
<1>2. PICK n \in Worker : n = [Off EXCEPT !.pc = "idle"] /\ n.pc = "idle" /\ n.job = None
  <2>1. "idle" \in WorkerPc /\ NoJobs \in [Jobs -> Nat]
    BY DEF WorkerPc, NoJobs
  <2> QED BY <2>1, OffType
<1>3. /\ wk' = [wk EXCEPT ![w] = n]
      /\ lease' = IF lease[j] = w THEN [lease EXCEPT ![j] = None] ELSE lease
      /\ UNCHANGED <<doc, ready, delayed, processing, dlq, api, past>>
  BY <1>1, <1>2 DEF ReleaseLease
<1>4. /\ wk'[w] = n /\ \A v \in Workers \ {w} : wk'[v] = wk[v]
  BY <1>0, <1>3, OneMoves
<1>5. /\ StoreOK' /\ Spares(w, j) /\ (Open(j)' <=> Open(j)) /\ (InFlight(j)' <=> InFlight(j))
      /\ (InReady(j)' <=> InReady(j))
  BY <1>0, <1>3 DEF TypeOK, StoreOK, Spares, Open, InReady, InFlight
<1>6. /\ FaultsAdd(j) /\ FaultCount' = FaultCount /\ (NoLapse' <=> NoLapse)
      /\ (NoCrash' <=> NoCrash) /\ severed' = severed /\ robbed' = robbed
      /\ (Whole(j)' <=> Whole(j))
  BY <1>0, <1>3, PastStays
<1>7. /\ "idle" \notin Writing /\ "idle" \notin Holding /\ "release" \notin Holding
      /\ "idle" \notin HasJob /\ "release" \in Serving /\ "release" \notin Moving
  BY DEF Writing, Holding, HasJob, InService, Serving, Moving
<1>8. CopyOf(w)'
  BY <1>2, <1>4, <1>7 DEF CopyOf
<1>9. ForJob(j)'
  <2>1. ForJob(j)
    BY ByJobs DEF JobByJob
  <2>2. LeaseOf(j)'
    <3>1. NoLapse => \A v \in Workers \ {w} : wk[v].job = j => wk[v].pc \notin Serving
      BY <1>1, <1>7, Alone
    <3> QED BY <3>1, <1>2, <1>4, <1>6 DEF LeaseOf
  <2>3. DocOf(j)'
    BY <2>1, <1>2, <1>4, <1>5, <1>6 DEF ForJob, DocOf
  <2>4. CountOf(j)'
    <3>1. Counting(j)' <=> Counting(j)
      BY <1>1, <1>2, <1>4 DEF Counting
    <3> QED BY <2>1, <3>1, <1>3, <1>5, <1>6 DEF ForJob, CountOf
  <2>5. CarriedOf(j)'
    <3>1. Carried(j) => Carried(j)'
      BY <1>1, <1>3, <1>4, <1>5, <1>7 DEF Carried
    <3> QED BY <2>1, <3>1, <1>5, <1>6 DEF ForJob, CarriedOf
  <2>6. HeldOf(j)'
    <3>1. Holders(j)' = Holders(j)
      BY <1>0, <1>1, <1>2, <1>3, <1>7, HoldersMove
    <3> QED BY <2>1, <3>1, <1>3, <1>5, <1>6 DEF ForJob, HeldOf
  <2>7. SpareOf(j)'
    <3>1. (Pushing(j)' <=> Pushing(j)) /\ (Confirming(j)' <=> Confirming(j))
      BY <1>1, <1>2, <1>4 DEF Pushing, Confirming
    <3> QED BY <2>1, <3>1, <1>3, <1>5, <1>6 DEF ForJob, SpareOf
  <2>8. DlqOf(j)'
    BY <2>1, <1>1, <1>2, <1>3, <1>4, <1>6 DEF ForJob, DlqOf, InQuarantine, At
  <2> QED BY <2>2, <2>3, <2>4, <2>5, <2>6, <2>7, <2>8 DEF ForJob
<1>10. (wk[w].pc \in HasJob => wk[w].job = j) /\ (n.pc \in HasJob => n.job = j /\ j \in Jobs)
  BY <1>1, <1>2, <1>7
<1> QED BY <1>3, <1>5, <1>6, <1>8, <1>9, <1>10, JobStep

\* A process ends, wherever it is.
LEMMA CrashInv ==
    ASSUME JobsInv, NEW w \in Workers, Crash(w)
    PROVE  JobsInv'
<1>0. TypeOK
  BY DEF JobsInv
<1>1. PICK j : j = wk[w].job
  OBVIOUS
<1>2. PICK n \in Worker : n = Off /\ n.pc = "off" /\ n.job = None
  <2>1. "idle" \in WorkerPc /\ NoJobs \in [Jobs -> Nat]
    BY DEF WorkerPc, NoJobs
  <2> QED BY <2>1, OffType
<1>3. /\ wk' = [wk EXCEPT ![w] = n] /\ faults' = [faults EXCEPT !["crash"] = @ + 1]
      /\ lease' = [k \in Jobs |-> IF lease[k] = w THEN Dead ELSE lease[k]]
      /\ severed' = IF wk[w].pc \in {"sweep_push", "repush", "quarantine"}
                    THEN severed \cup {j} ELSE severed
      /\ UNCHANGED <<doc, ready, delayed, processing, dlq, api, accepted, robbed, requests>>
  BY <1>1, <1>2 DEF Crash, Fault
<1>4. /\ wk'[w] = n /\ \A v \in Workers \ {w} : wk'[v] = wk[v]
  BY <1>0, <1>3, OneMoves
<1>5. /\ faults' \in [FaultKinds -> Nat] /\ faults["crash"] \in Nat
      /\ faults'["crash"] = faults["crash"] + 1 /\ faults'["lapse"] = faults["lapse"]
      /\ FaultCount \in Nat /\ FaultCount' = FaultCount + 1
  BY <1>0, <1>3, FaultAdds, FaultCountType DEF FaultKinds
<1>6. ~NoCrash' /\ (NoLapse' <=> NoLapse)
  BY <1>5 DEF NoCrash, NoLapse
<1>7. /\ "off" \notin Writing /\ "off" \notin Holding /\ "off" \notin HasJob /\ "off" \notin Serving
      /\ {"sweep_push", "repush", "quarantine"} \subseteq HasJob
  BY DEF Writing, Holding, HasJob, InService, Serving
<1>8. severed' \subseteq Jobs
  BY <1>0, <1>1, <1>3, <1>7 DEF TypeOK, JobsInv, JobInHand
<1>9. FaultsAdd(j)
  BY <1>3, <1>5, <1>6, <1>8 DEF FaultsAdd
<1>10. StoreOK' /\ Spares(w, j)
  <2>1. StoreOK'
    BY <1>0, <1>3 DEF TypeOK, StoreOK
  <2>2. Spares(w, j)
    BY <1>0, <1>3 DEF TypeOK, Spares, InReady
  <2> QED BY <2>1, <2>2
<1>11. CopyOf(w)'
  BY <1>2, <1>4, <1>7 DEF CopyOf
<1>12. ASSUME j \in Jobs PROVE ForJob(j)'
  <2>1. ForJob(j)
    BY <1>12, ByJobs DEF JobByJob
  <2>2. /\ (Open(j)' <=> Open(j)) /\ (InFlight(j)' <=> InFlight(j))
        /\ (InReady(j)' <=> InReady(j)) /\ (Whole(j)' => Whole(j)) /\ severed \subseteq severed'
    BY <1>3, <1>6 DEF Open, InFlight, InReady, Whole
  <2>3. LeaseOf(j)'
    BY <2>1, <1>12, <1>2, <1>3, <1>4, <1>6, <1>7 DEF ForJob, LeaseOf
  <2>4. DocOf(j)'
    BY <2>1, <2>2, <1>2, <1>4, <1>6, <1>7 DEF ForJob, DocOf
  <2>5. CountOf(j)'
    <3>1. doc[j] # None => doc[j].tentativas \in Nat
      BY <1>0, <1>12, DocFields
    <3>2. NoLapse /\ doc[j] # None => doc[j].tentativas <= MaxTentativas + FaultCount
      BY <2>1 DEF ForJob, CountOf
    <3>3. NoLapse /\ doc[j] # None => doc[j].tentativas < MaxTentativas + FaultCount'
      BY <3>1, <3>2, <1>5
    <3>4. FaultCount' \in Nat
      BY <1>5
    <3> QED BY <3>1, <3>3, <3>4, <1>3, <1>6 DEF CountOf
  <2>6. CarriedOf(j)'
    BY <1>6 DEF CarriedOf
  <2>7. HeldOf(j)'
    <3>1. Holders(j)' \subseteq Holders(j)
      BY <1>2, <1>4, <1>7 DEF Holders, Holding
    <3>2. IsFiniteSet(Holders(j)) /\ Cardinality(Holders(j)) \in Nat
      BY HoldersFinite
    <3>3. Cardinality(Holders(j)') \in Nat /\ Cardinality(Holders(j)') <= Cardinality(Holders(j))
      BY <3>1, <3>2, FS_Subset, FS_CardinalityType
    <3>4. processing[j] \in Nat
      BY <1>0, <1>12 DEF TypeOK
    <3> QED BY <2>1, <2>2, <3>2, <3>3, <3>4, <1>3 DEF ForJob, HeldOf
  <2>8. SpareOf(j)'
    <3>1. Whole(j)' => (Pushing(j) => Pushing(j)')
      BY <1>3, <1>4 DEF Pushing, Whole
    <3>2. Confirming(j)' => Confirming(j)
      BY <1>2, <1>4 DEF Confirming
    <3>3. processing[j] \in Nat
      BY <1>0, <1>12 DEF TypeOK
    <3> QED BY <2>1, <2>2, <3>1, <3>2, <3>3, <1>3 DEF ForJob, SpareOf
  <2>9. DlqOf(j)'
    BY <2>1, <2>2, <1>1, <1>3, <1>4 DEF ForJob, DlqOf, InQuarantine, At
  <2> QED BY <2>3, <2>4, <2>5, <2>6, <2>7, <2>8, <2>9 DEF ForJob
<1>13. (wk[w].pc \in HasJob => wk[w].job = j) /\ (n.pc \in HasJob => n.job = j /\ j \in Jobs)
  BY <1>1, <1>2, <1>7
<1> QED BY <1>3, <1>9, <1>10, <1>11, <1>12, <1>13, JobStep

LEMMA InterruptInv ==
    ASSUME JobsInv, NEW w \in Workers, Interrupt(w)
    PROVE  JobsInv'
<1>0. TypeOK
  BY DEF JobsInv
<1>1. PICK j \in Jobs : j = wk[w].job /\ wk[w].pc \in InService
  BY DEF Interrupt, JobsInv, JobInHand, HasJob, Holding
<1>2. /\ wk' = [wk EXCEPT ![w].pc = "confirm"] /\ "confirm" \in WorkerPc
      /\ faults' = [faults EXCEPT !["interrupt"] = @ + 1] /\ severed' = severed \cup {j}
      /\ UNCHANGED <<doc, ready, delayed, processing, dlq, lease, api, accepted, robbed, requests>>
  BY <1>1 DEF Interrupt, Fault, Goto, redis, WorkerPc
<1>3. PICK n \in Worker : /\ wk' = [wk EXCEPT ![w] = n]
                         /\ n.pc = "confirm" /\ n.job = wk[w].job
                         /\ n.copy = wk[w].copy
  BY <1>0, <1>2, NewPlace, Zenon
<1>4. /\ wk'[w] = n /\ \A v \in Workers \ {w} : wk'[v] = wk[v]
  BY <1>0, <1>3, OneMoves
<1>5. /\ faults' \in [FaultKinds -> Nat] /\ FaultCount \in Nat /\ FaultCount' = FaultCount + 1
      /\ faults'["crash"] = faults["crash"] /\ faults'["lapse"] = faults["lapse"]
  BY <1>0, <1>2, FaultAdds DEF FaultKinds
<1>6. (NoCrash' <=> NoCrash) /\ (NoLapse' <=> NoLapse)
  BY <1>5 DEF NoCrash, NoLapse
<1>7. FaultsAdd(j) /\ StoreOK' /\ Spares(w, j)
  BY <1>0, <1>2, <1>5, <1>6 DEF FaultsAdd, TypeOK, StoreOK, Spares, InReady
<1>8. "confirm" \notin Writing /\ "confirm" \in Serving /\ InService \subseteq Serving
  BY DEF Writing, Serving
<1>9. CopyOf(w)'
  BY <1>3, <1>4, <1>8 DEF CopyOf
<1>10. ForJob(j)'
  <2>1. ForJob(j)
    BY ByJobs DEF JobByJob
  <2>2. LeaseOf(j)'
    BY <2>1, <1>1, <1>2, <1>3, <1>4, <1>6, <1>8 DEF ForJob, LeaseOf
  <2>3. DocOf(j)'
    BY <2>1, <1>2, <1>3, <1>4, <1>6, <1>8 DEF ForJob, DocOf, Open
  <2>4. CountOf(j)'
    <3>1. doc[j] # None => doc[j].tentativas \in Nat
      BY <1>0, DocFields
    <3>2. NoLapse /\ doc[j] # None => doc[j].tentativas <= MaxTentativas + FaultCount
      BY <2>1 DEF ForJob, CountOf
    <3>3. NoLapse /\ doc[j] # None => doc[j].tentativas < MaxTentativas + FaultCount'
      BY <3>1, <3>2, <1>5
    <3>4. FaultCount' \in Nat
      BY <1>5
    <3> QED BY <3>1, <3>3, <3>4, <1>2, <1>6 DEF CountOf
  <2>5. CarriedOf(j)' /\ HeldOf(j)' /\ SpareOf(j)' /\ DlqOf(j)'
    BY <1>2 DEF CarriedOf, HeldOf, SpareOf, DlqOf, Whole
  <2> QED BY <2>2, <2>3, <2>4, <2>5 DEF ForJob
<1>11. (wk[w].pc \in HasJob => wk[w].job = j) /\ (n.pc \in HasJob => n.job = j /\ j \in Jobs)
  BY <1>1, <1>3
<1> QED BY <1>3, <1>7, <1>9, <1>10, <1>11, JobStep

-----------------------------------------------------------------------------
LEMMA NextInv == JobsInv /\ [Next]_vars => JobsInv'
<1> SUFFICES ASSUME JobsInv, [Next]_vars PROVE JobsInv'
  OBVIOUS
<1>1. ASSUME NEW w \in Workers, WorkerStep(w) PROVE JobsInv'
  <2>1. CASE Startup(w)
    BY <2>1, StartInv, SweepLremInv, PushInv DEF Startup
  <2>2. CASE Consumir(w)
    BY <2>2, BrpoplpushInv, SetLeaseInv, ContendedLremInv, PushInv DEF Consumir
  <2>3. CASE ProcessarJob(w)
    BY <2>3, ObterInv, SalvarInv, ServeInv, QuarentenarInv DEF ProcessarJob
  <2>4. CASE Confirmar(w)
    BY <2>4, ConfirmarLremInv, ReleaseLeaseInv DEF Confirmar
  <2> QED BY <1>1, <2>1, <2>2, <2>3, <2>4 DEF WorkerStep
<1>2. ASSUME NEW w \in Workers,
             Crash(w) \/ Interrupt(w) \/ \E j \in Jobs : PromoverAtrasados(w, j)
      PROVE  JobsInv'
  BY <1>2, CrashInv, InterruptInv, StartInv
<1>3. ASSUME NEW h \in Handlers,
             ApiStep(h) \/ HandlerCrash(h) \/ \E j \in Jobs : CriarTodoEvento(h, j)
      PROVE  JobsInv'
  BY <1>3, ApiInv, RemoverInv, CriarInv DEF ApiStep
<1>4. ASSUME NEW j \in Jobs, LeaseExpires(j) \/ LeaseLapses(j) PROVE JobsInv'
  BY <1>4, LeaseInv
<1>5. CASE UNCHANGED vars
  <2>1. /\ UNCHANGED <<doc, delayed, processing, dlq, lease, wk, severed, robbed>>
        /\ ready' = ready /\ faults' = faults /\ requests' = requests /\ accepted' = accepted
        /\ api' = api
    BY <1>5 DEF vars, redis, past
  <2>2. /\ requests \in Nat /\ accepted \subseteq Jobs
        /\ api \in [Handlers -> [pc : ApiPc, job : Jobs \cup {None}]]
        /\ \A h \in Handlers : api[h].pc # "none" => api[h].job \in Jobs
    BY DEF JobsInv, TypeOK, JobInHand
  <2> QED BY <2>1, <2>2, ApiQuiet
<1> QED BY <1>1, <1>2, <1>3, <1>4, <1>5 DEF Next

\* In every reachable state of any instance, whatever processes end and
\* whatever leases expire: the types, the lease and the document of a worker's
\* job, the attempts counted and the entries that the lists hold of each job.
THEOREM JobsInvariant == Spec => []JobsInv
<1>1. Init => JobsInv
  BY InitInv
<1>2. JobsInv /\ [Next]_vars => JobsInv'
  BY NextInv
<1> QED BY <1>1, <1>2, PTL DEF Spec

\* The lease admits one worker to a job at a time (redis_queue.py consumir).
THEOREM LeaseIsExclusive == Spec => []OneExecution
<1>1. JobsInv => OneExecution
  <2> SUFFICES ASSUME JobsInv, NoLapse, NEW v \in Workers, NEW w \in Workers, v # w,
                      wk[v].pc \in InService, wk[w].pc \in InService, wk[v].job = wk[w].job
               PROVE  FALSE
    BY DEF OneExecution, NoLapse
  <2>1. lease[wk[v].job] = v /\ lease[wk[w].job] = w
    BY DEF JobsInv, OwnLease
  <2> QED BY <2>1
<1> QED BY <1>1, JobsInvariant, PTL

\* A job gets one attempt beyond the limit at most for each fault it met
\* (job_service.py processar_job).
THEOREM AttemptsAreCounted == Spec => []AttemptsPerFault
<1>1. JobsInv => AttemptsPerFault
  BY DEF JobsInv, Attempts, AttemptsPerFault, NoLapse
<1> QED BY <1>1, JobsInvariant, PTL

\* A started job stays where somebody takes it up, and one that was given up
\* is in quarantine (redis_queue.py, job_service.py): for any number of
\* workers, requests and faults.
THEOREM StartedIsKept == Spec => [](StartedIsReachable /\ DeadLetterQuarantined)
<1>1. ASSUME JobsInv, NEW j \in Jobs \ severed, InFlight(j),
             faults["crash"] = 0 \/ (faults["lapse"] = 0 /\ j \notin robbed)
      PROVE  Reachable(j)
  <2>1. CASE NoCrash
    BY <1>1, <2>1 DEF JobsInv, CarriedWithoutCrash, Carried, Reachable, InReady, Moving
  <2>2. CASE Whole(j)
    <3>1. processing[j] \in Nat
      BY <1>1 DEF JobsInv, TypeOK
    <3>2. \/ j \in delayed \/ InReady(j) \/ Pushing(j)
          \/ processing[j] > (IF Confirming(j) THEN 1 ELSE 0)
      BY <1>1, <2>2 DEF JobsInv, SpareEntry
    <3>3. j \in delayed \/ InReady(j) \/ Pushing(j) \/ processing[j] > 0
      BY <3>1, <3>2
    <3> QED BY <3>3 DEF Reachable, InReady, Pushing
  <2> QED BY <1>1, <2>1, <2>2 DEF NoCrash, NoLapse, Whole
<1>2. JobsInv => StartedIsReachable /\ DeadLetterQuarantined
  BY <1>1 DEF StartedIsReachable, JobsInv
<1> QED BY <1>2, JobsInvariant, PTL

\* The steps that change a document.
Writes(w) == SalvarProcessing(w) \/ SalvarCompleted(w) \/ RegistrarFalha(w) \/ MoverParaDlq(w)
LEMMA WhoWrites ==
    [Next]_vars =>
        \/ doc' = doc \/ \E w \in Workers : Writes(w)
        \/ \E h \in Handlers : Remover(h) \/ \E k \in Jobs : CriarTodoEvento(h, k)
<1>1. ASSUME NEW w \in Workers, Startup(w) \/ Consumir(w) PROVE doc' = doc
  BY <1>1 DEF Startup, Consumir, Iniciar, SweepLrem, SweepPush, Listar, WorkerIniciado,
     SweepExists, PublicarPendente, Brpoplpush, SetLease, ContendedLrem, ContendedLpush
<1>2. ASSUME NEW w \in Workers, ProcessarJob(w) \/ Confirmar(w) PROVE doc' = doc \/ Writes(w)
  BY <1>2 DEF ProcessarJob, Confirmar, Writes, Obter, ExecutarOperacao, PublicarRetry,
     Quarentenar, ConfirmarLrem, ReleaseLease
<1>3. ASSUME NEW w \in Workers, Crash(w) \/ Interrupt(w) \/ \E j \in Jobs : PromoverAtrasados(w, j)
      PROVE  doc' = doc
  BY <1>3 DEF Crash, Interrupt, PromoverAtrasados
<1>4. ASSUME NEW h \in Handlers, ReplayObter(h) \/ Publicar(h) \/ HandlerCrash(h) PROVE doc' = doc
  BY <1>4 DEF ReplayObter, Publicar, HandlerCrash
<1>5. ASSUME NEW j \in Jobs, LeaseExpires(j) \/ LeaseLapses(j) PROVE doc' = doc
  BY <1>5 DEF LeaseExpires, LeaseLapses
<1>6. UNCHANGED vars => doc' = doc
  BY DEF vars
<1> QED BY <1>1, <1>2, <1>3, <1>4, <1>5, <1>6 DEF Next, WorkerStep, ApiStep

\* A document that is COMPLETED or DEAD_LETTER is never written again
\* (job_service.py processar_job): who writes has found it open and owns its
\* lease, so that nobody else has closed it meanwhile.
THEOREM TerminalStays == Spec => TerminalIsFinal
<1>1. ASSUME JobsInv, [Next]_vars, NEW j \in Jobs, doc[j] # None, doc[j].status \in Terminal,
             faults'["lapse"] = 0
      PROVE  doc'[j] \in {doc[j], None}
  <2>0. TypeOK /\ ~Open(j)
    BY <1>1 DEF JobsInv, Open
  <2>1. NoLapse
    <3>1. faults' = faults \/ Fault("crash") \/ Fault("interrupt") \/ Fault("lapse")
      <4>1. ASSUME NEW w \in Workers, WorkerStep(w) PROVE faults' = faults
        <5>1. CASE Startup(w)
          BY <5>1 DEF Startup, Iniciar, SweepLrem, SweepPush, Listar, WorkerIniciado,
                      SweepExists, PublicarPendente, past
        <5>2. CASE Consumir(w) \/ Confirmar(w)
          BY <5>2 DEF Consumir, Confirmar, Brpoplpush, SetLease, ContendedLrem, ContendedLpush,
                      ConfirmarLrem, ReleaseLease, past
        <5>3. CASE ProcessarJob(w)
          BY <5>3 DEF ProcessarJob, Obter, SalvarProcessing, ExecutarOperacao, SalvarCompleted,
                      RegistrarFalha, PublicarRetry, MoverParaDlq, Quarentenar, past
        <5> QED BY <4>1, <5>1, <5>2, <5>3 DEF WorkerStep
      <4>2. ASSUME NEW w \in Workers, Crash(w) \/ Interrupt(w)
            PROVE  Fault("crash") \/ Fault("interrupt")
        BY <4>2 DEF Crash, Interrupt
      <4>3. ASSUME NEW h \in Handlers, ApiStep(h) \/ \E k \in Jobs : CriarTodoEvento(h, k)
            PROVE  faults' = faults
        BY <4>3 DEF ApiStep, ReplayObter, Publicar, Remover, CriarTodoEvento
      <4>4. ASSUME NEW w \in Workers, NEW k \in Jobs, PromoverAtrasados(w, k)
            PROVE  faults' = faults
        BY <4>4 DEF PromoverAtrasados, past
      <4>5. ASSUME NEW k \in Jobs, LeaseExpires(k) \/ LeaseLapses(k)
            PROVE  faults' = faults \/ Fault("lapse")
        BY <4>5 DEF LeaseExpires, LeaseLapses, past
      <4>6. CASE UNCHANGED vars
        BY <4>6 DEF vars, past
      <4> QED BY <1>1, <4>1, <4>2, <4>3, <4>4, <4>5, <4>6 DEF Next, HandlerCrash
    <3>2. ASSUME NEW kind \in FaultKinds, Fault(kind) PROVE faults["lapse"] = 0
      <4>0. faults' = [faults EXCEPT ![kind] = @ + 1]
        BY <3>2 DEF Fault
      <4>1. /\ faults'[kind] = faults[kind] + 1 /\ faults[kind] \in Nat
            /\ \A f \in FaultKinds \ {kind} : faults'[f] = faults[f]
        BY <2>0, <4>0, FaultAdds, FaultCountType
      <4> QED BY <1>1, <4>1 DEF FaultKinds
    <3> QED BY <1>1, <3>1, <3>2 DEF NoLapse, FaultKinds
  <2>2. ASSUME NEW w \in Workers, wk[w].pc \in Writing PROVE wk[w].job # j
    BY <1>1, <2>0, <2>1, <2>2 DEF JobsInv, WorkersDoc
  <2>3. ASSUME NEW w \in Workers, Writes(w) PROVE doc'[j] = doc[j]
    <3>1. wk[w].pc \in Writing /\ \E d : doc' = [doc EXCEPT ![wk[w].job] = d]
      BY <2>3 DEF Writes, SalvarProcessing, SalvarCompleted, RegistrarFalha, MoverParaDlq, At,
                  Writing, Salvar
    <3> QED BY <2>0, <2>2, <3>1 DEF TypeOK
  <2>4. ASSUME NEW h \in Handlers, Remover(h) PROVE doc'[j] \in {doc[j], None}
    BY <2>0, <2>4 DEF Remover, Salvar, TypeOK
  <2>5. ASSUME NEW h \in Handlers, NEW k \in Jobs, CriarTodoEvento(h, k)
        PROVE  doc'[j] = doc[j]
    BY <1>1, <2>0, <2>5 DEF CriarTodoEvento, Salvar, TypeOK
  <2>6. \/ doc' = doc \/ \E w \in Workers : Writes(w)
        \/ \E h \in Handlers : Remover(h) \/ \E k \in Jobs : CriarTodoEvento(h, k)
    BY <1>1, WhoWrites
  <2> QED BY <2>3, <2>4, <2>5, <2>6
<1>2. JobsInv /\ [Next]_vars =>
          [\A j \in Jobs : (doc[j] # None /\ doc[j].status \in Terminal /\ faults'["lapse"] = 0)
                               => doc'[j] \in {doc[j], None}]_vars
  BY <1>1
<1> QED BY <1>2, JobsInvariant, PTL DEF Spec, TerminalIsFinal

-----------------------------------------------------------------------------
(***************************************************************************)
(* Overlapping requests.  Only the request that created a document         *)
(* withdraws it, and a replay that finds the document while that request   *)
(* is undecided makes the job contested.                                   *)
(***************************************************************************)
\* Nobody is about to withdraw the job.
Kept(j) == doc[j] # None /\ \A h \in Handlers : ~Creating(h, j)
Promises ==
    /\ \A j \in accepted : j \in contested \/ Kept(j)
    /\ \A h \in Handlers : \A j \in Jobs :
           api[h].job = j /\ api[h].pc \in {"existing", "republish"}
               => j \in contested \/ Kept(j)
    /\ \A h \in Handlers : \A j \in Jobs : Creating(h, j) => doc[j] # None
    /\ \A g, h \in Handlers : \A j \in Jobs : Creating(g, j) /\ Creating(h, j) => g = h

LEMMA CriarKeeps ==
    ASSUME JobsInv, Promises, NEW h \in Handlers, NEW j \in Jobs, CriarTodoEvento(h, j)
    PROVE  Promises'
<1>0. TypeOK
  BY DEF JobsInv
<1>1. PICK pc \in {"publish", "existing"} : api' = [api EXCEPT ![h] = [pc |-> pc, job |-> j]]
  BY DEF CriarTodoEvento
<1>2. /\ accepted' = accepted /\ api'[h].pc = pc /\ api'[h].job = j
      /\ \A g \in Handlers \ {h} : api'[g] = api[g]
  BY <1>0, <1>1 DEF CriarTodoEvento, TypeOK
<1>3. /\ \A g \in Handlers \ {h} : \A k \in Jobs : Creating(g, k)' <=> Creating(g, k)
      /\ \A k \in Jobs : Creating(h, k)' <=> pc = "publish" /\ k = j
  BY <1>2 DEF Creating
<1>4. accepted \subseteq Jobs
  BY <1>0 DEF TypeOK
<1>5. CASE doc[j] = None
  <2>1. /\ doc' = [doc EXCEPT ![j] = NewJob] /\ contested' = contested
        /\ api' = [api EXCEPT ![h] = [pc |-> "publish", job |-> j]]
    BY <1>5 DEF CriarTodoEvento, Salvar
  <2>2. pc = "publish"
    BY <1>0, <1>2, <2>1 DEF TypeOK
  <2>3. doc'[j] # None /\ \A k \in Jobs \ {j} : doc'[k] = doc[k]
    BY <1>0, <2>1, NewJobType DEF TypeOK
  <2>4. \A k \in Jobs : Kept(k) => k # j /\ Kept(k)'
    BY <1>3, <1>5, <2>3 DEF Kept
  <2>5. \A k \in accepted' : k \in contested' \/ Kept(k)'
    BY <1>2, <1>4, <2>1, <2>4 DEF Promises
  <2>6. \A g \in Handlers : \A k \in Jobs :
            api'[g].job = k /\ api'[g].pc \in {"existing", "republish"}
                => k \in contested' \/ Kept(k)'
    BY <1>2, <2>1, <2>2, <2>4 DEF Promises
  <2>7. \A g \in Handlers : ~Creating(g, j)
    BY <1>5 DEF Promises
  <2>8. \A g \in Handlers : \A k \in Jobs : Creating(g, k)' => doc'[k] # None
    BY <1>3, <2>3 DEF Promises
  <2>9. \A f, g \in Handlers : \A k \in Jobs : Creating(f, k)' /\ Creating(g, k)' => f = g
    BY <1>3, <2>7 DEF Promises
  <2> QED BY <2>5, <2>6, <2>8, <2>9 DEF Promises
<1>6. CASE doc[j] # None
  <2>1. /\ doc' = doc /\ api' = [api EXCEPT ![h] = [pc |-> "existing", job |-> j]]
        /\ contested' = IF \E g \in Handlers : Creating(g, j)
                        THEN contested \cup {j} ELSE contested
    BY <1>6 DEF CriarTodoEvento
  <2>2. pc = "existing"
    BY <1>0, <1>2, <2>1 DEF TypeOK
  <2>3. contested \subseteq contested' /\ (j \in contested' \/ Kept(j))
    BY <1>6, <2>1 DEF Kept
  <2>4. \A k \in Jobs : Kept(k) => Kept(k)'
    BY <1>3, <2>1, <2>2 DEF Kept
  <2>5. \A k \in accepted' : k \in contested' \/ Kept(k)'
    BY <1>2, <1>4, <2>3, <2>4 DEF Promises
  <2>6. \A g \in Handlers : \A k \in Jobs :
            api'[g].job = k /\ api'[g].pc \in {"existing", "republish"}
                => k \in contested' \/ Kept(k)'
    BY <1>2, <2>3, <2>4 DEF Promises
  <2>7. \A g \in Handlers : \A k \in Jobs : Creating(g, k)' => Creating(g, k)
    BY <1>3, <2>2
  <2>8. \A g \in Handlers : \A k \in Jobs : Creating(g, k)' => doc'[k] # None
    BY <2>1, <2>7 DEF Promises
  <2>9. \A f, g \in Handlers : \A k \in Jobs : Creating(f, k)' /\ Creating(g, k)' => f = g
    BY <2>7 DEF Promises
  <2> QED BY <2>5, <2>6, <2>8, <2>9 DEF Promises
<1> QED BY <1>5, <1>6

\* A request goes on or ends, without touching the document and without becoming
\* the one that creates it.
LEMMA AnswerKeeps ==
    ASSUME JobsInv, Promises, NEW h \in Handlers, NEW j \in Jobs, api[h].job = j,
           api' \in [Handlers -> [pc : ApiPc, job : Jobs \cup {None}]],
           \A g \in Handlers \ {h} : api'[g] = api[g],
           api'[h].job = None \/ api'[h].job = j,
           api'[h].pc \in {"publish", "remove"} => api[h].pc \in {"publish", "remove"},
           api'[h].pc \in {"existing", "republish"} => api[h].pc \in {"existing", "republish"},
           UNCHANGED <<doc, contested>>,
           \/ accepted' = accepted
           \/ accepted' = accepted \cup {j} /\ (j \in contested \/ Kept(j)')
    PROVE  Promises'
<1>0. TypeOK
  BY DEF JobsInv
<1>1. \A g \in Handlers : \A k \in Jobs : Creating(g, k)' => Creating(g, k)
  BY DEF Creating
<1>2. \A k \in Jobs : Kept(k) => Kept(k)'
  BY <1>1 DEF Kept
<1>3. \A k \in accepted' : k \in contested' \/ Kept(k)'
  BY <1>0, <1>2 DEF Promises, TypeOK
<1>4. \A g \in Handlers : \A k \in Jobs :
          api'[g].job = k /\ api'[g].pc \in {"existing", "republish"}
              => api[g].job = k /\ api[g].pc \in {"existing", "republish"}
  OBVIOUS
<1>5. \A g \in Handlers : \A k \in Jobs :
          api'[g].job = k /\ api'[g].pc \in {"existing", "republish"}
              => k \in contested' \/ Kept(k)'
  BY <1>2, <1>4 DEF Promises
<1>6. /\ \A g \in Handlers : \A k \in Jobs : Creating(g, k)' => doc'[k] # None
      /\ \A f, g \in Handlers : \A k \in Jobs : Creating(f, k)' /\ Creating(g, k)' => f = g
  BY <1>1 DEF Promises
<1> QED BY <1>3, <1>5, <1>6 DEF Promises

LEMMA ReplayKeeps ==
    ASSUME JobsInv, Promises, NEW h \in Handlers, ReplayObter(h)
    PROVE  Promises'
<1>0. TypeOK
  BY DEF JobsInv
<1>1. PICK j \in Jobs : j = api[h].job
  BY DEF ReplayObter, JobsInv, JobInHand
<1>2. api[h].pc = "existing" /\ UNCHANGED <<doc, contested>> /\ (j \in contested \/ Kept(j))
  BY <1>1 DEF ReplayObter, Promises
<1>3. CASE doc[j] # None /\ doc[j].status = "QUEUED"
  <2>1. accepted' = accepted /\ api' = [api EXCEPT ![h].pc = "republish"]
    BY <1>1, <1>3 DEF ReplayObter
  <2>2. /\ api' \in [Handlers -> [pc : ApiPc, job : Jobs \cup {None}]]
        /\ api'[h].pc = "republish" /\ api'[h].job = j
        /\ \A g \in Handlers \ {h} : api'[g] = api[g]
    BY <1>0, <1>1, <2>1 DEF TypeOK, ApiPc
  <2> QED BY <1>1, <1>2, <2>1, <2>2, AnswerKeeps
<1>4. CASE ~(doc[j] # None /\ doc[j].status = "QUEUED")
  <2>1. /\ accepted' = (IF doc[j] = None THEN accepted ELSE accepted \cup {j})
        /\ api' = [api EXCEPT ![h] = NoRequest]
    BY <1>1, <1>4 DEF ReplayObter
  <2>2. /\ api' \in [Handlers -> [pc : ApiPc, job : Jobs \cup {None}]]
        /\ api'[h].pc = "none" /\ api'[h].job = None
        /\ \A g \in Handlers \ {h} : api'[g] = api[g]
    BY <1>0, <1>1, <2>1 DEF TypeOK, ApiPc, NoRequest
  <2>3. Kept(j) => Kept(j)'
    BY <1>2, <2>2 DEF Kept, Creating
  <2> QED BY <1>1, <1>2, <2>1, <2>2, <2>3, AnswerKeeps
<1> QED BY <1>3, <1>4

LEMMA PublicarKeeps ==
    ASSUME JobsInv, Promises, NEW h \in Handlers, Publicar(h)
    PROVE  Promises'
<1>0. TypeOK
  BY DEF JobsInv
<1>1. PICK j \in Jobs : j = api[h].job
  BY DEF Publicar, JobsInv, JobInHand
<1>2. api[h].pc \in {"publish", "republish"} /\ UNCHANGED <<doc, contested>>
  BY DEF Publicar
<1>3. CASE Full /\ api[h].pc = "publish"
  <2>1. accepted' = accepted /\ api' = [api EXCEPT ![h].pc = "remove"]
    BY <1>3 DEF Publicar
  <2>2. /\ api' \in [Handlers -> [pc : ApiPc, job : Jobs \cup {None}]]
        /\ api'[h].pc = "remove" /\ api'[h].job = j
        /\ \A g \in Handlers \ {h} : api'[g] = api[g]
    BY <1>0, <1>1, <2>1 DEF TypeOK, ApiPc
  <2> QED BY <1>1, <1>2, <1>3, <2>1, <2>2, AnswerKeeps
<1>4. CASE ~(Full /\ api[h].pc = "publish")
  <2>1. accepted' = accepted \cup {j} /\ api' = [api EXCEPT ![h] = NoRequest]
    BY <1>1, <1>4 DEF Publicar
  <2>2. /\ api' \in [Handlers -> [pc : ApiPc, job : Jobs \cup {None}]]
        /\ api'[h].pc = "none" /\ api'[h].job = None
        /\ \A g \in Handlers \ {h} : api'[g] = api[g]
    BY <1>0, <1>1, <2>1 DEF TypeOK, ApiPc, NoRequest
  <2>3. CASE api[h].pc = "publish"
    <3>1. Creating(h, j)
      BY <1>1, <2>3 DEF Creating
    <3>2. doc[j] # None /\ \A g \in Handlers \ {h} : ~Creating(g, j)
      BY <3>1 DEF Promises
    <3>3. \A g \in Handlers : ~Creating(g, j)'
      BY <2>2, <3>2 DEF Creating
    <3>4. Kept(j)'
      BY <1>2, <3>2, <3>3 DEF Kept
    <3> QED BY <1>1, <1>2, <2>1, <2>2, <3>4, AnswerKeeps
  <2>4. CASE api[h].pc = "republish"
    <3>1. j \in contested \/ Kept(j)
      BY <1>1, <2>4 DEF Promises
    <3>2. Kept(j) => Kept(j)'
      BY <1>2, <2>2 DEF Kept, Creating
    <3> QED BY <1>1, <1>2, <2>1, <2>2, <3>1, <3>2, AnswerKeeps
  <2> QED BY <1>2, <2>3, <2>4
<1> QED BY <1>3, <1>4

LEMMA RemoverKeeps ==
    ASSUME JobsInv, Promises, NEW h \in Handlers, Remover(h)
    PROVE  Promises'
<1>0. TypeOK
  BY DEF JobsInv
<1>1. PICK j \in Jobs : j = api[h].job
  BY DEF Remover, JobsInv, JobInHand
<1>2. /\ doc' = [doc EXCEPT ![j] = None] /\ api' = [api EXCEPT ![h] = NoRequest]
      /\ UNCHANGED <<accepted, contested>> /\ Creating(h, j)
  BY <1>1 DEF Remover, Salvar, Creating
<1>3. /\ api'[h].pc = "none" /\ api'[h].job = None
      /\ \A g \in Handlers \ {h} : api'[g] = api[g]
      /\ \A k \in Jobs \ {j} : doc'[k] = doc[k]
  BY <1>0, <1>2 DEF TypeOK, NoRequest
<1>4. /\ \A k \in Jobs : ~Creating(h, k)'
      /\ \A g \in Handlers \ {h} : \A k \in Jobs : Creating(g, k)' <=> Creating(g, k)
  BY <1>3 DEF Creating
<1>5. ~Kept(j) /\ \A g \in Handlers \ {h} : ~Creating(g, j)
  BY <1>2 DEF Kept, Promises
<1>6. \A k \in Jobs : Kept(k) => k # j /\ Kept(k)'
  BY <1>3, <1>4, <1>5 DEF Kept
<1>7. \A k \in accepted' : k \in contested' \/ Kept(k)'
  BY <1>0, <1>2, <1>6 DEF Promises, TypeOK
<1>8. \A g \in Handlers : \A k \in Jobs :
          api'[g].job = k /\ api'[g].pc \in {"existing", "republish"}
              => k \in contested' \/ Kept(k)'
  BY <1>2, <1>3, <1>6 DEF Promises
<1>9. \A g \in Handlers : \A k \in Jobs : Creating(g, k)' => doc'[k] # None
  BY <1>3, <1>4, <1>5 DEF Promises
<1>10. \A f, g \in Handlers : \A k \in Jobs : Creating(f, k)' /\ Creating(g, k)' => f = g
  BY <1>4 DEF Promises
<1> QED BY <1>7, <1>8, <1>9, <1>10 DEF Promises

LEMMA PromisesNext ==
    ASSUME JobsInv, Promises, [Next]_vars
    PROVE  Promises'
<1>0. TypeOK
  BY DEF JobsInv
<1>1. ASSUME NEW h \in Handlers, HandlerCrash(h) PROVE Promises'
  <2>1. PICK j \in Jobs : j = api[h].job
    BY <1>1 DEF HandlerCrash, JobsInv, JobInHand
  <2>2. api' = [api EXCEPT ![h] = NoRequest] /\ UNCHANGED <<doc, contested, accepted>>
    BY <1>1 DEF HandlerCrash
  <2>3. /\ api' \in [Handlers -> [pc : ApiPc, job : Jobs \cup {None}]]
        /\ api'[h].pc = "none" /\ api'[h].job = None
        /\ \A g \in Handlers \ {h} : api'[g] = api[g]
    BY <1>0, <2>2 DEF TypeOK, ApiPc, NoRequest
  <2> QED BY <2>1, <2>2, <2>3, AnswerKeeps
<1>2. ASSUME accepted' = accepted, contested' = contested, api' = api,
             \A k \in Jobs : doc[k] # None => doc'[k] # None
      PROVE  Promises'
  <2>1. \A g \in Handlers : \A k \in Jobs : Creating(g, k)' <=> Creating(g, k)
    BY <1>2 DEF Creating
  <2>2. \A k \in Jobs : Kept(k) => Kept(k)'
    BY <1>2, <2>1 DEF Kept
  <2>3. accepted \subseteq Jobs
    BY <1>0 DEF TypeOK
  <2> QED BY <1>2, <2>1, <2>2, <2>3 DEF Promises
<1>3. ASSUME NEW w \in Workers, Writes(w)
      PROVE  /\ accepted' = accepted /\ contested' = contested /\ api' = api
             /\ \A k \in Jobs : doc[k] # None => doc'[k] # None
  <2>1. PICK c \in JobDoc : c = wk[w].copy
    BY <1>0, WorkerFields
  <2>2. accepted' = accepted /\ contested' = contested /\ api' = api
    BY <1>3 DEF Writes, SalvarProcessing, SalvarCompleted, RegistrarFalha, MoverParaDlq, past
  <2>3. \E s \in Status : \/ doc' = [doc EXCEPT ![wk[w].job] = c]
                          \/ doc' = [doc EXCEPT ![wk[w].job] = [c EXCEPT !.status = s]]
    BY <1>3, <2>1 DEF Writes, SalvarProcessing, SalvarCompleted, RegistrarFalha, MoverParaDlq,
                      Salvar, Status
  <2>4. PICK d \in JobDoc : doc' = [doc EXCEPT ![wk[w].job] = d]
    BY <2>3, WithStatus
  <2> QED BY <1>0, <2>2, <2>4 DEF TypeOK
<1>4. ASSUME NEW w \in Workers, WorkerStep(w) PROVE Promises'
  <2>1. CASE Writes(w)
    BY <2>1, <1>2, <1>3
  <2>2. CASE ~Writes(w)
    <3>1. accepted' = accepted /\ contested' = contested /\ api' = api /\ doc' = doc
      BY <1>4, <2>2 DEF WorkerStep, Startup, Consumir, ProcessarJob, Confirmar, Writes,
         Iniciar, SweepLrem, SweepPush, Listar, WorkerIniciado, SweepExists, PublicarPendente,
         Brpoplpush, SetLease, ContendedLrem, ContendedLpush, Obter, ExecutarOperacao,
         PublicarRetry, Quarentenar, ConfirmarLrem, ReleaseLease, past
    <3> QED BY <3>1, <1>2
  <2> QED BY <2>1, <2>2
<1>5. ASSUME NEW w \in Workers,
             Crash(w) \/ Interrupt(w) \/ \E j \in Jobs : PromoverAtrasados(w, j)
      PROVE  Promises'
  <2>1. accepted' = accepted /\ contested' = contested /\ api' = api /\ doc' = doc
    BY <1>5 DEF Crash, Interrupt, PromoverAtrasados, past
  <2> QED BY <2>1, <1>2
<1>6. ASSUME (\E j \in Jobs : LeaseExpires(j) \/ LeaseLapses(j)) \/ UNCHANGED vars
       PROVE  Promises'
  <2>1. accepted' = accepted /\ contested' = contested /\ api' = api /\ doc' = doc
    BY <1>6 DEF LeaseExpires, LeaseLapses, past, vars
  <2> QED BY <2>1, <1>2
<1> QED BY <1>1, <1>4, <1>5, <1>6, CriarKeeps, ReplayKeeps, PublicarKeeps, RemoverKeeps
        DEF Next, ApiStep

\* No promise of the queue is lost (job_service.py criar_todo_evento,
\* redis_queue.py), for any number of workers, jobs, faults and overlapping
\* requests, up to the exceptions that NeverLost names.
THEOREM NothingIsLost == Spec => []NeverLost
<1>1. Init => Promises
  BY DEF Init, Promises, Creating, NoRequest
<1>2. JobsInv /\ Promises /\ [Next]_vars => Promises'
  BY PromisesNext
<1>3. Promises => AcceptedIsPersisted
  BY DEF Promises, Kept, AcceptedIsPersisted
<1> QED BY <1>1, <1>2, <1>3, JobsInvariant, StartedIsKept, PTL DEF Spec, NeverLost

=============================================================================
