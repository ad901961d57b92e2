--------------------------- MODULE CentralProofs ---------------------------
(***************************************************************************)
(* The safety of the Central, for any number of requests, causes, checks,  *)
(* replicas and clients, and any limit.  What a step does to the requests  *)
(* and to its actor is stated once; then a planner is alone, a worker is   *)
(* alone with what it executes, and checks are recorded before they        *)
(* conclude.                                                               *)
(***************************************************************************)
EXTENDS MCCentral, FiniteSetTheorems, WellFoundedInduction, TLAPS

Pcs == {"idle", "gate_read", "gate_check", "gate_cas", "ev_write", "ev_align", "apply", "picked",
        "block", "executing", "sadd"}

\* A report as the functions use it: results of some checks.
Operacao ==
    [pc : Pcs, req : Requests \cup {None}, sha : Shas \cup {None}, report : Report \cup {None},
     est : {"BLOCKED", "EVIDENCED", "PARTIAL", "NOT_VALIDATED", None},
     goal : {"block", "conclude", None}, adm : SUBSET Requests, que : SUBSET Requests]

TypeOK ==
    /\ req \in [Requests -> WorkRequest \cup {None}]
    /\ index \subseteq Requests
    /\ act \in [Actors -> Operacao]
    /\ evid = [r \in Requests |-> evid[r]]
    /\ \A r \in index : req[r] # None

\* An operation on a request names one that is stored; a report that is being
\* recorded has a SHA.
InHand(a) ==
    /\ act[a].pc \notin {"idle", "apply"} => act[a].req \in Requests /\ req[act[a].req] # None
    /\ act[a].pc \in {"ev_write", "ev_align"} => act[a].sha \in Shas /\ act[a].report \in Report
    /\ act[a].pc \in {"apply", "picked", "executing"} => a \in Replicas /\ a \in admit
    /\ act[a].pc # "apply" => act[a].adm = {} /\ act[a].que = {}
    /\ act[a].adm \subseteq index /\ act[a].que \subseteq index

\* What the current record calls passed was recorded as passed.
Recorded(r) ==
    evid[r] # None =>
        /\ evid[r].sha \in Shas
        /\ \A c \in DOMAIN evid[r].checks :
             evid[r].checks[c] = "PASS" => <<r, evid[r].sha, c>> \in passed

\* Whoever is about to conclude has looked the evidence up.
Gated(a) == At(a, "gate_cas") => ProvenFor(act[a].req, act[a].sha)

\* From taking a request up to aligning it with its evidence a worker is alone
\* with it, and nobody else may take it up.
Working(a) == act[a].pc \in {"executing", "ev_write", "ev_align"}
Alone(a) ==
    (Working(a) /\ act[a].req \notin reopen) =>
        /\ St(act[a].req) \in {"EXECUTING", "BLOCKED", "CANCELLED"}
        /\ \A b \in Replicas : (b # a /\ Working(b)) => act[b].req # act[a].req

\* With one planner, the causes at work and those it is about to admit keep to
\* the limit, and what is at work is listed.
Causes(S) == {CauseOf[r] : r \in S}
WithinLimit(a) ==
    admit \subseteq {a} =>
        /\ \A r \in Requests : St(r) \in ACTIVE_STATUSES => r \in index
        /\ Cardinality(Ativas \cup Causes(act[a].adm)) <= Limite

CentralInv ==
    /\ TypeOK
    /\ \A a \in Actors : InHand(a) /\ Gated(a)
    /\ \A r \in Requests : Recorded(r)
    /\ \A a \in Replicas : Alone(a) /\ WithinLimit(a)

-----------------------------------------------------------------------------
(***************************************************************************)
(* What one step of an actor does.                                         *)
(***************************************************************************)
\* Histories, the index and the stored requests only grow.
Grows ==
    /\ reopen \subseteq reopen' /\ admit \subseteq admit' /\ passed \subseteq passed'
    /\ index \subseteq index'
    /\ \A r \in Requests : req[r] # None => req'[r] # None

\* The ways in which the status of a request changes.
Registered(r)  == St(r) = None /\ St(r)' \in {"RECEIVED", "BLOCKED"}
Admitted(a, r) ==
    /\ At(a, "apply") /\ r \in act[a].adm
    /\ St(r) \in {"RECEIVED", "QUEUED"} /\ St(r)' = "ADMITTED"
Queued(r)      == St(r) = "RECEIVED" /\ St(r)' = "QUEUED"
Taken(a, r)    ==
    /\ At(a, "picked") /\ act[a].req = r
    /\ St(r) \in {"ADMITTED", "AWAITING_EVIDENCE"} /\ St(r)' = "EXECUTING"
Aligned(a, r)  ==
    /\ At(a, "ev_align") /\ act[a].req = r /\ act'[a].pc \notin {"executing", "ev_write", "ev_align"}
    /\ St(r) \in ACTIVE_STATUSES /\ St(r)' = "AWAITING_EVIDENCE"
    /\ a \in Users => r \in reopen'
Blocked(r)     == St(r)' = "BLOCKED" /\ St(r) \notin {"EVIDENCED", "CANCELLED", None}
Concluded(a, r) ==
    At(a, "gate_cas") /\ act[a].req = r /\ St(r) = "AWAITING_EVIDENCE" /\ St(r)' = "EVIDENCED"
Asked(a, r) ==
    /\ a \in Users
    /\ St(r) \in Status /\ St(r)' \in Transicoes[St(r)] /\ St(r)' # "EVIDENCED"
    /\ St(r)' = "ADMITTED" => a \in admit'
    /\ St(r) = "BLOCKED" /\ St(r)' \in {"QUEUED", "ADMITTED"} => r \in reopen'
    /\ St(r)' = "AWAITING_EVIDENCE" => r \in reopen'

StatusStep(a, r) ==
    \/ St(r)' = St(r) \/ Registered(r) \/ Admitted(a, r) \/ Queued(r) \/ Taken(a, r)
    \/ Aligned(a, r) \/ Blocked(r) \/ Concluded(a, r) \/ Asked(a, r)

\* How a worker comes to work on a request.
WorkStep(a) ==
    (Working(a)' /\ a \in Replicas) =>
        /\ act'[a].req = act[a].req
        /\ Working(a) \/ Taken(a, act[a].req)

\* What is to be admitted was planned.
PlanStep(a) == act'[a].adm \subseteq act[a].adm \/ Planejar(a)

Others(a) == \A b \in Actors \ {a} : act'[b] = act[b]

Effects(a) ==
    /\ TypeOK' /\ Grows /\ Others(a)
    /\ InHand(a)' /\ Gated(a)' /\ \A r \in Requests : Recorded(r)'
    /\ \A r \in Requests : StatusStep(a, r)
    /\ WorkStep(a) /\ PlanStep(a)

-----------------------------------------------------------------------------
LEMMA IdleTyped == Idle \in Operacao /\ Idle.pc = "idle" /\ Idle.adm = {} /\ Idle.que = {}
BY DEF Idle, Operacao, Pcs

\* The transition table, row by row.
LEMMA Table ==
    /\ Transicoes["RECEIVED"] = {"QUEUED", "ADMITTED", "BLOCKED", "CANCELLED"}
    /\ Transicoes["QUEUED"] = {"ADMITTED", "BLOCKED", "CANCELLED"}
    /\ Transicoes["ADMITTED"] = {"EXECUTING", "QUEUED", "BLOCKED", "CANCELLED"}
    /\ Transicoes["EXECUTING"] = {"AWAITING_EVIDENCE", "BLOCKED", "CANCELLED"}
    /\ Transicoes["AWAITING_EVIDENCE"] = {"EVIDENCED", "EXECUTING", "BLOCKED", "CANCELLED"}
    /\ Transicoes["BLOCKED"] = {"QUEUED", "ADMITTED", "CANCELLED"}
    /\ Transicoes["EVIDENCED"] = {} /\ Transicoes["CANCELLED"] = {}
BY DEF Transicoes

LEMMA TableTyped ==
    ASSUME NEW s \in Status PROVE Transicoes[s] \subseteq Status
BY Table DEF Status

\* An actor writes its record.
LEMMA ActWritten ==
    ASSUME TypeOK, NEW a \in Actors, NEW y \in Operacao, act' = [act EXCEPT ![a] = y]
    PROVE  act' \in [Actors -> Operacao] /\ act'[a] = y /\ Others(a)
BY DEF TypeOK, Others

\* The compare-and-set of transicionar.
LEMMA Transition ==
    ASSUME TypeOK, NEW r \in Requests, NEW s \in Status, Transicionar(r, s)
    PROVE  /\ req' \in [Requests -> WorkRequest \cup {None}]
           /\ \A q \in Requests : req[q] # None <=> req'[q] # None
           /\ \A q \in Requests \ {r} : req'[q] = req[q]
           /\ Permitted(r, s) => St(r) \in Status /\ s \in Transicoes[St(r)] /\ St(r)' = s
           /\ ~ Permitted(r, s) => req' = req
<1>1. CASE ~ Permitted(r, s)
  BY <1>1 DEF Transicionar, TypeOK
<1>2. CASE Permitted(r, s)
  <2>1. req[r] # None /\ req[r] \in WorkRequest
    BY <1>2 DEF Permitted, TypeOK
  <2>2. PICK x \in WorkRequest : x = req[r]
    BY <2>1
  <2>3. PICK y \in WorkRequest : y = [x EXCEPT !.status = s]
    BY DEF WorkRequest
  <2>4. y.status = s /\ y # None
    BY <2>3, CentralAssumption DEF WorkRequest
  <2>5. req' = [req EXCEPT ![r] = y]
    BY <1>2, <2>2, <2>3 DEF Transicionar
  <2>6. /\ req' \in [Requests -> WorkRequest \cup {None}] /\ req'[r] = y
        /\ \A q \in Requests \ {r} : req'[q] = req[q]
    BY <2>5 DEF TypeOK
  <2>7. St(r) \in Status /\ s \in Transicoes[St(r)]
    BY <1>2, <2>1 DEF Permitted, St, WorkRequest
  <2> QED BY <1>2, <2>1, <2>4, <2>6, <2>7 DEF St
<1> QED BY <1>1, <1>2

\* A step that leaves the requests, the evidence and the histories alone.
LEMMA ActOnly ==
    ASSUME CentralInv, NEW a \in Actors, NEW y \in Operacao, act' = [act EXCEPT ![a] = y],
           UNCHANGED <<req, index, evid, passed, reopen>>, admit \subseteq admit',
           y.pc \notin {"idle", "apply"} => y.req \in Requests /\ req[y.req] # None,
           y.pc \in {"ev_write", "ev_align"} => y.sha \in Shas /\ y.report \in Report,
           y.pc \in {"apply", "picked", "executing"} => a \in Replicas /\ a \in admit',
           y.pc # "apply" => y.adm = {} /\ y.que = {},
           y.adm \subseteq index, y.que \subseteq index,
           y.pc = "gate_cas" => ProvenFor(y.req, y.sha),
           (y.pc \in {"executing", "ev_write", "ev_align"} /\ a \in Replicas) =>
                y.req = act[a].req /\ Working(a),
           y.adm \subseteq act[a].adm \/ Planejar(a)
    PROVE  Effects(a)
<1>1. act' \in [Actors -> Operacao] /\ act'[a] = y /\ Others(a)
  BY ActWritten DEF CentralInv
<1>2. TypeOK' /\ Grows
  BY <1>1 DEF CentralInv, TypeOK, Grows
<1>3. InHand(a)'
  BY <1>1 DEF InHand
<1>4. Gated(a)'
  BY <1>1 DEF Gated, At, ProvenFor
<1>5. \A r \in Requests : Recorded(r)'
  BY DEF CentralInv, Recorded
<1>6. \A r \in Requests : StatusStep(a, r)
  BY DEF StatusStep, St
<1>7. WorkStep(a) /\ PlanStep(a)
  BY <1>1 DEF WorkStep, PlanStep, Working
<1> QED BY <1>1, <1>2, <1>3, <1>4, <1>5, <1>6, <1>7 DEF Effects

LEMMA DoneOnly ==
    ASSUME CentralInv, NEW a \in Actors, Done(a), UNCHANGED <<req, index, evid, passed, reopen, admit>>
    PROVE  Effects(a)
BY IdleTyped, ActOnly DEF Done

-----------------------------------------------------------------------------
\* Conclusion.
LEMMA GateSteps ==
    ASSUME CentralInv, NEW a \in Actors, GateRead(a) \/ GateCheck(a)
    PROVE  Effects(a)
<1>0. PICK x \in Operacao : x = act[a]
  BY DEF CentralInv, TypeOK
<1>1. /\ x.req \in Requests /\ req[x.req] # None /\ x.adm = {} /\ x.que = {}
      /\ x.pc \in {"gate_read", "gate_check"}
  BY <1>0 DEF CentralInv, InHand, GateRead, GateCheck, At
<1>2. CASE Done(a)
  BY <1>2, DoneOnly DEF GateRead, GateCheck, past
<1>3. CASE GateRead(a) /\ ~ Done(a)
  <2>1. PICK s \in Shas \cup {None} : s = req[x.req].sha
    BY <1>1 DEF CentralInv, TypeOK, WorkRequest
  <2>2. PICK y \in Operacao : y = [x EXCEPT !.pc = "gate_check", !.sha = s]
    BY DEF Operacao, Pcs
  <2>3. act' = [act EXCEPT ![a] = y]
    BY <1>0, <1>3, <2>1, <2>2 DEF GateRead, CentralInv, TypeOK
  <2>4. y.pc = "gate_check" /\ y.req = x.req /\ y.adm = {} /\ y.que = {}
    BY <1>1, <2>2 DEF Operacao
  <2> QED BY <1>1, <1>3, <2>3, <2>4, ActOnly DEF GateRead, past
<1>4. CASE GateCheck(a) /\ ~ Done(a)
  <2>1. StatusValidoParaSha(evid[x.req], x.sha) = "EVIDENCED"
    BY <1>0, <1>4 DEF GateCheck
  <2>2. PICK y \in Operacao : y = [x EXCEPT !.pc = "gate_cas"]
    BY DEF Operacao, Pcs
  <2>3. act' = [act EXCEPT ![a] = y]
    BY <1>0, <1>4, <2>2 DEF GateCheck, CentralInv, TypeOK
  <2>4. y.pc = "gate_cas" /\ y.req = x.req /\ y.sha = x.sha /\ y.adm = {} /\ y.que = {}
    BY <1>1, <2>2 DEF Operacao
  <2>5. ProvenFor(x.req, x.sha)
    <3>1. PICK e : e = evid[x.req]
      OBVIOUS
    <3>2. e # None /\ (x.sha = None \/ e.sha = x.sha) /\ DerivarStatus(e.checks) = "EVIDENCED"
      BY <2>1, <3>1 DEF StatusValidoParaSha
    <3>3. \A c \in Checks : c \in DOMAIN e.checks /\ e.checks[c] = "PASS"
      BY <3>2 DEF DerivarStatus
    <3>4. /\ e.sha \in Shas
          /\ \A c \in DOMAIN e.checks : e.checks[c] = "PASS" => <<x.req, e.sha, c>> \in passed
      BY <1>1, <3>1, <3>2 DEF CentralInv, Recorded
    <3> QED BY <3>2, <3>3, <3>4 DEF ProvenFor
  <2> QED BY <1>1, <1>4, <2>3, <2>4, <2>5, ActOnly DEF GateCheck, past
<1> QED BY <1>2, <1>3, <1>4

\* A compare-and-set after which the operation is over.
LEMMA LastTransition ==
    ASSUME CentralInv, NEW a \in Actors, NEW r \in Requests, NEW s \in Status,
           Transicionar(r, s), Done(a), UNCHANGED <<index, evid, passed, reopen, admit>>,
           Permitted(r, s) => StatusStep(a, r)
    PROVE  Effects(a)
<1>1. /\ req' \in [Requests -> WorkRequest \cup {None}]
      /\ \A q \in Requests : req[q] # None <=> req'[q] # None
      /\ \A q \in Requests \ {r} : req'[q] = req[q]
      /\ ~ Permitted(r, s) => req' = req
  BY Transition DEF CentralInv
<1>2. act' \in [Actors -> Operacao] /\ act'[a] = Idle /\ Others(a)
  BY IdleTyped, ActWritten DEF CentralInv, Done
<1>3. TypeOK' /\ Grows
  BY <1>1, <1>2 DEF CentralInv, TypeOK, Grows
<1>4. InHand(a)' /\ Gated(a)' /\ WorkStep(a) /\ PlanStep(a)
  BY <1>2, IdleTyped DEF InHand, Gated, At, WorkStep, Working, PlanStep
<1>5. \A q \in Requests : Recorded(q)'
  BY DEF CentralInv, Recorded
<1>6. ASSUME NEW q \in Requests PROVE StatusStep(a, q)
  <2>1. CASE q = r /\ Permitted(r, s)
    BY <2>1
  <2>2. CASE req'[q] = req[q]
    BY <2>2 DEF StatusStep, St
  <2> QED BY <1>1, <2>1, <2>2
<1> QED BY <1>2, <1>3, <1>4, <1>5, <1>6 DEF Effects

LEMMA CasSteps ==
    ASSUME CentralInv, NEW a \in Actors, GateCas(a) \/ Bloquear(a)
    PROVE  Effects(a)
<1>1. PICK r : r = act[a].req
  OBVIOUS
<1>2. r \in Requests
  BY <1>1 DEF CentralInv, InHand, GateCas, Bloquear, At
<1>3. CASE GateCas(a)
  <2>1. Transicionar(r, "EVIDENCED") /\ Done(a) /\ At(a, "gate_cas")
    BY <1>1, <1>3 DEF GateCas
  <2>2. Permitted(r, "EVIDENCED") =>
            St(r) \in Status /\ "EVIDENCED" \in Transicoes[St(r)] /\ St(r)' = "EVIDENCED"
    BY <1>2, <2>1, Transition DEF CentralInv, Status
  <2>3. Permitted(r, "EVIDENCED") => Concluded(a, r)
    BY <1>1, <2>1, <2>2, Table DEF Concluded, Status
  <2> QED BY <1>2, <1>3, <2>1, <2>3, LastTransition DEF GateCas, past, StatusStep, Status
<1>4. CASE Bloquear(a)
  <2>1. Transicionar(r, "BLOCKED") /\ Done(a)
    BY <1>1, <1>4 DEF Bloquear
  <2>2. Permitted(r, "BLOCKED") =>
            St(r) \in Status /\ "BLOCKED" \in Transicoes[St(r)] /\ St(r)' = "BLOCKED"
    BY <1>2, <2>1, Transition DEF CentralInv, Status
  <2>3. Permitted(r, "BLOCKED") => Blocked(r)
    <3>1. Permitted(r, "BLOCKED") => St(r) # None
      BY <2>2, CentralAssumption
    <3> QED BY <2>2, <3>1, Table DEF Blocked, Status
  <2> QED BY <1>2, <1>4, <2>1, <2>3, LastTransition DEF Bloquear, past, StatusStep, Status
<1> QED BY <1>3, <1>4

\* Evidence.
LEMMA StatusDerived ==
    ASSUME NEW checks
    PROVE  DerivarStatus(checks) \in {"BLOCKED", "EVIDENCED", "PARTIAL", "NOT_VALIDATED"}
BY DEF DerivarStatus

LEMMA EvidenceWritten ==
    ASSUME CentralInv, NEW a \in Actors, EvidenceWrite(a)
    PROVE  Effects(a)
<1>0. PICK x \in Operacao : x = act[a]
  BY DEF CentralInv, TypeOK
<1>1. PICK r \in Requests, sha \in Shas, report \in Report :
         /\ r = x.req /\ sha = x.sha /\ report = x.report
         /\ x.pc = "ev_write" /\ x.adm = {} /\ x.que = {} /\ req[r] # None
  BY <1>0 DEF CentralInv, InHand, EvidenceWrite, At
<1>2. PICK reg : reg = AplicarEvidencia(evid[r], sha, report)
  OBVIOUS
<1>3. PICK s \in {"BLOCKED", "EVIDENCED", "PARTIAL", "NOT_VALIDATED"} : s = DerivarStatus(reg.checks)
  BY StatusDerived
<1>4. PICK y \in Operacao : y = [x EXCEPT !.pc = "ev_align", !.est = s]
  BY DEF Operacao, Pcs
<1>5. /\ evid' = [evid EXCEPT ![r] = reg]
      /\ act' = [act EXCEPT ![a] = y]
      /\ passed' = passed \cup {<<r, sha, c>> : c \in {k \in DOMAIN report : report[k] = "PASS"}}
      /\ UNCHANGED <<req, index, admit, reopen>>
  <2>1. act' = [act EXCEPT ![a].pc = "ev_align", ![a].est = s]
    BY <1>0, <1>1, <1>2, <1>3 DEF EvidenceWrite
  <2>2. act' = [act EXCEPT ![a] = y]
    BY <1>0, <1>4, <2>1 DEF CentralInv, TypeOK
  <2>3. evid' = [evid EXCEPT ![r] = reg] /\ UNCHANGED <<req, index, admit, reopen>>
    BY <1>0, <1>1, <1>2 DEF EvidenceWrite
  <2>4. passed' = passed \cup {<<r, sha, c>> : c \in {k \in DOMAIN report : report[k] = "PASS"}}
    BY <1>0, <1>1 DEF EvidenceWrite
  <2> QED BY <2>2, <2>3, <2>4
<1>6. /\ y.pc = "ev_align" /\ y.req = r /\ y.sha = sha /\ y.report = report
      /\ y.adm = {} /\ y.que = {}
  BY <1>1, <1>4 DEF Operacao
<1>7. act' \in [Actors -> Operacao] /\ act'[a] = y /\ Others(a)
  BY <1>5, ActWritten DEF CentralInv
<1>8. evid'[r] = reg /\ \A q \in Requests \ {r} : evid'[q] = evid[q]
  BY <1>5 DEF CentralInv, TypeOK
<1>9. TypeOK' /\ Grows
  BY <1>5, <1>7 DEF CentralInv, TypeOK, Grows
<1>10. InHand(a)' /\ Gated(a)'
  BY <1>1, <1>5, <1>6, <1>7 DEF InHand, Gated, At
<1>11. ASSUME NEW q \in Requests PROVE Recorded(q)'
  <2>1. Recorded(q) /\ passed \subseteq passed'
    BY <1>5 DEF CentralInv, Recorded
  <2>2. CASE q # r
    BY <1>8, <2>1, <2>2 DEF Recorded
  <2>3. CASE q = r
    <3>1. reg.sha = sha
      BY <1>2 DEF AplicarEvidencia
    <3>2. \A c \in DOMAIN report : report[c] = "PASS" => <<r, sha, c>> \in passed'
      BY <1>5
    <3>3. ASSUME NEW c \in DOMAIN reg.checks, reg.checks[c] = "PASS"
          PROVE  <<r, sha, c>> \in passed'
      <4>1. PICK old : old = evid[r]
        OBVIOUS
      <4>2. CASE old = None \/ (old # None /\ old.sha # sha)
        <5>1. reg.checks = report
          BY <1>2, <4>1, <4>2 DEF AplicarEvidencia
        <5> QED BY <3>2, <3>3, <5>1
      <4>3. CASE ~ (old = None \/ (old # None /\ old.sha # sha))
        <5>1. reg.checks = [k \in DOMAIN report \cup DOMAIN old.checks |->
                               IF k \in DOMAIN report THEN report[k] ELSE old.checks[k]]
          BY <1>2, <4>1, <4>3 DEF AplicarEvidencia
        <5>2. CASE c \in DOMAIN report
          BY <3>2, <3>3, <5>1, <5>2
        <5>3. CASE c \notin DOMAIN report
          BY <2>1, <2>3, <3>3, <4>1, <4>3, <5>1, <5>3 DEF Recorded
        <5> QED BY <5>2, <5>3
      <4> QED BY <4>2, <4>3
    <3> QED BY <1>8, <2>3, <3>1, <3>3 DEF Recorded
  <2> QED BY <2>2, <2>3
<1>12. \A q \in Requests : StatusStep(a, q)
  BY <1>5 DEF StatusStep, St
<1>13. WorkStep(a) /\ PlanStep(a)
  BY <1>0, <1>1, <1>6, <1>7 DEF WorkStep, PlanStep, Working
<1> QED BY <1>7, <1>9, <1>10, <1>11, <1>12, <1>13 DEF Effects

LEMMA EvidenceAligned ==
    ASSUME CentralInv, NEW a \in Actors, EvidenceAlign(a)
    PROVE  Effects(a)
<1>0. PICK x \in Operacao : x = act[a]
  BY DEF CentralInv, TypeOK
<1>1. PICK r \in Requests, sha \in Shas :
         /\ r = x.req /\ sha = x.sha
         /\ x.pc = "ev_align" /\ x.adm = {} /\ x.que = {} /\ req[r] # None
  BY <1>0 DEF CentralInv, InHand, EvidenceAlign, At
<1>2. PICK old \in WorkRequest : old = req[r]
  BY <1>1 DEF CentralInv, TypeOK
<1>3. PICK s \in Status : s = IF old.status \in ACTIVE_STATUSES /\ x.est # "BLOCKED"
                              THEN "AWAITING_EVIDENCE" ELSE old.status
  BY DEF WorkRequest, Status
<1>4. PICK new \in WorkRequest : new = [old EXCEPT !.sha = sha, !.status = s]
  BY DEF WorkRequest
<1>5. new.status = s /\ new # None
  BY <1>4, CentralAssumption DEF WorkRequest
<1>6. req' = [req EXCEPT ![r] = new]
  <2>1. req' = [req EXCEPT ![r].sha = sha,
                           ![r].status = IF @ \in ACTIVE_STATUSES /\ x.est # "BLOCKED"
                                         THEN "AWAITING_EVIDENCE" ELSE @]
    BY <1>0, <1>1 DEF EvidenceAlign
  <2> QED BY <2>1, <1>2, <1>3, <1>4 DEF CentralInv, TypeOK, WorkRequest
<1>7. /\ req' \in [Requests -> WorkRequest \cup {None}] /\ req'[r] = new
      /\ \A q \in Requests \ {r} : req'[q] = req[q]
  BY <1>6 DEF CentralInv, TypeOK
<1>8. PICK y \in Operacao :
         /\ act' = [act EXCEPT ![a] = y] /\ y.pc \in {"idle", "gate_read", "block"}
         /\ y.adm = {} /\ y.que = {} /\ (y.pc # "idle" => y.req = r)
  <2>1. CASE Done(a)
    BY <2>1, IdleTyped DEF Done
  <2>2. ASSUME NEW p \in {"gate_read", "block"}, act' = [act EXCEPT ![a].pc = p]
        PROVE  \E y \in Operacao :
                 /\ act' = [act EXCEPT ![a] = y] /\ y.pc \in {"idle", "gate_read", "block"}
                 /\ y.adm = {} /\ y.que = {} /\ (y.pc # "idle" => y.req = r)
    <3>1. PICK y \in Operacao : y = [x EXCEPT !.pc = p]
      BY DEF Operacao, Pcs
    <3>2. act' = [act EXCEPT ![a] = y]
      BY <1>0, <2>2, <3>1 DEF CentralInv, TypeOK
    <3>3. y.pc = p /\ y.req = r /\ y.adm = {} /\ y.que = {}
      BY <1>1, <3>1 DEF Operacao
    <3> QED BY <3>2, <3>3
  <2>3. \/ Done(a) \/ act' = [act EXCEPT ![a].pc = "gate_read"]
        \/ act' = [act EXCEPT ![a].pc = "block"]
    BY DEF EvidenceAlign
  <2> QED BY <2>1, <2>2, <2>3
<1>9. act' \in [Actors -> Operacao] /\ act'[a] = y /\ Others(a)
  BY <1>8, ActWritten DEF CentralInv
<1>10. UNCHANGED <<index, evid, passed, admit>> /\ reopen \subseteq reopen'
       /\ (a \in Users => r \in reopen')
  BY <1>0, <1>1 DEF EvidenceAlign
<1>11. TypeOK' /\ Grows
  BY <1>1, <1>5, <1>7, <1>9, <1>10 DEF CentralInv, TypeOK, Grows
<1>12. InHand(a)' /\ Gated(a)' /\ WorkStep(a) /\ PlanStep(a)
  <2>1. InHand(a)'
    BY <1>5, <1>7, <1>8, <1>9 DEF InHand
  <2>2. Gated(a)' /\ WorkStep(a)
    BY <1>8, <1>9 DEF Gated, At, WorkStep, Working
  <2>3. PlanStep(a)
    BY <1>8, <1>9 DEF PlanStep
  <2> QED BY <2>1, <2>2, <2>3
<1>13. \A q \in Requests : Recorded(q)'
  BY <1>10 DEF CentralInv, Recorded
<1>14. ASSUME NEW q \in Requests PROVE StatusStep(a, q)
  <2>1. CASE q # r
    BY <1>7, <2>1 DEF StatusStep, St
  <2>2. CASE q = r
    <3>1. St(r) = old.status /\ St(r)' = s
      BY <1>1, <1>2, <1>5, <1>7 DEF St
    <3>2. CASE old.status \in ACTIVE_STATUSES /\ x.est # "BLOCKED"
      BY <1>0, <1>1, <1>3, <1>8, <1>9, <1>10, <2>2, <3>1, <3>2 DEF StatusStep, Aligned, At
    <3>3. CASE ~ (old.status \in ACTIVE_STATUSES /\ x.est # "BLOCKED")
      BY <1>3, <2>2, <3>1, <3>3 DEF StatusStep
    <3> QED BY <3>2, <3>3
  <2> QED BY <2>1, <2>2
<1> QED BY <1>9, <1>11, <1>12, <1>13, <1>14 DEF Effects

-----------------------------------------------------------------------------
\* The cycle of a worker.
LEMMA PlanMade ==
    ASSUME CentralInv, NEW a \in Replicas, Planejar(a)
    PROVE  Effects(a)
<1>0. a \in Actors
  BY DEF Actors
<1>1. PICK x \in Operacao : x = act[a]
  BY <1>0 DEF CentralInv, TypeOK
<1>2. PICK adm \in SUBSET Requests, que \in SUBSET Requests :
         /\ adm = {r \in Elegiveis : CauseOf[r] \in CausasAdmitidas} /\ que = Elegiveis \ adm
         /\ adm \subseteq index /\ que \subseteq index
  <2>1. Elegiveis \subseteq index /\ index \subseteq Requests
    BY DEF Elegiveis, CentralInv, TypeOK
  <2> QED BY <2>1
<1>3. PICK y \in Operacao : y = [x EXCEPT !.pc = "apply", !.adm = adm, !.que = que]
  BY DEF Operacao, Pcs
<1>4. act' = [act EXCEPT ![a] = y]
  <2>1. act' = [act EXCEPT ![a].pc = "apply", ![a].adm = adm, ![a].que = que]
    BY <1>2 DEF Planejar
  <2> QED BY <1>0, <1>1, <1>3, <2>1 DEF CentralInv, TypeOK
<1>5. y.pc = "apply" /\ y.adm = adm /\ y.que = que
  BY <1>3 DEF Operacao
<1>6. UNCHANGED <<req, index, evid, passed, reopen>> /\ admit \subseteq admit' /\ a \in admit'
  BY DEF Planejar
<1> QED BY <1>0, <1>2, <1>4, <1>5, <1>6, ActOnly

LEMMA Promoted ==
    ASSUME CentralInv, NEW a \in Replicas, NEW r \in Requests, Promover(a, r)
    PROVE  Effects(a)
<1>0. a \in Actors
  BY DEF Actors
<1>1. PICK x \in Operacao : x = act[a]
  BY <1>0 DEF CentralInv, TypeOK
<1>2. /\ x.pc = "apply" /\ a \in admit /\ x.adm \subseteq index /\ x.que \subseteq index
      /\ r \in index /\ req[r] # None
  BY <1>0, <1>1 DEF CentralInv, TypeOK, InHand, Promover, At
<1>3. PICK old \in WorkRequest : old = req[r]
  BY <1>2 DEF CentralInv, TypeOK
<1>4. PICK s \in Status :
         s = IF r \in x.adm
             THEN IF old.status \in {"RECEIVED", "QUEUED"} THEN "ADMITTED" ELSE old.status
             ELSE IF old.status = "RECEIVED" THEN "QUEUED" ELSE old.status
  BY DEF WorkRequest, Status
<1>5. PICK new \in WorkRequest : new = [old EXCEPT !.status = s]
  BY DEF WorkRequest
<1>6. new.status = s /\ new # None
  BY <1>5, CentralAssumption DEF WorkRequest
<1>7. req' = [req EXCEPT ![r] = new]
  <2>1. req' = [req EXCEPT ![r].status =
                  IF r \in x.adm
                  THEN IF @ \in {"RECEIVED", "QUEUED"} THEN "ADMITTED" ELSE @
                  ELSE IF @ = "RECEIVED" THEN "QUEUED" ELSE @]
    BY <1>1 DEF Promover
  <2> QED BY <2>1, <1>3, <1>4, <1>5 DEF CentralInv, TypeOK, WorkRequest
<1>8. /\ req' \in [Requests -> WorkRequest \cup {None}] /\ req'[r] = new
      /\ \A q \in Requests \ {r} : req'[q] = req[q]
  BY <1>7 DEF CentralInv, TypeOK
<1>9. PICK adm \in SUBSET Requests, que \in SUBSET Requests : adm = x.adm \ {r} /\ que = x.que \ {r}
  BY DEF Operacao
<1>10. PICK y \in Operacao : y = [x EXCEPT !.adm = adm, !.que = que]
  BY DEF Operacao
<1>11. act' = [act EXCEPT ![a] = y]
  <2>1. act' = [act EXCEPT ![a].adm = @ \ {r}, ![a].que = @ \ {r}]
    BY DEF Promover
  <2> QED BY <1>0, <1>1, <1>9, <1>10, <2>1 DEF CentralInv, TypeOK, Operacao
<1>12. y.pc = "apply" /\ y.adm = adm /\ y.que = que
  BY <1>2, <1>10 DEF Operacao
<1>13. act' \in [Actors -> Operacao] /\ act'[a] = y /\ Others(a)
  BY <1>0, <1>11, ActWritten DEF CentralInv
<1>14. UNCHANGED <<index, evid, passed, admit, reopen>>
  BY DEF Promover, past
<1>15. TypeOK' /\ Grows
  BY <1>6, <1>8, <1>13, <1>14 DEF CentralInv, TypeOK, Grows
<1>16. InHand(a)'
  BY <1>2, <1>9, <1>12, <1>13, <1>14 DEF InHand
<1>17. Gated(a)' /\ WorkStep(a)
  BY <1>12, <1>13 DEF Gated, At, WorkStep, Working
<1>18. PlanStep(a)
  BY <1>1, <1>9, <1>12, <1>13 DEF PlanStep
<1>19. \A q \in Requests : Recorded(q)'
  BY <1>14 DEF CentralInv, Recorded
<1>20. ASSUME NEW q \in Requests PROVE StatusStep(a, q)
  <2>1. CASE q # r
    BY <1>8, <2>1 DEF StatusStep, St
  <2>2. CASE q = r
    <3>1. St(r) = old.status /\ St(r)' = s
      BY <1>2, <1>3, <1>6, <1>8 DEF St
    <3> QED BY <1>1, <1>2, <1>4, <2>2, <3>1 DEF StatusStep, Admitted, Queued, At
  <2> QED BY <2>1, <2>2
<1> QED BY <1>13, <1>15, <1>16, <1>17, <1>18, <1>19, <1>20 DEF Effects

LEMMA Picked ==
    ASSUME CentralInv, NEW a \in Replicas, ProximoItem(a)
    PROVE  Effects(a)
<1>0. a \in Actors
  BY DEF Actors
<1>1. PICK x \in Operacao : x = act[a]
  BY <1>0 DEF CentralInv, TypeOK
<1>2. a \in admit /\ x.adm = {} /\ x.que = {}
  BY <1>0, <1>1 DEF CentralInv, InHand, ProximoItem, At
<1>3. CASE Done(a)
  BY <1>0, <1>3, DoneOnly DEF ProximoItem, past
<1>4. CASE ~ Done(a)
  <2>1. PICK r \in index, p \in {"block", "picked"} : act' = [act EXCEPT ![a].req = r, ![a].pc = p]
    <3>1. PICK r \in {q \in index : St(q) = "ADMITTED"} \ HumanGate :
             act' = [act EXCEPT ![a].req = r,
                                ![a].pc = IF r \in Unconfigured THEN "block" ELSE "picked"]
      BY <1>4 DEF ProximoItem
    <3>2. PICK p \in {"block", "picked"} : p = IF r \in Unconfigured THEN "block" ELSE "picked"
      OBVIOUS
    <3> QED BY <3>1, <3>2
  <2>2. r \in Requests /\ req[r] # None
    BY <2>1 DEF CentralInv, TypeOK
  <2>3. PICK y \in Operacao : y = [x EXCEPT !.req = r, !.pc = p]
    BY <2>2 DEF Operacao, Pcs
  <2>4. act' = [act EXCEPT ![a] = y]
    BY <1>0, <1>1, <2>1, <2>3 DEF CentralInv, TypeOK
  <2>5. y.pc = p /\ y.req = r /\ y.adm = {} /\ y.que = {}
    BY <1>2, <2>3 DEF Operacao
  <2> QED BY <1>0, <1>2, <2>1, <2>2, <2>4, <2>5, ActOnly DEF ProximoItem, past
<1> QED BY <1>3, <1>4

LEMMA TakenUp ==
    ASSUME CentralInv, NEW a \in Replicas, Assumir(a)
    PROVE  Effects(a)
<1>0. a \in Actors
  BY DEF Actors
<1>1. PICK x \in Operacao : x = act[a]
  BY <1>0 DEF CentralInv, TypeOK
<1>2. PICK r \in Requests :
         /\ r = x.req /\ req[r] # None /\ x.pc = "picked" /\ a \in admit /\ x.adm = {} /\ x.que = {}
  BY <1>0, <1>1 DEF CentralInv, InHand, Assumir, At
<1>3. Transicionar(r, "EXECUTING") /\ UNCHANGED <<index, evid, passed, reopen, admit>>
  BY <1>1, <1>2 DEF Assumir, past
<1>4. /\ req' \in [Requests -> WorkRequest \cup {None}]
      /\ \A q \in Requests : req[q] # None <=> req'[q] # None
      /\ \A q \in Requests \ {r} : req'[q] = req[q]
      /\ Permitted(r, "EXECUTING") => /\ St(r) \in Status /\ "EXECUTING" \in Transicoes[St(r)]
                                      /\ St(r)' = "EXECUTING"
      /\ ~ Permitted(r, "EXECUTING") => req' = req
  BY <1>3, Transition DEF CentralInv, Status
<1>5. CASE ~ Permitted(r, "EXECUTING")
  <2>1. Done(a)
    BY <1>1, <1>2, <1>5 DEF Assumir
  <2> QED BY <1>0, <1>3, <1>4, <1>5, <2>1, DoneOnly
<1>6. CASE Permitted(r, "EXECUTING")
  <2>1. PICK s \in Shas \cup {None} : s = req[r].sha
    BY <1>2 DEF CentralInv, TypeOK, WorkRequest
  <2>2. PICK y \in Operacao : y = [x EXCEPT !.pc = "executing", !.sha = s]
    BY DEF Operacao, Pcs
  <2>3. act' = [act EXCEPT ![a] = y]
    <3>1. act' = [act EXCEPT ![a].pc = "executing", ![a].sha = s]
      BY <1>1, <1>2, <1>6, <2>1 DEF Assumir
    <3> QED BY <1>0, <1>1, <2>2, <3>1 DEF CentralInv, TypeOK
  <2>4. y.pc = "executing" /\ y.req = r /\ y.adm = {} /\ y.que = {}
    BY <1>2, <2>2 DEF Operacao
  <2>5. act' \in [Actors -> Operacao] /\ act'[a] = y /\ Others(a)
    BY <1>0, <2>3, ActWritten DEF CentralInv
  <2>6. TypeOK' /\ Grows
    BY <1>3, <1>4, <2>5 DEF CentralInv, TypeOK, Grows
  <2>7. InHand(a)'
    BY <1>2, <1>3, <1>4, <2>4, <2>5 DEF InHand
  <2>8. Taken(a, r)
    BY <1>1, <1>2, <1>4, <1>6, Table DEF Taken, At, Status
  <2>9. Gated(a)' /\ WorkStep(a)
    BY <1>1, <1>2, <2>4, <2>5, <2>8 DEF Gated, At, WorkStep
  <2>10. PlanStep(a)
    BY <2>4, <2>5 DEF PlanStep
  <2>11. \A q \in Requests : Recorded(q)'
    BY <1>3 DEF CentralInv, Recorded
  <2>12. ASSUME NEW q \in Requests PROVE StatusStep(a, q)
    BY <1>4, <2>8 DEF StatusStep, St
  <2> QED BY <2>5, <2>6, <2>7, <2>9, <2>10, <2>11, <2>12 DEF Effects
<1> QED BY <1>5, <1>6

LEMMA Executed ==
    ASSUME CentralInv, NEW a \in Replicas, Executar(a)
    PROVE  Effects(a)
<1>0. a \in Actors
  BY DEF Actors
<1>1. PICK x \in Operacao : x = act[a]
  BY <1>0 DEF CentralInv, TypeOK
<1>2. PICK r \in Requests :
         /\ r = x.req /\ req[r] # None /\ x.pc = "executing" /\ a \in admit /\ x.adm = {} /\ x.que = {}
  BY <1>0, <1>1 DEF CentralInv, InHand, Executar, At
<1>3. UNCHANGED <<req, index, evid, passed, reopen, admit>>
  BY DEF Executar, past
<1>4. CASE act' = [act EXCEPT ![a].pc = "block"]
  <2>1. PICK y \in Operacao : y = [x EXCEPT !.pc = "block"]
    BY DEF Operacao, Pcs
  <2>2. act' = [act EXCEPT ![a] = y]
    BY <1>0, <1>1, <1>4, <2>1 DEF CentralInv, TypeOK
  <2>3. y.pc = "block" /\ y.req = r /\ y.adm = {} /\ y.que = {}
    BY <1>2, <2>1 DEF Operacao
  <2> QED BY <1>0, <1>2, <1>3, <2>2, <2>3, ActOnly
<1>5. CASE /\ act[a].sha # None
           /\ \E checks \in Reports :
                act' = [act EXCEPT ![a].pc = "ev_write", ![a].report = checks,
                            ![a].goal = IF DerivarStatus(checks) = "BLOCKED"
                                        THEN "block" ELSE "conclude"]
  <2>1. PICK checks \in Reports, g \in {"block", "conclude"} :
           act' = [act EXCEPT ![a].pc = "ev_write", ![a].report = checks, ![a].goal = g]
    BY <1>5
  <2>2. checks \in Report /\ x.sha \in Shas
    BY <1>1, <1>5, CentralAssumption DEF Operacao
  <2>3. PICK y \in Operacao : y = [x EXCEPT !.pc = "ev_write", !.report = checks, !.goal = g]
    BY <2>2 DEF Operacao, Pcs
  <2>4. act' = [act EXCEPT ![a] = y]
    BY <1>0, <1>1, <2>1, <2>3 DEF CentralInv, TypeOK
  <2>5. /\ y.pc = "ev_write" /\ y.req = r /\ y.sha = x.sha /\ y.report = checks
        /\ y.adm = {} /\ y.que = {}
    BY <1>2, <2>3 DEF Operacao
  <2>6. Working(a)
    BY <1>1, <1>2 DEF Working
  <2> QED BY <1>0, <1>1, <1>2, <1>3, <2>2, <2>4, <2>5, <2>6, ActOnly
<1> QED BY <1>4, <1>5 DEF Executar

-----------------------------------------------------------------------------
\* The calls of the API.
LEMMA RegisteredBy ==
    ASSUME CentralInv, NEW u \in Users, NEW r \in Requests, Registrar(u, r), req[r] = None
    PROVE  Effects(u)
<1>0. u \in Actors
  BY DEF Actors
<1>1. PICK x \in Operacao : x = act[u]
  BY <1>0 DEF CentralInv, TypeOK
<1>2. x.pc = "idle" /\ x.adm = {} /\ x.que = {}
  BY <1>0, <1>1 DEF CentralInv, InHand, Registrar, At
<1>3. PICK sha \in Declared[r], s \in {"RECEIVED", "BLOCKED"}, n \in Nat :
         req' = [req EXCEPT ![r] = [status |-> s, sha |-> sha, born |-> n]]
  <2>1. IsFiniteSet({q \in Requests : req[q] # None})
    BY CentralAssumption, FS_Subset
  <2>2. PICK n \in Nat : n = Cardinality({q \in Requests : req[q] # None})
    BY <2>1, FS_CardinalityType
  <2>3. PICK s \in {"RECEIVED", "BLOCKED"} : s = IF r \in HumanGate THEN "BLOCKED" ELSE "RECEIVED"
    OBVIOUS
  <2> QED BY <2>2, <2>3 DEF Registrar
<1>4. PICK new \in WorkRequest : new = [status |-> s, sha |-> sha, born |-> n]
  <2>1. sha \in Shas \cup {None}
    BY CentralAssumption
  <2> QED BY <2>1 DEF WorkRequest, Status
<1>5. new.status = s /\ new # None
  BY <1>4, CentralAssumption DEF WorkRequest
<1>6. /\ req' \in [Requests -> WorkRequest \cup {None}] /\ req'[r] = new
      /\ \A q \in Requests \ {r} : req'[q] = req[q]
  BY <1>3, <1>4 DEF CentralInv, TypeOK
<1>7. PICK y \in Operacao : y = [x EXCEPT !.pc = "sadd", !.req = r]
  BY DEF Operacao, Pcs
<1>8. act' = [act EXCEPT ![u] = y]
  <2>1. act' = [act EXCEPT ![u].pc = "sadd", ![u].req = r]
    BY DEF Registrar
  <2> QED BY <1>0, <1>1, <1>7, <2>1 DEF CentralInv, TypeOK
<1>9. y.pc = "sadd" /\ y.req = r /\ y.adm = {} /\ y.que = {}
  BY <1>2, <1>7 DEF Operacao
<1>10. act' \in [Actors -> Operacao] /\ act'[u] = y /\ Others(u)
  BY <1>0, <1>8, ActWritten DEF CentralInv
<1>11. UNCHANGED <<index, evid, passed, admit, reopen>>
  BY DEF Registrar, past
<1>12. TypeOK' /\ Grows
  BY <1>5, <1>6, <1>10, <1>11 DEF CentralInv, TypeOK, Grows
<1>13. InHand(u)'
  BY <1>5, <1>6, <1>9, <1>10 DEF InHand
<1>14. Gated(u)' /\ WorkStep(u)
  BY <1>9, <1>10 DEF Gated, At, WorkStep, Working
<1>15. PlanStep(u)
  BY <1>9, <1>10 DEF PlanStep
<1>16. \A q \in Requests : Recorded(q)'
  BY <1>11 DEF CentralInv, Recorded
<1>17. ASSUME NEW q \in Requests PROVE StatusStep(u, q)
  BY <1>5, <1>6 DEF StatusStep, Registered, St
<1> QED BY <1>10, <1>12, <1>13, <1>14, <1>15, <1>16, <1>17 DEF Effects

LEMMA Listed ==
    ASSUME CentralInv, NEW u \in Users, Sadd(u)
    PROVE  Effects(u)
<1>0. u \in Actors
  BY DEF Actors
<1>1. PICK r \in Requests : r = act[u].req /\ req[r] # None
  BY <1>0 DEF CentralInv, InHand, Sadd, At
<1>2. index' = index \cup {r} /\ UNCHANGED <<req, evid, passed, admit, reopen>>
  BY <1>1 DEF Sadd, past
<1>3. act' \in [Actors -> Operacao] /\ act'[u] = Idle /\ Others(u)
  BY <1>0, IdleTyped, ActWritten DEF CentralInv, Sadd, Done
<1>4. TypeOK' /\ Grows
  BY <1>1, <1>2, <1>3 DEF CentralInv, TypeOK, Grows
<1>5. InHand(u)' /\ Gated(u)' /\ WorkStep(u) /\ PlanStep(u)
  BY <1>3, IdleTyped DEF InHand, Gated, At, WorkStep, Working, PlanStep
<1>6. \A q \in Requests : Recorded(q)'
  BY <1>2 DEF CentralInv, Recorded
<1>7. \A q \in Requests : StatusStep(u, q)
  BY <1>2 DEF StatusStep, St
<1> QED BY <1>3, <1>4, <1>5, <1>6, <1>7 DEF Effects

LEMMA Posted ==
    ASSUME CentralInv, NEW u \in Users, NEW r \in Requests, NEW s \in Status, PostTransition(u, r, s)
    PROVE  Effects(u)
<1>0. u \in Actors
  BY DEF Actors
<1>1. PICK x \in Operacao : x = act[u]
  BY <1>0 DEF CentralInv, TypeOK
<1>2. x.pc = "idle" /\ x.adm = {} /\ x.que = {} /\ req[r] # None
  BY <1>0, <1>1 DEF CentralInv, InHand, PostTransition, Call, At
<1>3. /\ UNCHANGED <<index, evid, passed>> /\ admit \subseteq admit' /\ reopen \subseteq reopen'
      /\ s = "ADMITTED" => u \in admit'
      /\ (St(r) = "BLOCKED" /\ s \in {"QUEUED", "ADMITTED"}) => r \in reopen'
      /\ s = "AWAITING_EVIDENCE" => r \in reopen'
  BY DEF PostTransition
<1>4. CASE s = "EVIDENCED"
  <2>1. PICK y \in Operacao : y = [x EXCEPT !.pc = "gate_read", !.req = r]
    BY DEF Operacao, Pcs
  <2>2. act' = [act EXCEPT ![u] = y]
    <3>1. act' = [act EXCEPT ![u].pc = "gate_read", ![u].req = r]
      BY <1>4 DEF PostTransition
    <3> QED BY <1>0, <1>1, <2>1, <3>1 DEF CentralInv, TypeOK
  <2>3. y.pc = "gate_read" /\ y.req = r /\ y.adm = {} /\ y.que = {}
    BY <1>2, <2>1 DEF Operacao
  <2>4. req' = req /\ reopen' = reopen
    BY <1>4 DEF PostTransition
  <2> QED BY <1>0, <1>2, <1>3, <2>2, <2>3, <2>4, ActOnly
<1>5. CASE s # "EVIDENCED"
  <2>1. Transicionar(r, s) /\ act' = act
    BY <1>5 DEF PostTransition
  <2>2. /\ req' \in [Requests -> WorkRequest \cup {None}]
        /\ \A q \in Requests : req[q] # None <=> req'[q] # None
        /\ \A q \in Requests \ {r} : req'[q] = req[q]
        /\ Permitted(r, s) => St(r) \in Status /\ s \in Transicoes[St(r)] /\ St(r)' = s
        /\ ~ Permitted(r, s) => req' = req
    BY <2>1, Transition DEF CentralInv
  <2>3. TypeOK' /\ Grows /\ Others(u)
    BY <1>3, <2>1, <2>2 DEF CentralInv, TypeOK, Grows, Others
  <2>4. InHand(u)'
    BY <1>0, <1>1, <1>2, <2>1 DEF InHand
  <2>5. Gated(u)' /\ WorkStep(u)
    BY <1>1, <1>2, <2>1 DEF Gated, At, WorkStep, Working
  <2>6. PlanStep(u)
    BY <2>1 DEF PlanStep
  <2>7. \A q \in Requests : Recorded(q)'
    BY <1>3 DEF CentralInv, Recorded
  <2>8. ASSUME NEW q \in Requests PROVE StatusStep(u, q)
    <3>1. CASE q = r /\ Permitted(r, s)
      BY <1>3, <1>5, <2>2, <3>1 DEF StatusStep, Asked
    <3>2. CASE req'[q] = req[q]
      BY <3>2 DEF StatusStep, St
    <3> QED BY <2>2, <3>1, <3>2
  <2> QED BY <2>3, <2>4, <2>5, <2>6, <2>7, <2>8 DEF Effects
<1> QED BY <1>4, <1>5

LEMMA EvidencePosted ==
    ASSUME CentralInv, NEW u \in Users, NEW r \in Requests, PostEvidence(u, r)
    PROVE  Effects(u)
<1>0. u \in Actors /\ u \notin Replicas
  BY CentralAssumption DEF Actors
<1>1. PICK x \in Operacao : x = act[u]
  BY <1>0 DEF CentralInv, TypeOK
<1>2. x.pc = "idle" /\ x.adm = {} /\ x.que = {} /\ req[r] # None
  BY <1>0, <1>1 DEF CentralInv, InHand, PostEvidence, Call, At
<1>3. PICK sha \in Shas, checks \in Reports :
         act' = [act EXCEPT ![u].pc = "ev_write", ![u].req = r, ![u].sha = sha, ![u].report = checks]
  BY DEF PostEvidence
<1>4. checks \in Report
  BY CentralAssumption
<1>5. PICK y \in Operacao :
         y = [x EXCEPT !.pc = "ev_write", !.req = r, !.sha = sha, !.report = checks]
  BY <1>4 DEF Operacao, Pcs
<1>6. act' = [act EXCEPT ![u] = y]
  BY <1>0, <1>1, <1>3, <1>5 DEF CentralInv, TypeOK
<1>7. /\ y.pc = "ev_write" /\ y.req = r /\ y.sha = sha /\ y.report = checks
      /\ y.adm = {} /\ y.que = {}
  BY <1>2, <1>5 DEF Operacao
<1>8. UNCHANGED <<req, index, evid, passed, reopen, admit>>
  BY DEF PostEvidence
<1> QED BY <1>0, <1>2, <1>4, <1>6, <1>7, <1>8, ActOnly

-----------------------------------------------------------------------------
\* Every step is a step of one actor with these effects, or changes nothing.
LEMMA EveryStep ==
    ASSUME CentralInv, Next
    PROVE  (\E a \in Actors : Effects(a)) \/ UNCHANGED vars
<1>1. ASSUME NEW a \in Actors, Operation(a) \/ Abort(a) PROVE Effects(a)
  <2>1. CASE Abort(a)
    BY <2>1, DoneOnly DEF Abort
  <2> QED BY <1>1, <2>1, GateSteps, CasSteps, EvidenceWritten, EvidenceAligned DEF Operation
<1>2. ASSUME NEW a \in Replicas, Cycle(a) PROVE Effects(a)
  <2>1. a \in Actors
    BY DEF Actors
  <2> QED BY <1>2, <2>1, PlanMade, Picked, TakenUp, Executed, CasSteps, Promoted DEF Cycle
<1>3. ASSUME NEW u \in Users, NEW r \in Requests, Registrar(u, r)
      PROVE  Effects(u) \/ UNCHANGED vars
  <2>1. CASE req[r] # None
    BY <1>3, <2>1 DEF Registrar, vars
  <2> QED BY <1>3, <2>1, RegisteredBy
<1>4. Users \subseteq Actors /\ Replicas \subseteq Actors
  BY DEF Actors
<1>5. CASE \E u \in Users : \/ Sadd(u)
                        \/ \E r \in Requests : \/ Registrar(u, r) \/ PostEvidence(u, r)
                                               \/ \E s \in Status : PostTransition(u, r, s)
  BY <1>3, <1>4, <1>5, Listed, Posted, EvidencePosted
<1> QED BY <1>1, <1>2, <1>4, <1>5 DEF Next


-----------------------------------------------------------------------------
(***************************************************************************)
(* What the effects of a step say about the invariant.                     *)
(***************************************************************************)
LEMMA OthersKept ==
    ASSUME CentralInv, NEW a \in Actors, Effects(a), NEW b \in Actors
    PROVE  InHand(b)' /\ Gated(b)'
<1>1. CASE b = a
  BY <1>1 DEF Effects
<1>2. CASE b # a
  <2>1. act'[b] = act[b] /\ Grows /\ InHand(b) /\ Gated(b)
    BY <1>2 DEF Effects, Others, CentralInv
  <2>2. InHand(b)'
    BY <2>1 DEF InHand, Grows
  <2>3. Gated(b)'
    BY <2>1 DEF Gated, At, ProvenFor, Grows
  <2> QED BY <2>2, <2>3
<1> QED BY <1>1, <1>2

\* A request in work is taken out of the worker's hands only by a client who
\* reopens it, takes it for executed or records evidence, or by the worker.
Busy == {"EXECUTING", "BLOCKED", "CANCELLED"}

LEMMA BusyStays ==
    ASSUME CentralInv, NEW a \in Actors, Effects(a), NEW q \in Requests, q \notin reopen',
           St(q) \in Busy
    PROVE  \/ St(q)' \in Busy
           \/ /\ a \in Replicas /\ Working(a) /\ act[a].req = q
              /\ ~ Working(a)'
<1>1. StatusStep(a, q)
  BY DEF Effects
<1>2. CASE Aligned(a, q)
  BY <1>2 DEF Aligned, At, Working, Actors
<1>3. CASE Asked(a, q)
  BY <1>3, Table DEF Asked, Busy
<1>4. CASE Registered(q)
  BY <1>4, CentralAssumption DEF Registered, Busy, Status
<1> QED BY <1>1, <1>2, <1>3, <1>4
        DEF StatusStep, Admitted, Queued, Taken, Blocked, Concluded, Busy

LEMMA AloneKept ==
    ASSUME CentralInv, NEW a \in Actors, Effects(a), NEW b \in Replicas
    PROVE  Alone(b)'
<1>1. SUFFICES ASSUME Working(b)', act'[b].req \notin reopen'
               PROVE  /\ St(act[b].req)' \in Busy
                      /\ \A c \in Replicas : (c # b /\ Working(c)') => act'[c].req # act'[b].req
  BY DEF Alone, Busy
<1>2. b \in Actors
  BY DEF Actors
<1>3. PICK q \in Requests : q = act'[b].req
  <2>1. InHand(b)'
    BY <1>2, OthersKept
  <2> QED BY <1>1, <2>1 DEF InHand, Working
<1>4. q \notin reopen /\ q \notin reopen'
  BY <1>1, <1>3 DEF Effects, Grows
<1>5. \A c \in Replicas \ {a} : act'[c] = act[c] /\ (Working(c)' <=> Working(c))
  BY DEF Effects, Others, Actors, Working
<1>6. \A c \in Replicas : (Working(c) /\ act[c].req = q) =>
          /\ St(q) \in Busy
          /\ \A d \in Replicas : (d # c /\ Working(d)) => act[d].req # q
  BY <1>4 DEF CentralInv, Alone, Busy
<1>7. (a \in Replicas /\ Working(a)') => /\ act'[a].req = act[a].req
                                         /\ Working(a) \/ Taken(a, act[a].req)
  BY DEF Effects, WorkStep
<1>8. Taken(a, q) => St(q) \notin Busy /\ St(q)' \in Busy
  BY DEF Taken, Busy
<1>9. CASE Working(b) /\ act[b].req = q
  <2>1. St(q)' \in Busy
    BY <1>1, <1>4, <1>6, <1>9, BusyStays
  <2>2. ASSUME NEW c \in Replicas, c # b, Working(c)' PROVE act'[c].req # q
    BY <1>5, <1>6, <1>7, <1>8, <1>9, <2>2
  <2> QED BY <1>3, <2>1, <2>2
<1>10. CASE ~ (Working(b) /\ act[b].req = q)
  <2>1. a = b /\ act'[a].req = act[a].req /\ Taken(a, q)
    BY <1>1, <1>3, <1>5, <1>7, <1>10
  <2>2. ASSUME NEW c \in Replicas, c # b, Working(c)' PROVE act'[c].req # q
    BY <1>5, <1>6, <1>8, <2>1, <2>2
  <2> QED BY <1>3, <1>8, <2>1, <2>2
<1> QED BY <1>9, <1>10


-----------------------------------------------------------------------------
(***************************************************************************)
(* The plan keeps to the limit.  The order of the causes is total, so the  *)
(* number of causes before one is its own, and there are no more of them   *)
(* below the number of free places than places.                            *)
(***************************************************************************)
LEMMA MinNat ==
    ASSUME NEW S, S \subseteq Nat, S # {}
    PROVE  Min(S) \in Nat
<1>1. PICK x \in S : \A y \in S : <<y, x>> \notin OpToRel(<, Nat)
  BY NatLessThanWellFounded, WFMin
<1>2. \A y \in S : ~ (y < x)
  BY <1>1, Zenon DEF OpToRel
<1>3. \A y \in S : x =< y
  BY <1>2
<1>4. Min(S) \in S
  BY <1>3, Zenon DEF Min
<1> QED BY <1>4

LEMMA CausesFinite ==
    ASSUME NEW S, S \subseteq Requests
    PROVE  IsFiniteSet(Causes(S))
<1>1. IsFiniteSet(S)
  BY CentralAssumption, FS_Subset
<1>2. [r \in S |-> CauseOf[r]] \in Surjection(S, Causes(S))
  BY DEF Surjection, Causes
<1> QED BY <1>1, <1>2, FS_Surjection

LEMMA AntesTotal ==
    ASSUME TypeOK, NEW c \in Causes(Elegiveis), NEW d \in Causes(Elegiveis)
    PROVE  /\ ~ Antes(c, c)
           /\ c = d \/ Antes(c, d) \/ Antes(d, c)
           /\ \A e \in Causes(Elegiveis) : (Antes(e, c) /\ Antes(c, d)) => Antes(e, d)
<1>1. ASSUME NEW k \in Causes(Elegiveis)
      PROVE  Ordem(k) \in Nat \X Nat \X Nat /\ Ordem(k)[3] = CauseRank[k]
  <2>1. PICK S : S = {r \in Elegiveis : CauseOf[r] = k}
    OBVIOUS
  <2>2. S # {} /\ S \subseteq Elegiveis
    BY <1>1, <2>1 DEF Causes
  <2>3. \A r \in S : r \in Requests /\ Priority[r] \in Nat /\ req[r].born \in Nat
    BY <2>2, CentralAssumption DEF Elegiveis, TypeOK, WorkRequest
  <2>4. PICK P : P = {Priority[r] : r \in S}
    OBVIOUS
  <2>5. PICK B : B = {req[r].born : r \in S}
    OBVIOUS
  <2>6. Min(P) \in Nat /\ Min(B) \in Nat
    BY <2>2, <2>3, <2>4, <2>5, MinNat
  <2>7. CauseRank[k] \in Nat
    BY <2>1, <2>2, <2>3, CentralAssumption
  <2>8. Ordem(k) = <<Min(P), Min(B), CauseRank[k]>>
    BY <2>1, <2>4, <2>5, Zenon DEF Ordem
  <2> QED BY <2>6, <2>7, <2>8
<1>2. ASSUME NEW k \in Causes(Elegiveis), NEW m \in Causes(Elegiveis), CauseRank[k] = CauseRank[m]
      PROVE  k = m
  BY <1>2, CentralAssumption DEF Causes, Elegiveis, TypeOK
<1>3. ASSUME NEW k \in Causes(Elegiveis), NEW m \in Causes(Elegiveis)
      PROVE  Antes(k, m) <=> \/ Ordem(k)[1] < Ordem(m)[1]
                             \/ Ordem(k)[1] = Ordem(m)[1] /\ Ordem(k)[2] < Ordem(m)[2]
                             \/ /\ Ordem(k)[1] = Ordem(m)[1] /\ Ordem(k)[2] = Ordem(m)[2]
                                /\ Ordem(k)[3] < Ordem(m)[3]
  BY Zenon DEF Antes
<1>4. ~ Antes(c, c)
  BY <1>1, <1>3
<1>5. c = d \/ Antes(c, d) \/ Antes(d, c)
  BY <1>1, <1>2, <1>3
<1>6. ASSUME NEW e \in Causes(Elegiveis), Antes(e, c), Antes(c, d) PROVE Antes(e, d)
  BY <1>1, <1>3, <1>6
<1> QED BY <1>4, <1>5, <1>6

LEMMA PlanWithinLimit ==
    ASSUME TypeOK, Cardinality(Ativas) <= Limite
    PROVE  IsFiniteSet(CausasAdmitidas) /\ Cardinality(CausasAdmitidas) <= Limite
<1> DEFINE n == Cardinality(Ativas)
           V == Limite - n
           K == Causes(Elegiveis) \ Ativas
           Before(c) == {d \in K : Antes(d, c)}
           New == {c \in K : Cardinality(Before(c)) < V}
<1>1. Elegiveis \subseteq Requests /\ {s \in index : St(s) \in ACTIVE_STATUSES} \subseteq Requests
  BY DEF Elegiveis, TypeOK
<1>2. IsFiniteSet(Ativas) /\ IsFiniteSet(K)
  <2>1. Ativas = Causes({s \in index : St(s) \in ACTIVE_STATUSES})
    BY DEF Ativas, Causes
  <2>2. IsFiniteSet(Ativas) /\ IsFiniteSet(Causes(Elegiveis))
    BY <1>1, <2>1, CausesFinite
  <2> QED BY <2>2, FS_Difference
<1>3. n \in Nat /\ V \in Nat /\ Limite \in Nat
  BY <1>2, FS_CardinalityType, CentralAssumption
<1>4. Max({V, 0}) = V
  <2>1. V \in {V, 0} /\ \A y \in {V, 0} : V >= y
    BY <1>3
  <2>2. Max({V, 0}) \in {V, 0} /\ \A y \in {V, 0} : Max({V, 0}) >= y
    <3> DEFINE S == {V, 0}
    <3>1. \E x \in S : \A y \in S : x >= y
      BY <2>1
    <3> HIDE DEF S
    <3>2. Max(S) \in S /\ \A y \in S : Max(S) >= y
      BY <3>1, Zenon DEF Max
    <3> QED BY <3>2 DEF S
  <2> QED BY <1>3, <2>2
<1>5. CausasAdmitidas = Ativas \cup New
  <2>1. Causes(Elegiveis) = {CauseOf[r] : r \in Elegiveis}
    BY DEF Causes
  <2> QED BY <1>4, <2>1, Zenon DEF CausasAdmitidas
<1>6. \A c \in K : IsFiniteSet(Before(c)) /\ Cardinality(Before(c)) \in Nat
  <2> SUFFICES ASSUME NEW c \in K PROVE IsFiniteSet(Before(c)) /\ Cardinality(Before(c)) \in Nat
    OBVIOUS
  <2> QED BY <1>2, FS_Subset, FS_CardinalityType
<1>7. ASSUME NEW c \in K, NEW d \in K, Antes(c, d)
      PROVE  Cardinality(Before(c)) < Cardinality(Before(d))
  <2>1. Before(c) \subseteq Before(d) /\ c \in Before(d) /\ c \notin Before(c)
    BY <1>7, AntesTotal
  <2>2. IsFiniteSet(Before(d))
    BY <1>6
  <2>3. Before(c) # Before(d)
    BY <2>1
  <2> HIDE DEF Before
  <2> QED BY <1>6, <2>1, <2>2, <2>3, FS_Subset
<1> DEFINE f == [c \in New |-> Cardinality(Before(c))]
<1>8. f \in Injection(New, 0 .. V - 1)
  <2>1. f \in [New -> 0 .. V - 1]
    <3> SUFFICES ASSUME NEW c \in New PROVE Cardinality(Before(c)) \in 0 .. V - 1
      OBVIOUS
    <3>1. Cardinality(Before(c)) \in Nat /\ Cardinality(Before(c)) < V
      BY <1>6
    <3> HIDE DEF Before, V
    <3> QED BY <1>3, <3>1
  <2>2. ASSUME NEW c \in New, NEW d \in New, Cardinality(Before(c)) = Cardinality(Before(d))
        PROVE  c = d
    <3>1. c \in K /\ d \in K
      OBVIOUS
    <3>2. Cardinality(Before(c)) \in Nat /\ Cardinality(Before(d)) \in Nat
      BY <1>6, <3>1
    <3>3. c = d \/ Antes(c, d) \/ Antes(d, c)
      BY AntesTotal, <3>1
    <3> HIDE DEF Before, K, New
    <3> QED BY <1>7, <2>2, <3>1, <3>2, <3>3
  <2> HIDE DEF New, Before, V
  <2> QED BY <2>1, <2>2 DEF Injection, IsInjective
<1>9. IsFiniteSet(New) /\ Cardinality(New) <= V
  <2>1. IsFiniteSet(0 .. V - 1) /\ Cardinality(0 .. V - 1) = V
    <3> HIDE DEF V
    <3>1. PICK m \in Int : m = V - 1
      BY <1>3
    <3>2. IsFiniteSet(0 .. m) /\ Cardinality(0 .. m) = IF 0 > m THEN 0 ELSE m - 0 + 1
      BY FS_Interval
    <3>3. Cardinality(0 .. m) = V
      BY <1>3, <3>1, <3>2
    <3> QED BY <3>1, <3>2, <3>3
  <2> HIDE DEF New, V, f
  <2> QED BY <1>8, <2>1, FS_Injection
<1>10. Ativas \cap New = {}
  OBVIOUS
<1>11. IsFiniteSet(Ativas \cup New) /\ Cardinality(Ativas \cup New) = n + Cardinality(New) - Cardinality({})
  <2> HIDE DEF New
  <2> QED BY <1>2, <1>9, <1>10, FS_Union
<1>12. Cardinality({}) = 0 /\ Cardinality(New) \in Nat
  BY <1>9, FS_EmptySet, FS_CardinalityType
<1>13. V = Limite - n
  OBVIOUS
<1> HIDE DEF New, V, n
<1> QED BY <1>3, <1>5, <1>9, <1>11, <1>12, <1>13


LEMMA LimitStays ==
    ASSUME CentralInv, NEW a \in Actors, Effects(a), NEW b \in Replicas
    PROVE  WithinLimit(b)'
<1>1. SUFFICES ASSUME admit' \subseteq {b}
               PROVE  /\ \A r \in Requests : St(r)' \in ACTIVE_STATUSES => r \in index'
                      /\ Cardinality(Ativas' \cup Causes(act'[b].adm)) <= Limite
  BY DEF WithinLimit, Causes
<1>2. b \in Actors /\ b \notin Users
  BY CentralAssumption DEF Actors
<1>3. /\ admit \subseteq {b} /\ index \subseteq index'
      /\ \A r \in Requests : St(r) \in ACTIVE_STATUSES => r \in index
      /\ Cardinality(Ativas \cup Causes(act[b].adm)) <= Limite
  BY <1>1 DEF Effects, Grows, CentralInv, WithinLimit
<1>4. /\ index \subseteq Requests /\ index' \subseteq Requests
      /\ act[b].adm \subseteq Requests
  BY <1>2 DEF CentralInv, Effects, TypeOK, Operacao
<1>5. ASSUME NEW r \in Requests, St(r)' \in ACTIVE_STATUSES
      PROVE  \/ St(r) \in ACTIVE_STATUSES
             \/ a = b /\ r \in act[b].adm
  <2>1. StatusStep(a, r)
    BY DEF Effects
  <2>2. CASE Admitted(a, r)
    <3>1. a \in admit
      BY <2>2 DEF Admitted, At, CentralInv, InHand
    <3> QED BY <1>3, <2>2, <3>1 DEF Admitted
  <2>3. CASE Asked(a, r)
    <3>1. St(r)' # "ADMITTED"
      BY <1>1, <1>2, <2>3 DEF Asked
    <3> QED BY <1>5, <2>3, <3>1, Table DEF Asked, ACTIVE_STATUSES, Status
  <2>4. CASE Registered(r) \/ Queued(r) \/ Taken(a, r) \/ Aligned(a, r) \/ Blocked(r) \/ Concluded(a, r)
    BY <1>5, <2>4 DEF Registered, Queued, Taken, Aligned, Blocked, Concluded, ACTIVE_STATUSES
  <2> QED BY <1>5, <2>1, <2>2, <2>3, <2>4 DEF StatusStep
<1>6. act[b].adm \subseteq index
  BY <1>2 DEF CentralInv, InHand
<1>7. \A r \in Requests : St(r)' \in ACTIVE_STATUSES => r \in index'
  BY <1>3, <1>5, <1>6
<1>8. PICK P : P = Ativas \cup Causes(act[b].adm)
  OBVIOUS
<1>9. Ativas' \subseteq P
  BY <1>3, <1>4, <1>5, <1>8 DEF Ativas, Causes
<1>10. IsFiniteSet(P) /\ Cardinality(P) <= Limite /\ Cardinality(P) \in Nat
  <2>1. {s \in index : St(s) \in ACTIVE_STATUSES} \subseteq Requests
    BY <1>4
  <2>2. IsFiniteSet(Ativas)
    BY <2>1, CausesFinite DEF Ativas, Causes
  <2>3. IsFiniteSet(Causes(act[b].adm))
    BY <1>4, CausesFinite
  <2> QED BY <1>3, <1>8, <2>2, <2>3, FS_Union, FS_CardinalityType
<1>11. CASE act'[b].adm \subseteq act[b].adm
  <2>1. Ativas' \cup Causes(act'[b].adm) \subseteq P
    BY <1>8, <1>9, <1>11 DEF Causes
  <2>2. PICK Q : Q = Ativas' \cup Causes(act'[b].adm)
    OBVIOUS
  <2>3. IsFiniteSet(Q) /\ Cardinality(Q) <= Cardinality(P) /\ Cardinality(Q) \in Nat
    BY <1>10, <2>1, <2>2, FS_Subset, FS_CardinalityType
  <2>4. Cardinality(Q) <= Limite
    BY <1>10, <2>3, CentralAssumption
  <2> QED BY <1>7, <2>2, <2>4
<1>12. CASE ~ (act'[b].adm \subseteq act[b].adm)
  <2>1. a = b /\ Planejar(b)
    BY <1>2, <1>12 DEF Effects, PlanStep, Others
  <2>2. Ativas' = Ativas
    BY <2>1 DEF Planejar, Ativas, St
  <2>3. act'[b].adm = {r \in Elegiveis : CauseOf[r] \in CausasAdmitidas}
    <3>1. PICK x \in Operacao : x = act[b]
      BY <1>2 DEF CentralInv, TypeOK
    <3>2. PICK adm : adm = {r \in Elegiveis : CauseOf[r] \in CausasAdmitidas}
      OBVIOUS
    <3>3. PICK que : que = Elegiveis \ adm
      OBVIOUS
    <3>4. act' = [act EXCEPT ![b].pc = "apply", ![b].adm = adm, ![b].que = que]
      BY <2>1, <3>2, <3>3, Zenon DEF Planejar
    <3>5. act'[b] = [x EXCEPT !.pc = "apply", !.adm = adm, !.que = que]
      BY <1>2, <3>1, <3>4 DEF CentralInv, TypeOK
    <3> QED BY <3>2, <3>5 DEF Operacao
  <2>4. Cardinality(Ativas) <= Limite /\ Cardinality(Ativas) \in Nat
    <3>1. Ativas \subseteq P
      BY <1>8
    <3>2. IsFiniteSet(Ativas) /\ Cardinality(Ativas) <= Cardinality(P) /\ Cardinality(Ativas) \in Nat
      BY <1>10, <3>1, FS_Subset, FS_CardinalityType
    <3> QED BY <1>10, <3>2, CentralAssumption
  <2>5. IsFiniteSet(CausasAdmitidas) /\ Cardinality(CausasAdmitidas) <= Limite
    BY <2>4, PlanWithinLimit DEF CentralInv
  <2>6. PICK Q : Q = Ativas' \cup Causes(act'[b].adm)
    OBVIOUS
  <2>7. Q \subseteq CausasAdmitidas
    <3>1. Ativas \subseteq CausasAdmitidas
      BY DEF CausasAdmitidas
    <3>2. Causes(act'[b].adm) \subseteq CausasAdmitidas
      BY <2>3 DEF Causes
    <3> QED BY <2>2, <2>6, <3>1, <3>2
  <2>8. Cardinality(Q) <= Cardinality(CausasAdmitidas)
    BY <2>5, <2>7, FS_Subset
  <2>9. Cardinality(Q) \in Nat /\ Cardinality(CausasAdmitidas) \in Nat
    BY <2>5, <2>7, FS_Subset, FS_CardinalityType
  <2> QED BY <1>7, <2>5, <2>6, <2>8, <2>9, CentralAssumption
<1> QED BY <1>11, <1>12

-----------------------------------------------------------------------------
LEMMA CentralInit == Init => CentralInv
<1> SUFFICES ASSUME Init PROVE CentralInv
  OBVIOUS
<1>1. act = [a \in Actors |-> Idle] /\ req = [r \in Requests |-> None] /\ index = {}
      /\ evid = [r \in Requests |-> None]
  BY DEF Init
<1>2. TypeOK
  BY <1>1, IdleTyped DEF TypeOK
<1>3. \A a \in Actors : InHand(a) /\ Gated(a) /\ ~ Working(a) /\ act[a].adm = {}
  BY <1>1, IdleTyped DEF InHand, Gated, At, Working
<1>4. \A r \in Requests : Recorded(r) /\ St(r) \notin ACTIVE_STATUSES
  BY <1>1, CentralAssumption DEF Recorded, St, ACTIVE_STATUSES, Status
<1>5. ASSUME NEW a \in Replicas PROVE Alone(a) /\ WithinLimit(a)
  <2>1. a \in Actors
    BY DEF Actors
  <2>2. Ativas \cup Causes(act[a].adm) = {}
    BY <1>1, <1>3, <2>1 DEF Ativas, Causes
  <2>3. Cardinality(Ativas \cup Causes(act[a].adm)) <= Limite
    <3>1. Cardinality({}) = 0 /\ 0 <= Limite
      BY FS_EmptySet, CentralAssumption
    <3> QED BY <2>2, <3>1
  <2> QED BY <1>3, <1>4, <2>1, <2>3 DEF Alone, WithinLimit
<1> QED BY <1>2, <1>3, <1>4, <1>5 DEF CentralInv

LEMMA CentralStep == CentralInv /\ [Next]_vars => CentralInv'
<1> SUFFICES ASSUME CentralInv, [Next]_vars PROVE CentralInv'
  OBVIOUS
<1>1. CASE UNCHANGED vars
  <2>1. UNCHANGED <<req, index, evid, act, passed, admit, reopen>>
    BY <1>1 DEF vars, past
  <2>2. TypeOK'
    BY <2>1 DEF CentralInv, TypeOK
  <2>3. ASSUME NEW a \in Actors PROVE InHand(a)' /\ Gated(a)'
    BY <2>1 DEF CentralInv, InHand, Gated, At, ProvenFor
  <2>4. ASSUME NEW r \in Requests PROVE Recorded(r)'
    BY <2>1 DEF CentralInv, Recorded
  <2>5. ASSUME NEW a \in Replicas PROVE Alone(a)'
    BY <2>1 DEF CentralInv, Alone, Working, St
  <2>6. ASSUME NEW a \in Replicas PROVE WithinLimit(a)'
    <3>1. Ativas' = Ativas /\ Causes(act'[a].adm) = Causes(act[a].adm)
      BY <2>1 DEF Ativas, Causes, St
    <3>2. WithinLimit(a)
      BY DEF CentralInv
    <3> QED BY <2>1, <3>1, <3>2 DEF WithinLimit, St, Causes
  <2> QED BY <2>2, <2>3, <2>4, <2>5, <2>6 DEF CentralInv
<1>2. CASE \E a \in Actors : Effects(a)
  <2>1. PICK a \in Actors : Effects(a)
    BY <1>2
  <2>2. TypeOK' /\ \A r \in Requests : Recorded(r)'
    BY <2>1 DEF Effects
  <2>3. \A b \in Actors : InHand(b)' /\ Gated(b)'
    BY <2>1, OthersKept
  <2>4. \A b \in Replicas : Alone(b)' /\ WithinLimit(b)'
    BY <2>1, AloneKept, LimitStays
  <2> QED BY <2>2, <2>3, <2>4 DEF CentralInv
<1> QED BY <1>1, <1>2, EveryStep

\* The invariant of the Central (central_service.py, central_worker.py,
\* central_store.py): operations hold stored requests, evidence is recorded
\* before it concludes, a worker is alone with what it executes, and one
\* planner keeps to the limit, admissions still to be written included.
THEOREM CentralInvariant == Spec => []CentralInv
BY CentralInit, CentralStep, PTL DEF Spec

\* At most Limite root causes have active work as long as one replica plans
\* (wip_policy.py plan, central_service.py aplicar_admissao).
THEOREM LimitKept == Spec => []WipLimit
<1>1. CentralInv => WipLimit
  <2> SUFFICES ASSUME CentralInv, NEW a \in Replicas, admit \subseteq {a}
               PROVE  Cardinality(Ativas) <= Limite
    BY DEF WipLimit
  <2>1. a \in Actors
    BY DEF Actors
  <2>2. PICK P : P = Ativas \cup Causes(act[a].adm)
    OBVIOUS
  <2>3. Cardinality(P) <= Limite
    BY <2>2 DEF CentralInv, WithinLimit
  <2>4. {s \in index : St(s) \in ACTIVE_STATUSES} \subseteq Requests /\ act[a].adm \subseteq Requests
    BY <2>1 DEF CentralInv, TypeOK, Operacao
  <2>5. IsFiniteSet(Ativas) /\ IsFiniteSet(Causes(act[a].adm))
    BY <2>4, CausesFinite DEF Ativas, Causes
  <2>6. IsFiniteSet(P) /\ Cardinality(P) \in Nat /\ Cardinality(Ativas) \in Nat
    BY <2>2, <2>5, FS_Union, FS_CardinalityType
  <2>7. Cardinality(Ativas) <= Cardinality(P)
    BY <2>2, <2>6, FS_Subset
  <2> QED BY <2>3, <2>6, <2>7, CentralAssumption
<1> QED BY <1>1, CentralInvariant, PTL

\* No two workers execute one request at the same time (central_worker.py
\* executar_um_ciclo), unless a client interfered with its execution.
THEOREM ExecutorIsAlone == Spec => []OneExecutor
<1>1. CentralInv => OneExecutor
  BY DEF CentralInv, Alone, Working, OneExecutor, At
<1> QED BY <1>1, CentralInvariant, PTL

\* A conclusion rests on every required check for the SHA it was asked for, and
\* a conclusion or a cancellation stays (central_service.py transicionar).
THEOREM ConclusionsProven == Spec => ConcludedOnEvidence
<1> DEFINE Proven(r) ==
             /\ (St(r) # "EVIDENCED" /\ St(r)' = "EVIDENCED")
                    => \E a \in Actors : At(a, "gate_cas") /\ act[a].req = r
                                          /\ ProvenFor(r, act[a].sha)
             /\ St(r) \in {"EVIDENCED", "CANCELLED"} => St(r)' = St(r)
<1>1. CentralInv /\ [Next]_vars => [\A r \in Requests : Proven(r)]_vars
  <2> SUFFICES ASSUME CentralInv, [Next]_vars, ~ UNCHANGED vars, NEW r \in Requests PROVE Proven(r)
    OBVIOUS
  <2>1. PICK a \in Actors : Effects(a)
    BY EveryStep
  <2>2. StatusStep(a, r) /\ Gated(a)
    BY <2>1 DEF Effects, CentralInv
  <2>3. CASE Concluded(a, r)
    BY <2>2, <2>3 DEF Concluded, Gated
  <2>4. CASE Asked(a, r)
    BY <2>4, Table DEF Asked
  <2>5. CASE Registered(r)
    BY <2>5, CentralAssumption DEF Registered, Status
  <2>6. CASE Admitted(a, r) \/ Queued(r) \/ Taken(a, r) \/ Aligned(a, r) \/ Blocked(r)
    BY <2>6 DEF Admitted, Queued, Taken, Aligned, Blocked, ACTIVE_STATUSES
  <2> QED BY <2>2, <2>3, <2>4, <2>5, <2>6 DEF StatusStep
<1> QED BY <1>1, CentralInvariant, PTL DEF Spec, ConcludedOnEvidence
=============================================================================
