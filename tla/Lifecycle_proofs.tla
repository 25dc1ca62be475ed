-------------------------- MODULE Lifecycle_proofs --------------------------
(***************************************************************************)
(* The requests of a process that may be stopped at any time: what they do *)
(* is allowed and audited, what they answer is true, and what is torn down *)
(* has no user left.                                                       *)
(***************************************************************************)
EXTENDS Lifecycle, SequenceTheorems, TLAPS

----------------------------------------------------------------------------
(* One request *)

\* What a request may have in hand at each of its steps.
RequestOK(k) ==
    /\ k.name = Whole => k.kind \in {"list", "flush"}
    /\ k.pc # "done" => k.status = 0 /\ ~k.applied
    /\ k.pc \notin {"listing", "done"} => k.out = {} /\ k.todo = {}
    /\ k.kind # "list" => k.kept = {}
    /\ k.kind = "list" => k.out \subseteq k.grants /\ (k.status = 200 => k.kept \subseteq k.out)
    /\ k.pc \in {"granted", "listing", "fresh"} => Allowed(k)
    /\ k.pc \in {"granted", "listing"} /\ k.kind # "conditional" => k.entry = "allowed"
    /\ k.pc = "fresh" => k.kind = "conditional"
    /\ k.pc = "listing" => /\ k.kind = "list" /\ k.todo \subseteq k.grants
                           /\ k.kept \subseteq k.out \cup k.todo
    /\ k.applied \/ k.out # {} \/ k.status = 200 => k.entry = "allowed" /\ Allowed(k)
    /\ k.pc = "done" => /\ k.status = 200 /\ k.kind \in Writes => k.applied
                        /\ k.applied => k.status \in {200, 503} \/ k.gone
                        /\ ~k.gone => k.status # 0
                        /\ k.todo # {} => k.status # 500

RequestsOK == \A r \in Requests : RequestOK(req[r]) /\ req[r].kept \subseteq secrets

ServerInv == ServerTypeOK /\ RequestsOK

LEMMA IdleOK == Idle \in Request /\ RequestOK(Idle) /\ Idle.kept = {} /\ Idle.pc = "idle"
BY DEF Idle, Request, Statuses, Operations, Writes, Named, RequestOK, Allowed

LEMMA OpenOK ==
    ASSUME ServerInv, NEW r \in Requests
    PROVE  req[r] \in Request /\ RequestOK(req[r]) /\ req[r].kept \subseteq secrets
BY DEF ServerInv, ServerTypeOK, RequestsOK

\* The goroutine r moves and leaves the rest alone.
LEMMA MoveOK ==
    ASSUME ServerInv, NEW r \in Requests, NEW k \in Request, Becomes(r, k), Quietly,
           RequestOK(k), k.kept \subseteq secrets, k.pc # "auditing", ~At(r, "auditing")
    PROVE  ServerInv'
<1>1. req' \in [Requests -> Request]
  BY DEF ServerInv, ServerTypeOK, Becomes
<1>2. \A q \in Requests : req'[q] = IF q = r THEN k ELSE req[q]
  BY DEF ServerInv, ServerTypeOK, Becomes
<1>3. ServerTypeOK'
  BY <1>1, <1>2 DEF ServerInv, ServerTypeOK, Quietly, At
<1>4. RequestsOK'
  BY <1>2 DEF ServerInv, RequestsOK, Quietly
<1> QED BY <1>3, <1>4 DEF ServerInv

\* What an answer changes of a request.
LEMMA AnswersFields ==
    ASSUME NEW k \in Request, NEW result \in Results, NEW a \in Answers(k, result)
    PROVE  /\ a \in Request /\ a.pc = "done"
           /\ a.kind = k.kind /\ a.name = k.name /\ a.grants = k.grants /\ a.entry = k.entry
           /\ a.applied = k.applied /\ a.todo = k.todo /\ a.out = k.out /\ a.kept = k.kept
           /\ a.status = 200 <=> result = "ok"
           /\ ~a.gone => a.status # 0
           /\ result \in {"unavailable", "cancelled"} => a.status = 503 \/ a.gone
           /\ result = "unavailable" => a.status # 500
<1>1. PICK g \in Gone(result) : a = Sent([k EXCEPT !.gone = g], StatusOf(g, result))
  BY DEF Answers
<1>2. g \in BOOLEAN
  BY <1>1 DEF Gone
<1>3. /\ StatusOf(g, result) \in Statuses
      /\ StatusOf(g, result) = 200 <=> result = "ok"
      /\ ~g => StatusOf(g, result) # 0
      /\ result \in {"unavailable", "cancelled"} => StatusOf(g, result) = 503 \/ g
      /\ result = "unavailable" => StatusOf(g, result) # 500
  BY <1>2 DEF StatusOf, FailureStatus, Statuses, Results
<1> DEFINE s == StatusOf(g, result)
           b == [k EXCEPT !.gone = g]
<1>4. /\ b \in Request
      /\ b.gone = g /\ b.kind = k.kind /\ b.name = k.name /\ b.grants = k.grants
      /\ b.entry = k.entry /\ b.applied = k.applied /\ b.todo = k.todo
      /\ b.out = k.out /\ b.kept = k.kept
  BY <1>2 DEF Request
<1>5. a = [b EXCEPT !.pc = "done", !.status = s]
  BY <1>1 DEF Sent
<1> HIDE DEF b, s
<1>6. /\ a \in Request /\ a.pc = "done" /\ a.status = s
      /\ a.gone = b.gone /\ a.kind = b.kind /\ a.name = b.name /\ a.grants = b.grants
      /\ a.entry = b.entry /\ a.applied = b.applied /\ a.todo = b.todo
      /\ a.out = b.out /\ a.kept = b.kept
  <2>1. s \in Statuses
    BY <1>3 DEF s
  <2> QED BY <1>4, <1>5, <2>1 DEF Request
<1> QED BY <1>3, <1>4, <1>6 DEF s

\* A request that has not applied anything may answer with any failure, and amid a
\* listing with an outage ...
LEMMA FailedOK ==
    ASSUME NEW k \in Request, k.pc # "done", RequestOK(k),
           NEW result \in Results \ {"ok"}, k.pc = "listing" => result = "unavailable",
           NEW a \in Answers(k, result)
    PROVE  a \in Request /\ RequestOK(a) /\ a.kept = k.kept /\ a.pc = "done"
BY AnswersFields DEF RequestOK, Allowed

\* ... and with its result once that is allowed and audited.
LEMMA AnsweredOK ==
    ASSUME NEW k \in Request, k.pc # "done", RequestOK(k), Allowed(k), k.entry = "allowed",
           k.kind \notin Writes, k.kind = "list" => k.kept \subseteq k.out,
           NEW a \in Answers(k, "ok")
    PROVE  a \in Request /\ RequestOK(a) /\ a.kept = k.kept /\ a.pc = "done"
<1>1. "ok" \in Results
  BY DEF Results
<1> QED BY <1>1, AnswersFields DEF RequestOK, Allowed

LEMMA SentOK ==
    ASSUME NEW k \in Request, k.pc \notin {"listing", "done"}, RequestOK(k),
           NEW status \in Statuses \ {0, 200}
    PROVE  /\ Sent(k, status) \in Request /\ RequestOK(Sent(k, status))
           /\ Sent(k, status).kept = k.kept /\ Sent(k, status).pc = "done"
<1> DEFINE a == Sent(k, status)
<1>1. /\ a \in Request /\ a.pc = "done" /\ a.status = status
      /\ a.gone = k.gone /\ a.kind = k.kind /\ a.name = k.name /\ a.grants = k.grants
      /\ a.entry = k.entry /\ a.applied = k.applied /\ a.todo = k.todo
      /\ a.out = k.out /\ a.kept = k.kept
  BY DEF Sent, Request
<1> HIDE DEF a
<1>2. RequestOK(a)
  BY <1>1 DEF RequestOK, Allowed
<1> QED BY <1>1, <1>2 DEF a

----------------------------------------------------------------------------
(* Before the handler, and the audit *)

LEMMA ArriveOK ==
    ASSUME ServerInv, NEW r \in Requests, NEW a \in Asked[r], Arrive(r, a[1], a[2])
    PROVE  ServerInv'
<1> DEFINE k == [Idle EXCEPT !.pc = "arrived", !.kind = a[1], !.name = a[2]]
<1>1. /\ a[1] \in Operations /\ a[2] \in Names \cup {Whole}
      /\ a[2] = Whole => a[1] \in {"list", "flush"}
  BY ServerAssumption
<1>2. /\ k \in Request
      /\ k.kind = a[1] /\ k.name = a[2]
      /\ k.pc = "arrived" /\ k.status = 0 /\ k.applied = FALSE /\ k.todo = {} /\ k.out = {} /\ k.kept = {}
  BY <1>1, IdleOK DEF Idle, Request
<1>3. Becomes(r, k) /\ Quietly /\ ~At(r, "auditing")
  BY DEF Arrive, At
<1> HIDE DEF k
<1>4. RequestOK(k)
  BY <1>1, <1>2 DEF RequestOK
<1> QED BY <1>2, <1>3, <1>4, MoveOK

LEMMA RefuseOK ==
    ASSUME ServerInv, NEW r \in Requests, Refuse(r) \/ BadBody(r)
    PROVE  ServerInv'
<1>1. PICK status \in Statuses \ {0, 200} : Becomes(r, Sent(req[r], status))
  BY DEF Refuse, BadBody, Statuses
<1>2. Quietly /\ req[r].pc \notin {"listing", "done", "auditing"}
  BY DEF Refuse, BadBody, At
<1> QED BY <1>1, <1>2, OpenOK, SentOK, MoveOK DEF At

\* A failure of any kind, from any step but the audit.
LEMMA FailsOK ==
    ASSUME ServerInv, NEW r \in Requests, NEW result \in Results \ {"ok"},
           BecomesOneOf(r, Answers(req[r], result)), Quietly,
           req[r].pc \notin {"done", "auditing"}, At(r, "listing") => result = "unavailable"
    PROVE  ServerInv'
<1>1. PICK k \in Answers(req[r], result) : Becomes(r, k)
  BY DEF BecomesOneOf
<1> QED BY <1>1, OpenOK, FailedOK, MoveOK DEF At

LEMMA EarlyFailuresOK ==
    ASSUME ServerInv, NEW r \in Requests, IdentifyFails(r) \/ BadArguments(r)
    PROVE  ServerInv'
<1>1. PICK result \in Results \ {"ok"} : BecomesOneOf(r, Answers(req[r], result))
  BY DEF IdentifyFails, BadArguments, Results
<1>2. Quietly /\ req[r].pc \notin {"listing", "done", "auditing"}
  BY DEF IdentifyFails, BadArguments, At
<1> QED BY <1>1, <1>2, FailsOK DEF At

LEMMA IdentifyOK ==
    ASSUME ServerInv, NEW r \in Requests, Identify(r)
    PROVE  ServerInv'
<1>1. PICK g \in SUBSET (Names \cup {Whole}) :
          Becomes(r, [req[r] EXCEPT !.pc = "known", !.grants = g])
  <2>1. req[r].name \in Names \cup {Whole}
    BY OpenOK DEF Request
  <2> QED BY <2>1 DEF Identify
<1> DEFINE o == req[r]
           k == [o EXCEPT !.pc = "known", !.grants = g]
<1>2. o \in Request /\ RequestOK(o) /\ o.kept \subseteq secrets /\ o.pc = "arrived" /\ Quietly
  BY OpenOK DEF Identify, At
<1>3. Becomes(r, k) /\ ~At(r, "auditing")
  BY <1>1, <1>2 DEF At
<1> HIDE DEF o
<1>4. /\ k \in Request /\ k.pc = "known" /\ k.kind = o.kind /\ k.name = o.name /\ k.status = o.status
      /\ k.applied = o.applied /\ k.todo = o.todo /\ k.out = o.out /\ k.kept = o.kept
  BY <1>2 DEF Request
<1> HIDE DEF k
<1>5. RequestOK(k)
  BY <1>2, <1>4 DEF RequestOK
<1> QED BY <1>2, <1>3, <1>4, <1>5, MoveOK

\* A request goes on to the step pc with nothing else changed.
LEMMA GoesOn ==
    ASSUME NEW k \in Request, RequestOK(k),
           NEW pc \in {"auditing", "granted", "fresh"}, k.pc \notin {"listing", "done"},
           pc \in {"granted", "fresh"} => Allowed(k),
           pc = "granted" /\ k.kind # "conditional" => k.entry = "allowed",
           pc = "fresh" => k.kind = "conditional"
    PROVE  LET n == [k EXCEPT !.pc = pc]
           IN  n \in Request /\ RequestOK(n) /\ n.kept = k.kept /\ n.pc = pc
<1> DEFINE n == [k EXCEPT !.pc = pc]
<1>1. /\ n \in Request /\ n.pc = pc /\ n.kind = k.kind /\ n.name = k.name /\ n.grants = k.grants
      /\ n.entry = k.entry /\ n.status = k.status /\ n.applied = k.applied
      /\ n.todo = k.todo /\ n.out = k.out /\ n.kept = k.kept
  BY DEF Request
<1> HIDE DEF n
<1>2. RequestOK(n)
  BY <1>1 DEF RequestOK, Allowed
<1> QED BY <1>1, <1>2 DEF n

LEMMA UnauditedOK ==
    ASSUME ServerInv, NEW r \in Requests, Unaudited(r)
    PROVE  ServerInv'
<1>1. /\ req[r].pc = "known" /\ req[r].kind = "conditional" /\ Allowed(req[r])
      /\ Becomes(r, [req[r] EXCEPT !.pc = "granted"]) /\ Quietly
  BY DEF Unaudited, AuditsFirst, At
<1> QED BY <1>1, OpenOK, GoesOn, MoveOK DEF At

LEMMA LockAuditOK ==
    ASSUME ServerInv, NEW r \in Requests, LockAudit(r)
    PROVE  ServerInv'
<1> DEFINE k == [req[r] EXCEPT !.pc = "auditing"]
<1>1. /\ req[r].pc \in {"known", "fresh"} /\ Becomes(r, k)
      /\ auditor = NoOne /\ auditor' = r /\ UNCHANGED <<auditOpen, secrets>>
  BY DEF LockAudit, At
<1>2. k \in Request /\ RequestOK(k) /\ k.kept \subseteq secrets /\ k.pc = "auditing"
  BY <1>1, OpenOK, GoesOn
<1> HIDE DEF k
<1>3. /\ req' \in [Requests -> Request]
      /\ \A q \in Requests : req'[q] = IF q = r THEN k ELSE req[q]
  BY <1>1, <1>2 DEF ServerInv, ServerTypeOK, Becomes
<1>4. ServerTypeOK'
  BY <1>1, <1>2, <1>3, ServerAssumption DEF ServerInv, ServerTypeOK
<1>5. RequestsOK'
  BY <1>1, <1>2, <1>3 DEF ServerInv, RequestsOK
<1> QED BY <1>4, <1>5 DEF ServerInv

\* The goroutine that holds auditMu releases it and goes on as k.
LEMMA ReleaseOK ==
    ASSUME ServerInv, NEW r \in Requests, At(r, "auditing"), NEW k \in Request, Becomes(r, k),
           auditor' = NoOne, UNCHANGED <<auditOpen, secrets>>,
           RequestOK(k), k.kept = req[r].kept, k.pc # "auditing"
    PROVE  ServerInv'
<1>1. /\ req' \in [Requests -> Request]
      /\ \A q \in Requests : req'[q] = IF q = r THEN k ELSE req[q]
  BY DEF ServerInv, ServerTypeOK, Becomes
<1>2. auditor = r /\ NoOne \notin Requests
  BY ServerAssumption DEF ServerInv, ServerTypeOK, At
<1>3. ServerTypeOK'
  BY <1>1, <1>2 DEF ServerInv, ServerTypeOK
<1>4. RequestsOK'
  BY <1>1, OpenOK DEF ServerInv, RequestsOK
<1> QED BY <1>3, <1>4 DEF ServerInv

LEMMA WriteAuditOK ==
    ASSUME ServerInv, NEW r \in Requests, NEW written \in BOOLEAN, WriteAudit(r, written)
    PROVE  ServerInv'
<1> DEFINE o == req[r]
           e == IF Allowed(o) THEN "allowed" ELSE "denied"
           b == [o EXCEPT !.entry = e]
<1>1. /\ o \in Request /\ RequestOK(o) /\ o.pc = "auditing" /\ At(r, "auditing")
      /\ auditor' = NoOne /\ UNCHANGED <<auditOpen, secrets>>
  BY OpenOK DEF WriteAudit, At, Released
<1>2. BecomesOneOf(r, IF written THEN AfterAudit(b) ELSE AfterFailedAudit(o))
  BY DEF WriteAudit
<1>3. CASE ~written
  <2>1. PICK k \in Answers(o, IF Allowed(o) THEN "error" ELSE "denied") : Becomes(r, k)
    BY <1>2, <1>3 DEF BecomesOneOf, AfterFailedAudit
  <2>2. (IF Allowed(o) THEN "error" ELSE "denied") \in Results \ {"ok"}
    BY DEF Results
  <2>3. k \in Request /\ RequestOK(k) /\ k.kept = o.kept /\ k.pc = "done"
    BY <1>1, <2>1, <2>2, FailedOK
  <2> QED BY <1>1, <2>1, <2>3, ReleaseOK
<1>4. CASE written
  <2> HIDE DEF o
  <2>1. /\ b \in Request /\ b.pc = "auditing" /\ b.entry = e
        /\ b.kind = o.kind /\ b.name = o.name /\ b.grants = o.grants /\ b.status = o.status
        /\ b.applied = o.applied /\ b.todo = o.todo /\ b.out = o.out /\ b.kept = o.kept
    BY <1>1 DEF Request
  <2> HIDE DEF b
  <2>2. RequestOK(b) /\ (Allowed(b) => b.entry = "allowed")
    BY <1>1, <2>1 DEF RequestOK, Allowed
  <2>3. PICK k \in AfterAudit(b) : Becomes(r, k)
    BY <1>2, <1>4 DEF BecomesOneOf
  <2>4. k \in Request /\ RequestOK(k) /\ k.kept = b.kept /\ k.pc # "auditing"
    <3>1. CASE ~Allowed(b)
      <4>1. k \in Answers(b, "denied") /\ "denied" \in Results \ {"ok"}
        BY <2>3, <3>1 DEF AfterAudit, Results
      <4> QED BY <2>1, <2>2, <4>1, FailedOK
    <3>2. CASE Allowed(b) /\ b.kind = "conditional"
      <4>1. k \in Answers(b, "ok") /\ b.kind \notin Writes /\ b.kind # "list"
        BY <2>3, <3>2 DEF AfterAudit, Writes, Named
      <4> QED BY <2>1, <2>2, <3>2, <4>1, AnsweredOK
    <3>3. CASE Allowed(b) /\ b.kind # "conditional"
      <4>1. k = [b EXCEPT !.pc = "granted"]
        BY <2>3, <3>3 DEF AfterAudit
      <4> QED BY <2>1, <2>2, <3>3, <4>1, GoesOn
    <3> QED BY <3>1, <3>2, <3>3
  <2> QED BY <1>1, <2>1, <2>3, <2>4, ReleaseOK DEF o
<1> QED BY <1>3, <1>4

----------------------------------------------------------------------------
(* The calls of the store *)

LEMMA ReadOK ==
    ASSUME ServerInv, NEW r \in Requests, Read(r)
    PROVE  ServerInv'
<1>1. /\ req[r].pc = "granted" /\ Quietly
      /\ req[r].kind \in {"get", "conditional", "get-version", "info"}
  BY DEF Read, At
<1>2. PICK result \in Results : BecomesOneOf(r, AfterStore(req[r], result))
  BY DEF Read, Failures, Results
<1>3. CASE result # "ok"
  BY <1>1, <1>2, <1>3, FailsOK DEF AfterStore, At
<1>4. CASE result = "ok" /\ req[r].kind = "conditional"
  <2>1. Becomes(r, [req[r] EXCEPT !.pc = "fresh"])
    BY <1>2, <1>4 DEF AfterStore, BecomesOneOf
  <2>2. Allowed(req[r])
    BY <1>1, OpenOK DEF RequestOK
  <2> QED BY <1>1, <1>4, <2>1, <2>2, OpenOK, GoesOn, MoveOK DEF At
<1>5. CASE result = "ok" /\ req[r].kind # "conditional"
  <2>1. PICK k \in Answers(req[r], "ok") : Becomes(r, k)
    BY <1>2, <1>5 DEF AfterStore, BecomesOneOf
  <2>2. /\ Allowed(req[r]) /\ req[r].entry = "allowed"
        /\ req[r].kind \notin Writes /\ req[r].kind # "list"
    BY <1>1, <1>5, OpenOK DEF RequestOK, Writes, Named
  <2> QED BY <1>1, <2>1, <2>2, OpenOK, AnsweredOK, MoveOK DEF At
<1> QED BY <1>3, <1>4, <1>5

LEMMA StoreFailuresOK ==
    ASSUME ServerInv, NEW r \in Requests, WriteRefused(r) \/ ListFails(r)
    PROVE  ServerInv'
<1>1. PICK result \in Results \ {"ok"} : BecomesOneOf(r, Answers(req[r], result))
  BY DEF WriteRefused, ListFails, Failures, Results
<1>2. Quietly /\ req[r].pc \notin {"listing", "done", "auditing"}
  BY DEF WriteRefused, ListFails, At
<1> QED BY <1>1, <1>2, FailsOK DEF At

\* What the others must still answer with shrinks with the vault.
LEMMA ShrinkOK ==
    ASSUME NEW k \in Request, RequestOK(k), NEW S \in SUBSET Names
    PROVE  LET n == [k EXCEPT !.kept = @ \cap S]
           IN  n \in Request /\ RequestOK(n) /\ n.kept \subseteq S /\ n.pc = k.pc
<1> DEFINE n == [k EXCEPT !.kept = @ \cap S]
<1>1. /\ n \in Request /\ n.pc = k.pc /\ n.kind = k.kind /\ n.name = k.name
      /\ n.grants = k.grants /\ n.gone = k.gone /\ n.entry = k.entry /\ n.status = k.status
      /\ n.applied = k.applied /\ n.todo = k.todo /\ n.out = k.out /\ n.kept = k.kept \cap S
  BY DEF Request
<1> HIDE DEF n
<1>2. RequestOK(n)
  BY <1>1 DEF RequestOK, Allowed
<1> QED BY <1>1, <1>2 DEF n

LEMMA WriteOK ==
    ASSUME ServerInv, NEW r \in Requests, Write(r)
    PROVE  ServerInv'
<1> DEFINE o == req[r]
           b == [o EXCEPT !.applied = TRUE]
<1>1. o \in Request /\ RequestOK(o) /\ o.pc = "granted" /\ o.kind \in Writes
  BY OpenOK DEF Write, At
<1>2. PICK result \in {"ok", "unavailable", "cancelled"} : \E answer \in Answers(b, result) :
          req' = [q \in Requests |-> IF q = r THEN answer
                                     ELSE [req[q] EXCEPT !.kept = @ \cap secrets']]
  BY DEF Write
<1>3. PICK answer \in Answers(b, result) :
          req' = [q \in Requests |-> IF q = r THEN answer
                                     ELSE [req[q] EXCEPT !.kept = @ \cap secrets']]
  BY <1>2
<1>4. secrets' \in SUBSET Names /\ UNCHANGED <<auditor, auditOpen>>
  <2>1. o.name \in Names
    BY <1>1 DEF Request, RequestOK, Writes, Named
  <2>2. secrets \subseteq Names
    BY DEF ServerInv, ServerTypeOK
  <2> QED BY <2>1, <2>2 DEF Write
<1> HIDE DEF o
<1>5. /\ b \in Request /\ b.applied = TRUE /\ b.pc = o.pc /\ b.kind = o.kind
      /\ b.name = o.name /\ b.grants = o.grants /\ b.entry = o.entry
      /\ b.todo = o.todo /\ b.out = o.out /\ b.kept = o.kept
  BY <1>1 DEF Request
<1> HIDE DEF b
<1>6. o.kind # "list" /\ o.kind # "conditional" /\ o.kept = {} /\ o.out = {} /\ o.todo = {}
  BY <1>1 DEF RequestOK, Writes, Named
<1>7. Allowed(o) /\ o.entry = "allowed"
  BY <1>1, <1>6 DEF RequestOK
<1>8. /\ answer \in Request /\ answer.pc = "done" /\ answer.kind = o.kind
      /\ answer.name = o.name /\ answer.grants = o.grants /\ answer.entry = "allowed"
      /\ answer.applied = TRUE /\ answer.todo = {} /\ answer.out = {} /\ answer.kept = {}
      /\ ~answer.gone => answer.status # 0
      /\ answer.status \in {200, 503} \/ answer.gone
  <2>1. result \in Results
    BY DEF Results
  <2> QED BY <1>3, <1>5, <1>6, <1>7, <2>1, AnswersFields
<1>9. RequestOK(answer)
  BY <1>1, <1>6, <1>7, <1>8 DEF RequestOK, Allowed
<1>10. ASSUME NEW q \in Requests
      PROVE  /\ req'[q] \in Request /\ RequestOK(req'[q])
             /\ req'[q].kept \subseteq secrets'
             /\ req'[q].pc = "auditing" <=> req[q].pc = "auditing"
  <2>1. CASE q = r
    <3>1. req'[q] = answer
      BY <1>3, <2>1
    <3> QED BY <1>1, <1>8, <1>9, <2>1, <3>1 DEF o
  <2>2. CASE q # r
    <3>1. req'[q] = [req[q] EXCEPT !.kept = @ \cap secrets']
      BY <1>3, <2>2
    <3>2. req[q] \in Request /\ RequestOK(req[q])
      BY OpenOK
    <3> QED BY <1>4, <3>1, <3>2, ShrinkOK
  <2> QED BY <2>1, <2>2
<1>11. ServerTypeOK'
  <2>1. req' \in [Requests -> Request]
    BY <1>3, <1>10
  <2> QED BY <1>4, <1>10, <2>1 DEF ServerInv, ServerTypeOK
<1>12. RequestsOK'
  BY <1>10 DEF RequestsOK
<1> QED BY <1>11, <1>12 DEF ServerInv

LEMMA ListNamesOK ==
    ASSUME ServerInv, NEW r \in Requests, ListNames(r)
    PROVE  ServerInv'
<1> DEFINE o == req[r]
           admitted == secrets \cap o.grants
           k == [o EXCEPT !.pc = "listing", !.todo = admitted, !.kept = admitted]
<1>1. /\ o \in Request /\ RequestOK(o) /\ o.pc = "granted" /\ o.kind = "list"
      /\ Becomes(r, k) /\ Quietly /\ ~At(r, "auditing")
  BY OpenOK DEF ListNames, At
<1>2. admitted \in SUBSET Names /\ admitted \subseteq secrets /\ admitted \subseteq o.grants
  BY DEF ServerInv, ServerTypeOK
<1> HIDE DEF o, admitted
<1>3. /\ k \in Request /\ k.pc = "listing" /\ k.kind = o.kind /\ k.name = o.name
      /\ k.grants = o.grants /\ k.entry = o.entry /\ k.status = o.status
      /\ k.applied = o.applied /\ k.out = o.out /\ k.todo = admitted /\ k.kept = admitted
  BY <1>1, <1>2 DEF Request
<1> HIDE DEF k
<1>4. RequestOK(k)
  BY <1>1, <1>2, <1>3 DEF RequestOK, Allowed
<1> QED BY <1>1, <1>2, <1>3, <1>4, MoveOK

\* A name is loaded (into out), gone, or skipped (and no longer owed).
LEMMA WalkOK ==
    ASSUME NEW o \in Request, RequestOK(o), o.pc = "listing",
           o.kept \subseteq secrets, NEW n \in o.todo,
           NEW out \in {o.out, o.out \cup {n}}, NEW kept \in {o.kept, o.kept \ {n}},
           out = o.out \cup {n} \/ n \notin kept,
           NEW k, k = [o EXCEPT !.todo = @ \ {n}, !.out = out, !.kept = kept]
    PROVE  k \in Request /\ RequestOK(k) /\ k.kept \subseteq secrets /\ k.pc = "listing"
<1>1. n \in o.grants /\ n \in Names /\ o.out \subseteq Names /\ o.kept \subseteq Names
  BY DEF RequestOK, Request
<1>2. /\ k \in Request /\ k.pc = "listing" /\ k.kind = o.kind /\ k.name = o.name
      /\ k.grants = o.grants /\ k.entry = o.entry /\ k.status = o.status
      /\ k.applied = o.applied /\ k.out = out /\ k.todo = o.todo \ {n} /\ k.kept = kept
  BY <1>1 DEF Request
<1>3. RequestOK(k)
  BY <1>1, <1>2 DEF RequestOK, Allowed
<1> QED BY <1>2, <1>3

LEMMA ListOneOK ==
    ASSUME ServerInv, NEW r \in Requests, NEW n \in Names, ListOne(r, n)
    PROVE  ServerInv'
<1> DEFINE o == req[r]
           Walked(out, kept) == [o EXCEPT !.todo = @ \ {n}, !.out = out, !.kept = kept]
<1>1. /\ o \in Request /\ RequestOK(o) /\ o.kept \subseteq secrets
      /\ o.pc = "listing" /\ n \in o.todo /\ Quietly /\ ~At(r, "auditing")
  BY OpenOK DEF ListOne, At
<1>2. CASE BecomesOneOf(r, Answers(o, "unavailable"))
  BY <1>1, <1>2, FailsOK DEF Results
<1>3. CASE n \in secrets /\ Becomes(r, [[o EXCEPT !.todo = @ \ {n}] EXCEPT !.out = @ \cup {n}])
  <2>1. [[o EXCEPT !.todo = @ \ {n}] EXCEPT !.out = @ \cup {n}] = Walked(o.out \cup {n}, o.kept)
    BY <1>1 DEF Request
  <2> DEFINE k == Walked(o.out \cup {n}, o.kept)
  <2>2. k \in Request /\ RequestOK(k) /\ k.kept \subseteq secrets /\ k.pc = "listing"
    BY <1>1, WalkOK
  <2>3. Becomes(r, k)
    BY <1>3, <2>1
  <2> HIDE DEF k
  <2> QED BY <1>1, <2>2, <2>3, MoveOK
<1>4. CASE n \notin secrets /\ Becomes(r, [o EXCEPT !.todo = @ \ {n}])
  <2>1. [o EXCEPT !.todo = @ \ {n}] = Walked(o.out, o.kept) /\ n \notin o.kept
    BY <1>1, <1>4 DEF Request
  <2> QED BY <1>1, <1>4, <2>1, WalkOK, MoveOK
<1>5. CASE Becomes(r, [[o EXCEPT !.todo = @ \ {n}] EXCEPT !.kept = @ \ {n}])
  <2>1. [[o EXCEPT !.todo = @ \ {n}] EXCEPT !.kept = @ \ {n}] = Walked(o.out, o.kept \ {n})
    BY <1>1 DEF Request
  <2> QED BY <1>1, <1>5, <2>1, WalkOK, MoveOK
<1>6. ASSUME NEW result \in Failures,
             BecomesOneOf(r, IF EndsListing(result) THEN Answers(o, result)
                             ELSE {[[o EXCEPT !.todo = @ \ {n}] EXCEPT !.kept = @ \ {n}]})
      PROVE  ServerInv'
  BY <1>2, <1>5, <1>6 DEF BecomesOneOf, EndsListing
<1>7. \/ n \in secrets /\ Becomes(r, [[o EXCEPT !.todo = @ \ {n}] EXCEPT !.out = @ \cup {n}])
      \/ n \notin secrets /\ Becomes(r, [o EXCEPT !.todo = @ \ {n}])
      \/ \E result \in Failures :
            BecomesOneOf(r, IF EndsListing(result) THEN Answers(o, result)
                            ELSE {[[o EXCEPT !.todo = @ \ {n}] EXCEPT !.kept = @ \ {n}]})
  BY DEF ListOne, EndsListing
<1> QED BY <1>3, <1>4, <1>6, <1>7

LEMMA ListEndsOK ==
    ASSUME ServerInv, NEW r \in Requests, ListEnds(r)
    PROVE  ServerInv'
<1>1. PICK k \in Answers(req[r], "ok") : Becomes(r, k)
  BY DEF ListEnds, BecomesOneOf
<1>2. req[r].pc = "listing" /\ req[r].todo = {} /\ Quietly /\ ~At(r, "auditing")
  BY DEF ListEnds, At
<1>3. req[r] \in Request /\ RequestOK(req[r]) /\ req[r].kept \subseteq secrets
  BY OpenOK
<1>4. /\ req[r].kind = "list" /\ req[r].kept \subseteq req[r].out
      /\ Allowed(req[r]) /\ req[r].entry = "allowed"
  BY <1>2, <1>3 DEF RequestOK
<1>5. req[r].kind \notin Writes
  BY <1>4 DEF Writes, Named
<1>6. k \in Request /\ RequestOK(k) /\ k.kept = req[r].kept /\ k.pc = "done"
  BY <1>1, <1>2, <1>3, <1>4, <1>5, AnsweredOK
<1> QED BY <1>1, <1>2, <1>3, <1>6, MoveOK

LEMMA FlushOK ==
    ASSUME ServerInv, NEW r \in Requests, Flush(r)
    PROVE  ServerInv'
<1> DEFINE o == req[r]
           k == Sent(o, 200)
<1>1. /\ o \in Request /\ RequestOK(o) /\ o.kept \subseteq secrets /\ o.pc = "granted"
      /\ o.kind = "flush" /\ Becomes(r, k) /\ Quietly /\ ~At(r, "auditing")
  BY OpenOK DEF Flush, At
<1>2. o.kind \notin Writes
  BY <1>1 DEF Writes, Named
<1> HIDE DEF o
<1>3. /\ k \in Request /\ k.pc = "done" /\ k.status = 200 /\ k.kind = o.kind /\ k.name = o.name
      /\ k.grants = o.grants /\ k.entry = o.entry /\ k.applied = o.applied
      /\ k.todo = o.todo /\ k.out = o.out /\ k.kept = o.kept
  <2>1. k = [o EXCEPT !.pc = "done", !.status = 200] /\ 200 \in Statuses
    BY DEF Sent, Statuses
  <2> HIDE DEF k
  <2> QED BY <1>1, <2>1 DEF Request
<1> HIDE DEF k
<1>4. RequestOK(k)
  BY <1>1, <1>2, <1>3 DEF RequestOK, Allowed
<1> QED BY <1>1, <1>3, <1>4, MoveOK

LEMMA FinishOK ==
    ASSUME ServerInv, NEW r \in Requests, Finish(r)
    PROVE  ServerInv'
BY IdleOK, MoveOK DEF Finish, At

LEMMA ServeOK ==
    ASSUME ServerInv, NEW r \in Requests, LockAudit(r) \/ Serve(r)
    PROVE  ServerInv'
BY LockAuditOK, RefuseOK, IdentifyOK, EarlyFailuresOK, UnauditedOK, WriteAuditOK, ReadOK,
   StoreFailuresOK, WriteOK, ListNamesOK, ListOneOK, ListEndsOK, FlushOK, FinishOK DEF Serve

LEMMA ServerInvImplies ==
    ServerInv => NothingUnaudited /\ StatusTellsTheTruth /\ ListingIsComplete
BY DEF ServerInv, RequestsOK, RequestOK, NothingUnaudited, StatusTellsTheTruth,
       ListingIsComplete, At

----------------------------------------------------------------------------
(* The defers *)

Push(s, what) == s \o <<what>>

\* The stacks of defers that serve can have.
S0 == <<>>
S1 == Push(S0, "backend")
S2 == Push(S1, "tsnet")
S3 == Push(S2, "audit")
S4 == Push(S3, "debug")
S5 == Push(S3, "warmer")
S6 == Push(S4, "warmer")
Stacks == {S0, S1, S2, S3, S4, S5, S6}

Stack(s) == s \in Seq(Resources) /\ ToSet(s) \subseteq Resources /\ IsInjective(s)

LEMMA PushProperties ==
    ASSUME NEW s, Stack(s), NEW what \in Resources, what \notin ToSet(s)
    PROVE  /\ Stack(Push(s, what))
           /\ ToSet(Push(s, what)) = ToSet(s) \cup {what}
           /\ Last(Push(s, what)) = what /\ Front(Push(s, what)) = s
           /\ Push(s, what) # <<>>
<1> DEFINE t == Push(s, what)
           one == <<what>>
<1>1. s \in Seq(Resources) /\ one \in Seq(Resources) /\ Len(one) = 1 /\ one[1] = what
  BY DEF Stack
<1>2. /\ t \in Seq(Resources) /\ Len(t) = Len(s) + 1 /\ Len(s) \in Nat
      /\ \A i \in 1 .. Len(s) + 1 : t[i] = IF i <= Len(s) THEN s[i] ELSE one[i - Len(s)]
  BY <1>1, ConcatProperties DEF Push
<1> HIDE DEF t
<1>3. (\A i \in 1 .. Len(s) : t[i] = s[i]) /\ t[Len(s) + 1] = what
  BY <1>1, <1>2
<1>4. DOMAIN t = 1 .. Len(s) + 1 /\ DOMAIN s = 1 .. Len(s)
  BY <1>1, <1>2
<1>5. ToSet(t) = ToSet(s) \cup {what}
  BY <1>2, <1>3, <1>4 DEF ToSet
<1>6. IsInjective(t)
  <2> SUFFICES ASSUME NEW a \in DOMAIN t, NEW b \in DOMAIN t, t[a] = t[b]
               PROVE  a = b
    BY DEF IsInjective
  <2>1. \A i \in 1 .. Len(s) : t[i] # what
    BY <1>3, <1>4 DEF ToSet
  <2>2. CASE a \in 1 .. Len(s) /\ b \in 1 .. Len(s)
    BY <1>3, <1>4, <2>2 DEF Stack, IsInjective
  <2>3. CASE a = Len(s) + 1 \/ b = Len(s) + 1
    BY <1>2, <1>3, <1>4, <2>1, <2>3
  <2> QED BY <1>2, <1>4, <2>2, <2>3
<1>7. Last(t) = what /\ t # <<>>
  BY <1>2, <1>3 DEF Last
<1>8. Front(t) = s
  <2>1. \A i \in 1 .. Len(s) : t[i] \in Resources
    BY <1>2
  <2>2. /\ Front(t) \in Seq(Resources) /\ Len(Front(t)) = Len(s)
        /\ \A i \in 1 .. Len(s) : Front(t)[i] = t[i]
    <3>1. Front(t) = SubSeq(t, 1, Len(s))
      BY <1>2 DEF Front
    <3>2. Len(s) \in Int /\ 1 \in Int
      BY <1>2
    <3>3. /\ SubSeq(t, 1, Len(s)) \in Seq(Resources)
          /\ Len(SubSeq(t, 1, Len(s))) = IF 1 <= Len(s) THEN Len(s) - 1 + 1 ELSE 0
          /\ \A i \in 1 .. Len(s) - 1 + 1 : SubSeq(t, 1, Len(s))[i] = t[1 + i - 1]
      BY <2>1, <3>2, SubSeqProperties
    <3> QED BY <1>2, <3>1, <3>3
  <2> QED BY <1>1, <1>3, <2>2, SeqEqual
<1> QED BY <1>2, <1>5, <1>6, <1>7, <1>8 DEF t, Stack

\* What is opened and closed, one at a time.
LEMMA StackProperties ==
    /\ \A s \in Stacks : Stack(s)
    /\ S1 # <<>> /\ Last(S1) = "backend" /\ Front(S1) = S0
    /\ S2 # <<>> /\ Last(S2) = "tsnet" /\ Front(S2) = S1
    /\ S3 # <<>> /\ Last(S3) = "audit" /\ Front(S3) = S2
    /\ S4 # <<>> /\ Last(S4) = "debug" /\ Front(S4) = S3
    /\ S5 # <<>> /\ Last(S5) = "warmer" /\ Front(S5) = S3
    /\ S6 # <<>> /\ Last(S6) = "warmer" /\ Front(S6) = S4
    /\ \A s \in {S3, S4, S5, S6} : {"backend", "tsnet", "audit"} \subseteq ToSet(s)
<1>1. Stack(S0) /\ ToSet(S0) = {}
  BY DEF S0, Stack, ToSet, IsInjective
<1>2. Resources = {"backend", "tsnet", "audit", "debug", "warmer"}
  BY DEF Resources
<1>3. Stack(S1) /\ ToSet(S1) = {"backend"} /\ S1 # <<>> /\ Last(S1) = "backend" /\ Front(S1) = S0
  BY <1>1, <1>2, PushProperties DEF S1
<1>4. /\ Stack(S2) /\ ToSet(S2) = {"backend", "tsnet"}
      /\ S2 # <<>> /\ Last(S2) = "tsnet" /\ Front(S2) = S1
  BY <1>2, <1>3, PushProperties DEF S2
<1>5. /\ Stack(S3) /\ ToSet(S3) = {"backend", "tsnet", "audit"}
      /\ S3 # <<>> /\ Last(S3) = "audit" /\ Front(S3) = S2
  BY <1>2, <1>4, PushProperties DEF S3
<1>6. /\ Stack(S4) /\ ToSet(S4) = {"backend", "tsnet", "audit", "debug"}
      /\ S4 # <<>> /\ Last(S4) = "debug" /\ Front(S4) = S3
  BY <1>2, <1>5, PushProperties DEF S4
<1>7. /\ Stack(S5) /\ ToSet(S5) = {"backend", "tsnet", "audit", "warmer"}
      /\ S5 # <<>> /\ Last(S5) = "warmer" /\ Front(S5) = S3
  BY <1>2, <1>5, PushProperties DEF S5
<1>8. /\ Stack(S6) /\ ToSet(S6) = {"backend", "tsnet", "audit", "debug", "warmer"}
      /\ S6 # <<>> /\ Last(S6) = "warmer" /\ Front(S6) = S4
  BY <1>2, <1>6, PushProperties DEF S6
<1> QED BY <1>1, <1>3, <1>4, <1>5, <1>6, <1>7, <1>8 DEF Stacks

LEMMA OpensProperties ==
    /\ <<>> \o <<"backend", "tsnet">> = S2
    /\ \A s \in Stacks : s \o <<>> = s
<1>1. <<>> \o <<"backend", "tsnet">> = S2
  BY DEF S2, S1, S0, Push
<1>2. \A s \in Stacks : s \o <<>> = s
  BY StackProperties, ConcatEmptySeq DEF Stack
<1> QED BY <1>1, <1>2

\* The audit log is on the stack while it is open.
LEMMA AuditOnStack == \A s \in {S3, S4, S5, S6} : Contains(s, "audit")
<1> SUFFICES ASSUME NEW s \in {S3, S4, S5, S6}
             PROVE  Contains(s, "audit")
  OBVIOUS
<1>1. s \in Seq(Resources) /\ "audit" \in ToSet(s)
  BY StackProperties DEF Stack, Stacks
<1>2. DOMAIN s = 1 .. Len(s)
  BY <1>1
<1> QED BY <1>1, <1>2 DEF ToSet, Contains

----------------------------------------------------------------------------
(* The process *)

ProcessTypeOK == /\ cfg \in Configs
                 /\ phase \in StartUp \cup {"down", "serving", "closing"}
                 /\ {signalled, graceOver, wcancelled, failed} \subseteq BOOLEAN
                 /\ drain \in {"none", "port80", "main", "done"}
                 /\ warmer \in {"off", "running", "stopped"}

\* serve opens in order; the warmer and the audit log are used while they are open.
StackInv == /\ defers \in Stacks
            /\ phase \in {"down", "backend"} => defers = S0
            /\ phase \in {"tsnet", "audit"} => defers = S2
            /\ phase = "debug" => defers = S3
            /\ phase = "warmer" => defers \in {S3, S4}
            /\ phase \in (StartUp \cup {"down"}) \ {"listen"} => warmer = "off"
            /\ phase \in {"down", "backend", "tsnet", "audit"} => ~auditOpen
            /\ warmer = "running" => defers \in {S5, S6}
            /\ auditOpen => defers \in {S3, S4, S5, S6}

\* No request runs before serve has started; once the drain is over, or serve has
\* returned without an error, those that do have had their grace period.
DrainInv == /\ phase \in StartUp \cup {"down"} => (\A r \in Requests : req[r] = Idle) /\ ~failed
            /\ (phase = "serving" /\ drain = "done") \/ (phase = "closing" /\ ~failed)
                   => Quiet \/ graceOver

Inductive == ServerInv /\ ProcessTypeOK /\ StackInv /\ DrainInv

LEMMA InitInductive == Init => Inductive
<1> SUFFICES ASSUME Init PROVE Inductive
  OBVIOUS
<1>1. \A r \in Requests : req[r] = Idle
  BY DEF Init, ServerInit
<1>2. ServerInv
  BY <1>1, IdleOK, ServerAssumption DEF Init, ServerInit, ServerInv, ServerTypeOK, RequestsOK
<1>3. ProcessTypeOK
  BY DEF Init, ProcessTypeOK
<1>4. StackInv
  BY DEF Init, ServerInit, StackInv, Stacks, S0, StartUp
<1>5. DrainInv
  BY <1>1 DEF Init, DrainInv
<1> QED BY <1>2, <1>3, <1>4, <1>5 DEF Inductive

\* A step that leaves the requests and the log alone.
LEMMA ServerStays ==
    ASSUME ServerInv, UNCHANGED serverVars
    PROVE  ServerInv'
BY DEF ServerInv, ServerTypeOK, RequestsOK, serverVars

LEMMA QuietStays == ASSUME req' = req PROVE Quiet' <=> Quiet
BY DEF Quiet, At

\* Only an idle goroutine is quiet.
LEMMA ServeIsBusy ==
    ASSUME NEW r \in Requests, LockAudit(r) \/ Serve(r)
    PROVE  ~Quiet /\ req[r] # Idle
<1>1. ~At(r, "idle")
  BY DEF LockAudit, Serve, Refuse, Identify, IdentifyFails, BadBody, BadArguments, Unaudited,
         WriteAudit, Read, WriteRefused, Write, ListNames, ListFails, ListOne, ListEnds, Flush,
         Finish, At
<1> QED BY <1>1 DEF Quiet, At, Idle

LEMMA AuditOpenStays ==
    ASSUME NEW r \in Requests, LockAudit(r) \/ Serve(r) \/ \E a \in Asked[r] : Arrive(r, a[1], a[2])
    PROVE  auditOpen' = auditOpen
BY DEF LockAudit, Serve, Refuse, Identify, IdentifyFails, BadBody, BadArguments, Unaudited,
       WriteAudit, Read, WriteRefused, Write, ListNames, ListFails, ListOne, ListEnds, Flush,
       Finish, Arrive, Quietly

LEMMA RequestingKeeps ==
    ASSUME Inductive, Requesting, UNCHANGED lifeVars
    PROVE  Inductive'
<1>1. PICK r \in Requests : \/ LockAudit(r) \/ Serve(r)
                            \/ \E a \in Asked[r] : Connected /\ Arrive(r, a[1], a[2])
  BY DEF Requesting
<1>2. ServerInv'
  BY <1>1, ServeOK, ArriveOK DEF Inductive
<1>3. ProcessTypeOK'
  BY DEF Inductive, ProcessTypeOK, lifeVars, processVars
<1>4. StackInv'
  <2>1. auditOpen' = auditOpen
    BY <1>1, AuditOpenStays
  <2> QED BY <2>1 DEF Inductive, StackInv, lifeVars, processVars
<1>5. DrainInv'
  <2>1. UNCHANGED <<phase, drain, failed, graceOver>>
    BY DEF lifeVars, processVars
  <2>2. CASE LockAudit(r) \/ Serve(r)
    <3>1. ~Quiet /\ req[r] # Idle
      BY <2>2, ServeIsBusy
    <3> QED BY <2>1, <3>1 DEF Inductive, DrainInv
  <2>3. CASE Connected
    <3>1. phase \notin StartUp \cup {"down"}
      BY <2>3 DEF Connected, StartUp
    <3>2. ~((phase = "serving" /\ drain = "done") \/ (phase = "closing" /\ ~failed))
      BY <2>3 DEF Connected, Accepting
    <3> QED BY <2>1, <3>1, <3>2 DEF DrainInv
  <2> QED BY <1>1, <2>2, <2>3
<1> QED BY <1>2, <1>3, <1>4, <1>5 DEF Inductive

\* Start-up, without the step that opens the log and the one that empties the vault.
LEMMA StartUpKeeps ==
    ASSUME Inductive, Start \/ Up \/ ServeDebugListener \/ StartWarmer \/ Listen \/ StartFails
    PROVE  Inductive'
<1>1. UNCHANGED serverVars
  BY DEF Start, Up, ServeDebugListener, StartWarmer, Listen, StartFails, serverVars
<1>2. ServerInv'
  BY <1>1, ServerStays DEF Inductive
<1>3. ProcessTypeOK'
  BY DEF Inductive, ProcessTypeOK, Start, Up, ServeDebugListener, StartWarmer, Listen,
         StartFails, Opens, StartUp
<1>4. defers \in Stacks /\ defers \o <<>> = defers
  BY OpensProperties DEF Inductive, StackInv
<1>5. StackInv'
  <2>1. auditOpen' = auditOpen
    BY <1>1 DEF serverVars
  <2>2. CASE Start \/ StartFails
    BY <2>1, <2>2 DEF Inductive, StackInv, Start, StartFails, StartUp, serverVars
  <2>3. CASE Up \/ Listen
    BY <1>4, <2>1, <2>3 DEF Inductive, StackInv, Up, Listen, Opens, StartUp
  <2>4. CASE ServeDebugListener
    <3>1. phase = "debug" /\ defers = S3 /\ defers' \in {S3, S4} /\ phase' = "warmer"
      BY <1>4, <2>4 DEF Inductive, StackInv, ServeDebugListener, Opens, S4, Push
    <3>2. warmer = "off" /\ warmer' = "off"
      BY <2>4, <3>1 DEF Inductive, StackInv, ServeDebugListener, StartUp
    <3> QED BY <3>1, <3>2 DEF StackInv, Stacks, StartUp
  <2>5. CASE StartWarmer
    <3>1. phase = "warmer" /\ defers \in {S3, S4} /\ phase' = "listen"
      BY <2>5 DEF Inductive, StackInv, StartWarmer, Opens
    <3>2. CASE cfg.warm
      <4>1. defers' \in {S5, S6}
        BY <2>5, <3>1, <3>2 DEF StartWarmer, Opens, S5, S6, Push
      <4> QED BY <3>1, <4>1 DEF StackInv, Stacks, StartUp
    <3>3. CASE ~cfg.warm
      <4>1. defers' \in {S3, S4} /\ warmer' = "off"
        BY <1>4, <2>5, <3>1, <3>3 DEF StartWarmer, Opens
      <4> QED BY <3>1, <4>1 DEF StackInv, Stacks, StartUp
    <3> QED BY <3>2, <3>3
  <2> QED BY <2>2, <2>3, <2>4, <2>5
<1>6. DrainInv'
  <2>1. phase \in StartUp \cup {"down"}
    BY DEF Start, Up, ServeDebugListener, StartWarmer, Listen, StartFails, Opens, StartUp
  <2>2. (\A r \in Requests : req'[r] = Idle) /\ ~failed
    BY <1>1, <2>1 DEF Inductive, DrainInv, serverVars
  <2>3. Quiet'
    BY <2>2, IdleOK DEF Quiet, At
  <2>4. failed' = failed \/ (phase' = "closing" /\ failed')
    BY DEF Start, Up, ServeDebugListener, StartWarmer, Listen, StartFails, Opens
  <2> QED BY <2>2, <2>3, <2>4 DEF DrainInv, StartUp
<1> QED BY <1>2, <1>3, <1>5, <1>6 DEF Inductive

LEMMA BuildBackendKeeps == ASSUME Inductive, BuildBackend PROVE Inductive'
<1>1. /\ phase = "backend" /\ phase' = "tsnet" /\ req' = req
      /\ UNCHANGED <<cfg, signalled, drain, graceOver, wcancelled, failed, auditor, auditOpen, warmer>>
  BY DEF BuildBackend, Opens
<1>2. \A r \in Requests : req[r] = Idle
  BY <1>1 DEF Inductive, DrainInv, StartUp
<1>3. ServerInv'
  <2>1. secrets' \subseteq Names
    BY DEF BuildBackend, Inductive, ServerInv, ServerTypeOK
  <2>2. ServerTypeOK'
    BY <1>1, <2>1 DEF Inductive, ServerInv, ServerTypeOK
  <2>3. RequestsOK'
    BY <1>1, <1>2, IdleOK DEF RequestsOK
  <2> QED BY <2>2, <2>3 DEF ServerInv
<1>4. defers = S0 /\ defers' = S2
  BY <1>1, OpensProperties DEF Inductive, StackInv, BuildBackend, Opens, S0
<1>5. StackInv'
  BY <1>1, <1>4 DEF Inductive, StackInv, Stacks, StartUp
<1>6. ProcessTypeOK' /\ DrainInv'
  BY <1>1, <1>2 DEF Inductive, ProcessTypeOK, DrainInv, StartUp
<1> QED BY <1>3, <1>5, <1>6 DEF Inductive

LEMMA OpenAuditKeeps == ASSUME Inductive, OpenAudit PROVE Inductive'
<1>1. /\ phase = "audit" /\ phase' = "debug" /\ req' = req /\ warmer' = warmer
      /\ UNCHANGED <<cfg, signalled, drain, graceOver, wcancelled, failed, auditor, secrets>>
      /\ auditOpen' = TRUE
  BY DEF OpenAudit, Opens
<1>2. \A r \in Requests : req[r] = Idle
  BY <1>1 DEF Inductive, DrainInv, StartUp
<1>3. ServerInv'
  BY <1>1 DEF Inductive, ServerInv, ServerTypeOK, RequestsOK
<1>4. defers' = S3
  BY <1>1 DEF Inductive, StackInv, OpenAudit, Opens, S3, Push
<1>5. warmer = "off"
  BY <1>1 DEF Inductive, StackInv, StartUp
<1>6. StackInv'
  BY <1>1, <1>4, <1>5 DEF StackInv, Stacks, StartUp
<1>7. ProcessTypeOK' /\ DrainInv'
  BY <1>1, <1>2 DEF Inductive, ProcessTypeOK, DrainInv, StartUp
<1> QED BY <1>3, <1>6, <1>7 DEF Inductive

\* Signals, the drain and the end of serving: nothing is closed yet.
LEMMA DrainKeeps ==
    ASSUME Inductive, \/ Signal \/ DrainBegins \/ Port80Drained \/ MainDrained \/ GraceEnds
                      \/ ServeReturns \/ ServeFails \/ Wcancel \/ WarmerReturns
    PROVE  Inductive'
<1>1. UNCHANGED <<serverVars, cfg, defers>>
  BY DEF Signal, DrainBegins, Port80Drained, MainDrained, GraceEnds, ServeReturns, ServeFails,
         Wcancel, WarmerReturns, Drains, Returns, processVars
<1>2. ServerInv' /\ (Quiet' <=> Quiet)
  BY <1>1, ServerStays, QuietStays DEF Inductive, serverVars
<1>3. ProcessTypeOK'
  BY DEF Inductive, ProcessTypeOK, Signal, DrainBegins, Port80Drained, MainDrained, GraceEnds,
         ServeReturns, ServeFails, Wcancel, WarmerReturns, Drains, Returns, processVars
<1>4. StackInv'
  BY <1>1 DEF Inductive, StackInv, Signal, DrainBegins, Port80Drained, MainDrained, GraceEnds,
              ServeReturns, ServeFails, Wcancel, WarmerReturns, Drains, Returns, processVars,
              serverVars, StartUp
<1>5. DrainInv'
  BY <1>1, <1>2 DEF Inductive, DrainInv, Signal, DrainBegins, Port80Drained, MainDrained,
                    GraceEnds, ServeReturns, ServeFails, Wcancel, WarmerReturns, Drains, Returns,
                    Drained, Accepting, processVars, serverVars, StartUp
<1> QED BY <1>2, <1>3, <1>4, <1>5 DEF Inductive

LEMMA ClosesKeeps ==
    ASSUME Inductive, CloseWarmer \/ StopDebug \/ CloseAudit \/ CloseTsnet \/ CloseBackend
    PROVE  Inductive'
<1>1. /\ phase = "closing" /\ defers # <<>> /\ defers' = Front(defers)
      /\ UNCHANGED <<req, auditor, secrets>>
      /\ UNCHANGED <<cfg, phase, signalled, drain, graceOver, warmer, wcancelled, failed>>
  BY DEF CloseWarmer, StopDebug, CloseAudit, CloseTsnet, CloseBackend, Closes, serverVars
<1>2. ServerInv' /\ (Quiet' <=> Quiet)
  <2>1. auditOpen' \in BOOLEAN
    BY DEF Inductive, ServerInv, ServerTypeOK, CloseWarmer, StopDebug, CloseAudit, CloseTsnet,
           CloseBackend, serverVars
  <2> QED BY <1>1, <2>1, QuietStays DEF Inductive, ServerInv, ServerTypeOK, RequestsOK
<1>3. ProcessTypeOK' /\ DrainInv'
  BY <1>1, <1>2 DEF Inductive, ProcessTypeOK, DrainInv
<1>4. defers \in Stacks \ {S0} /\ defers' \in Stacks
  BY <1>1, StackProperties DEF Inductive, StackInv, Stacks, S0
<1>5. warmer' = "running" => defers' \in {S5, S6}
  <2>1. warmer = "running" => Last(defers) = "warmer"
    BY StackProperties DEF Inductive, StackInv
  <2>2. CASE CloseWarmer
    BY <1>1, <2>1, <2>2 DEF CloseWarmer, WarmerWaitedFor
  <2>3. CASE StopDebug \/ CloseAudit \/ CloseTsnet \/ CloseBackend
    BY <1>1, <2>1, <2>3 DEF StopDebug, CloseAudit, CloseTsnet, CloseBackend, Closes
  <2> QED BY <2>2, <2>3
<1>6. auditOpen' => defers' \in {S3, S4, S5, S6}
  <2>1. CASE CloseAudit
    BY <2>1 DEF CloseAudit
  <2>2. CASE ~CloseAudit
    <3>1. auditOpen' = auditOpen /\ Last(defers) # "audit"
      BY <2>2 DEF CloseWarmer, StopDebug, CloseTsnet, CloseBackend, Closes, serverVars
    <3>2. defers \in {S4, S5, S6} => defers' \in {S3, S4}
      BY <1>1, StackProperties
    <3>3. auditOpen => defers \in {S4, S5, S6}
      BY <3>1, StackProperties DEF Inductive, StackInv
    <3> QED BY <3>1, <3>2, <3>3
  <2> QED BY <2>1, <2>2
<1>7. StackInv'
  BY <1>1, <1>4, <1>5, <1>6 DEF StackInv, StartUp
<1> QED BY <1>2, <1>3, <1>7 DEF Inductive

LEMMA EndsKeeps == ASSUME Inductive, Exit \/ BackendExits PROVE Inductive'
<1>1. Ends
  BY DEF Exit, BackendExits
<1>2. \A r \in Requests : req'[r] = Idle
  BY <1>1 DEF Ends
<1>3. ServerInv'
  <2>1. ServerTypeOK'
    BY <1>1, <1>2, IdleOK, ServerAssumption DEF Ends, Inductive, ServerInv, ServerTypeOK
  <2>2. RequestsOK'
    BY <1>2, IdleOK DEF RequestsOK
  <2> QED BY <2>1, <2>2 DEF ServerInv
<1>4. ProcessTypeOK'
  BY <1>1 DEF Ends, Inductive, ProcessTypeOK
<1>5. StackInv'
  BY <1>1 DEF Ends, StackInv, Stacks, S0, StartUp
<1>6. DrainInv'
  <2>1. phase' = "down" /\ ~failed'
    BY <1>1 DEF Ends
  <2> QED BY <1>2, <2>1 DEF DrainInv
<1> QED BY <1>3, <1>4, <1>5, <1>6 DEF Inductive

LEMMA StutterKeeps == ASSUME Inductive, UNCHANGED vars PROVE Inductive'
<1>1. ServerInv' /\ (Quiet' <=> Quiet)
  BY ServerStays, QuietStays DEF Inductive, vars, serverVars
<1> QED BY <1>1 DEF Inductive, ProcessTypeOK, StackInv, DrainInv, vars, serverVars, lifeVars,
                    processVars

LEMMA InductiveStep == Inductive /\ [Next]_vars => Inductive'
BY RequestingKeeps, StartUpKeeps, BuildBackendKeeps, OpenAuditKeeps, DrainKeeps, ClosesKeeps,
   EndsKeeps, StutterKeeps DEF Next, Starting, Stopping, Closing

----------------------------------------------------------------------------
\* serve opens and closes in order, and no request runs outside of it; a request has
\* in hand what its step needs, and its entry before its effect (serve, the handlers).
THEOREM InductiveInvariant == Spec => []Inductive
<1>1. Init => Inductive
  BY InitInductive
<1>2. Inductive /\ [Next]_vars => Inductive'
  BY InductiveStep
<1> QED BY <1>1, <1>2, PTL DEF Spec

\* The requests, the audit mutex, the stack of defers and the process keep their
\* types, and the log is not open without its defer (Server, serve).
THEOREM TypeCorrect == Spec => []TypeOK
<1>1. Inductive => TypeOK
  <2> SUFFICES ASSUME Inductive PROVE TypeOK
    OBVIOUS
  <2>1. ToSet(defers) \subseteq Resources /\ IsInjective(defers)
    BY StackProperties DEF Inductive, StackInv, Stack
  <2>2. auditOpen => Contains(defers, "audit")
    BY AuditOnStack DEF Inductive, StackInv
  <2> QED BY <2>1, <2>2 DEF Inductive, ServerInv, ProcessTypeOK, TypeOK
<1> QED BY <1>1, InductiveInvariant, PTL

\* Whatever fails and wherever the process is stopped, no request has an effect or an
\* answer that the ACL did not allow and the log does not hold (checkAndLog, get).
THEOREM EverythingIsAudited == Spec => []NothingUnaudited
<1>1. Inductive => NothingUnaudited
  BY ServerInvImplies DEF Inductive
<1> QED BY <1>1, InductiveInvariant, PTL

\* For any number of requests, the status says what became of each (serveJSON).
THEOREM StatusesAreTrue == Spec => []StatusTellsTheTruth
<1>1. Inductive => StatusTellsTheTruth
  BY ServerInvImplies DEF Inductive
<1> QED BY <1>1, InductiveInvariant, PTL

\* A listing beside any number of writes and deletes answers with every readable
\* secret that was there throughout (store.List).
THEOREM ListingsAreComplete == Spec => []ListingIsComplete
<1>1. Inductive => ListingIsComplete
  BY ServerInvImplies DEF Inductive
<1> QED BY <1>1, InductiveInvariant, PTL

\* When serve ends without an error, nothing is torn down under a request that still has
\* its grace (shutdownOnDone).
THEOREM RequestsAreDrained == Spec => []DrainsFirst
<1>1. Inductive => DrainsFirst
  BY DEF Inductive, DrainInv, DrainsFirst
<1> QED BY <1>1, InductiveInvariant, PTL

\* And it ends with an error under its requests only while it accepted them: no exit
\* cuts short a Shutdown that has begun for their server (serveDev, serveService,
\* serveTLS).
THEOREM GraceIsNotCutShort == Spec => GraceIsKept
<1> DEFINE Kept == phase = "serving" /\ phase' = "closing" => Quiet \/ graceOver \/ Accepting
<1>1. ASSUME Inductive, [Next]_vars PROVE [Kept]_vars
  <2>1. SUFFICES ASSUME phase = "serving", phase' = "closing" PROVE Quiet \/ graceOver \/ Accepting
    OBVIOUS
  <2>2. ServeReturns \/ ServeFails
    BY <1>1, <2>1 DEF Next, Starting, Stopping, Closing, StartFails, Opens, BuildBackend, Up,
       OpenAudit, ServeDebugListener, StartWarmer, Listen, Start, Signal, DrainBegins,
       Port80Drained, MainDrained, GraceEnds, Drains, Wcancel, CloseWarmer, StopDebug,
       CloseAudit, CloseTsnet, CloseBackend, Closes, Exit, Ends, WarmerReturns, BackendExits,
       StartUp, processVars, lifeVars, vars
  <2> QED BY <1>1, <2>1, <2>2 DEF ServeReturns, Drained, ServeFails, ListenerFails, Inductive,
         DrainInv
<1> QED BY <1>1, InductiveInvariant, PTL DEF Spec, GraceIsKept

\* The warmer runs only while what it uses is open (serve's defers).
THEOREM WarmerIsStopped == Spec => []WarmerStopsFirst
<1>1. Inductive => WarmerStopsFirst
  BY StackProperties DEF Inductive, StackInv, WarmerStopsFirst
<1> QED BY <1>1, InductiveInvariant, PTL
=============================================================================
