--------------------------- MODULE SdkCall_proofs ---------------------------
(***************************************************************************)
(* The retries of a call stay in their budget, and a hung core costs no    *)
(* more requests than the shared count of timeouts allows.                 *)
(***************************************************************************)
EXTENDS SdkCall, FiniteSetTheorems, TLAPS

\* What the runs of a call so far allow it to be doing.
CallOK(k) == /\ k.kind = "write" => k.pc # "backoff" /\ k.attempt = 0 /\ k.runs <= 1
             /\ k.pc = "backoff" => k.tries < MaxTries
             /\ k.runs <= k.attempt * MaxTries + k.tries
             /\ k.seen \cap {"refused", "timeout"} # {}
                    => k.pc = "decide" /\ k.res \in {"refused", "timeout"}
             /\ "fault" \in k.seen /\ k.attempt = 0 => k.pc = "decide" /\ k.res = "fault"

CallsOK == \A c \in Callers : CallOK(call[c])
Typed == TypeOK /\ CallsOK

LEMMA IdleOK == Idle \in Call /\ CallOK(Idle)
BY SdkCallAssumption DEF Idle, Call, CallOK, Kinds, Results, Answers

LEMMA AllIdleOK ==
    /\ [c \in Callers |-> Idle] \in [Callers -> Call]
    /\ \A c \in Callers : [d \in Callers |-> Idle][c] = Idle /\ CallOK([d \in Callers |-> Idle][c])
BY IdleOK

LEMMA InitOK == Init => Typed
<1>1. 0 \in 0 .. MaxTimeouts - 1
  BY SdkCallAssumption
<1>2. Init => call \in [Callers -> Call] /\ CallsOK /\ \A c \in Callers : call[c] = Idle
  BY AllIdleOK DEF Init, CallsOK
<1>3. Init => stale \in BOOLEAN
  BY DEF Init
<1>4. Init => TypeOK
  <2>1. Init => lost \in Nat /\ consecTimeouts \in 0 .. MaxTimeouts - 1
    BY <1>1 DEF Init
  <2> QED BY <1>2, <1>3, <2>1 DEF Init, TypeOK
<1> QED BY <1>2, <1>4 DEF Typed

\* The goroutine c moves, within one process.
LEMMA MoveOK ==
    ASSUME Typed, NEW c \in Callers, proc = "up", proc' = "up",
           core' = core, stale' = stale, consecTimeouts' \in 0 .. MaxTimeouts - 1, lost' \in Nat,
           NEW k \in Call, CallOK(k), Becomes(c, k)
    PROVE  Typed'
BY DEF Typed, TypeOK, CallsOK, Becomes

\* A process ends.
LEMMA ExitOK == ASSUME Typed, Exit PROVE Typed'
<1>1. 0 \in 0 .. MaxTimeouts - 1
  BY SdkCallAssumption
<1> QED BY <1>1, AllIdleOK DEF Exit, Blank, Typed, TypeOK, CallsOK

LEMMA BusyIsUp ==
    ASSUME Typed, NEW c \in Callers, ~At(c, "idle")
    PROVE  proc = "up"
BY DEF Typed, TypeOK, At, Idle

\* A run after another one, of the same runOp or of the next.
LEMMA RunningFields ==
    ASSUME NEW k \in Call
    PROVE  /\ Running(k) \in Call
           /\ Running(k).pc = "running" /\ Running(k).runs = k.runs + 1
           /\ Running(k).kind = k.kind /\ Running(k).gone = k.gone
           /\ Running(k).tries = k.tries /\ Running(k).attempt = k.attempt
           /\ Running(k).seen = k.seen /\ Running(k).res = k.res
<1>1. k.runs \in Nat /\ k.runs + 1 \in Nat
  BY DEF Call
<1>2. Running(k) \in Call
  <2>1. [k EXCEPT !.pc = "running"] \in Call
    BY DEF Call
  <2>2. \A n \in Nat : [k EXCEPT !.pc = "running", !.runs = n] \in Call
    BY <2>1 DEF Call
  <2> QED BY <1>1, <2>2 DEF Running
<1>3. Running(k).pc = "running" /\ Running(k).runs = k.runs + 1
  BY <1>1 DEF Running, Call
<1> QED BY <1>2, <1>3 DEF Running, Call

LEMMA BeginOK ==
    ASSUME Typed, NEW c \in Callers, NEW kind \in Kinds, Begin(c, kind)
    PROVE  Typed'
<1> DEFINE b == [Idle EXCEPT !.kind = kind, !.tries = 1]
<1>1. /\ b \in Call
      /\ b.kind = kind /\ b.tries = 1 /\ b.attempt = 0 /\ b.runs = 0 /\ b.seen = {}
  <2>1. 1 \in 0 .. MaxTries
    BY SdkCallAssumption
  <2>2. b \in Call
    BY <2>1, IdleOK DEF Call
  <2> QED BY <2>1, <2>2, IdleOK DEF Idle, Call
<1> HIDE DEF b
<1>2. Running(b) \in Call /\ CallOK(Running(b))
  BY <1>1, RunningFields, SdkCallAssumption DEF CallOK
<1>3. Becomes(c, Running(b)) /\ proc = "up"
  BY DEF Begin, b
<1> QED BY <1>2, <1>3, MoveOK DEF Begin, Typed, TypeOK

LEMMA DisconnectOK ==
    ASSUME Typed, NEW c \in Callers, Disconnect(c)
    PROVE  Typed'
<1> DEFINE k == [call[c] EXCEPT !.gone = TRUE]
<1>1. call[c] \in Call /\ CallOK(call[c])
  BY DEF Typed, TypeOK, CallsOK
<1>2. k \in Call /\ CallOK(k)
  BY <1>1 DEF Call, CallOK
<1>3. proc = "up"
  BY BusyIsUp DEF Disconnect
<1> QED BY <1>2, <1>3, MoveOK DEF Disconnect, Typed, TypeOK

LEMMA AnswerOK ==
    ASSUME Typed, NEW c \in Callers, Answer(c)
    PROVE  Typed'
<1>1. PICK r \in Possible : Becomes(c, Ended(call[c], r))
  BY DEF Answer
<1>2. r \in Answers
  BY <1>1 DEF Possible, Answers, Typed, TypeOK
<1> DEFINE k == Ended(call[c], r)
<1>3. call[c] \in Call /\ CallOK(call[c]) /\ call[c].pc = "running"
  BY DEF Typed, TypeOK, CallsOK, Answer, At
<1>4. /\ k \in Call
      /\ k.kind = call[c].kind /\ k.tries = call[c].tries /\ k.attempt = call[c].attempt
      /\ k.runs = call[c].runs /\ k.seen = call[c].seen \cup {r} /\ k.res = r
      /\ k.pc = IF RetriesInside(call[c], r) THEN "backoff" ELSE "decide"
  BY <1>2, <1>3 DEF Ended, Call, Results
<1> HIDE DEF k
<1>5. CallOK(k)
  BY <1>2, <1>3, <1>4 DEF CallOK, RetriesInside, Answers
<1>6. proc = "up"
  BY BusyIsUp DEF Answer, At
<1> QED BY <1>1, <1>4, <1>5, <1>6, MoveOK DEF Answer, Typed, TypeOK, k

LEMMA AgainOK ==
    ASSUME Typed, NEW c \in Callers, Again(c)
    PROVE  Typed'
<1> DEFINE b == Running(call[c])
           k == [b EXCEPT !.tries = @ + 1]
<1>1. call[c] \in Call /\ CallOK(call[c]) /\ call[c].pc = "backoff"
  BY DEF Typed, TypeOK, CallsOK, Again, At
<1>2. /\ b \in Call
      /\ b.pc = "running" /\ b.runs = call[c].runs + 1 /\ b.kind = call[c].kind
      /\ b.tries = call[c].tries /\ b.attempt = call[c].attempt /\ b.seen = call[c].seen
  BY <1>1, RunningFields
<1> HIDE DEF b
<1>3. call[c].kind # "write" /\ call[c].tries < MaxTries
  BY <1>1 DEF CallOK
<1>4. /\ k \in Call
      /\ k.pc = "running" /\ k.runs = call[c].runs + 1 /\ k.kind = call[c].kind
      /\ k.tries = call[c].tries + 1 /\ k.attempt = call[c].attempt /\ k.seen = call[c].seen
  BY <1>1, <1>2, <1>3, SdkCallAssumption DEF Call
<1>5. Becomes(c, k)
  BY DEF Again, b
<1> HIDE DEF k
<1>6. call[c].attempt * MaxTries \in Int /\ call[c].tries \in Int /\ call[c].runs \in Int
  BY <1>1, SdkCallAssumption DEF Call
<1>7. CallOK(k)
  BY <1>1, <1>3, <1>4, <1>6 DEF CallOK
<1>8. proc = "up"
  BY BusyIsUp DEF Again, At
<1> QED BY <1>4, <1>5, <1>7, <1>8, MoveOK DEF Again, Typed, TypeOK

LEMMA TimeoutOK ==
    ASSUME Typed, NEW c \in Callers, Timeout(c)
    PROVE  Typed'
<1> DEFINE k == [call[c] EXCEPT !.pc = "decide", !.res = "timeout", !.seen = @ \cup {"timeout"}]
<1>1. call[c] \in Call /\ CallOK(call[c]) /\ call[c].pc \in {"running", "backoff"}
  BY DEF Typed, TypeOK, CallsOK, Timeout, Waits
<1>2. /\ k \in Call
      /\ k.kind = call[c].kind /\ k.tries = call[c].tries /\ k.attempt = call[c].attempt
      /\ k.runs = call[c].runs /\ k.seen = call[c].seen \cup {"timeout"} /\ k.res = "timeout"
      /\ k.pc = "decide"
  BY <1>1 DEF Call, Results
<1>3. Becomes(c, k) /\ proc = "up"
  BY <1>1, BusyIsUp DEF Timeout, At
<1> HIDE DEF k
<1>4. CallOK(k)
  BY <1>1, <1>2 DEF CallOK
<1> QED BY <1>2, <1>3, <1>4, MoveOK DEF Timeout, Typed, TypeOK

LEMMA FaultAgainOK ==
    ASSUME Typed, NEW c \in Callers, FaultAgain(c)
    PROVE  Typed'
<1> DEFINE b == Running(call[c])
           k == [b EXCEPT !.tries = 1, !.attempt = @ + 1]
<1>1. /\ call[c] \in Call /\ CallOK(call[c])
      /\ call[c].pc = "decide" /\ call[c].res = "fault"
      /\ call[c].attempt < FaultBudget(call[c])
  BY DEF Typed, TypeOK, CallsOK, FaultAgain, Decides, At
<1>2. /\ b \in Call
      /\ b.pc = "running" /\ b.runs = call[c].runs + 1 /\ b.kind = call[c].kind
      /\ b.tries = call[c].tries /\ b.attempt = call[c].attempt /\ b.seen = call[c].seen
  BY <1>1, RunningFields
<1> HIDE DEF b
<1>3. call[c].kind = "read" /\ call[c].attempt < FaultRetries /\ call[c].attempt \in Nat
  BY <1>1, SdkCallAssumption DEF FaultBudget, Call
<1>4. /\ k \in Call
      /\ k.pc = "running" /\ k.runs = call[c].runs + 1 /\ k.kind = call[c].kind
      /\ k.tries = 1 /\ k.attempt = call[c].attempt + 1 /\ k.seen = call[c].seen
  <2>1. 1 \in 0 .. MaxTries /\ b.attempt + 1 \in 0 .. FaultRetries
    BY <1>2, <1>3, SdkCallAssumption
  <2>2. k \in Call
    BY <1>2, <2>1 DEF Call
  <2> QED BY <1>2, <2>1, <2>2 DEF Call
<1>5. Becomes(c, k)
  BY DEF FaultAgain, b
<1> HIDE DEF k
<1>6. (call[c].attempt + 1) * MaxTries = call[c].attempt * MaxTries + MaxTries
  BY <1>3, SdkCallAssumption
<1>7. /\ call[c].attempt * MaxTries \in Int
      /\ call[c].tries \in 0 .. MaxTries /\ call[c].runs \in Nat /\ MaxTries \in Nat
  BY <1>1, <1>3, SdkCallAssumption DEF Call
<1>8. k.runs <= k.attempt * MaxTries + k.tries
  BY <1>1, <1>4, <1>6, <1>7 DEF CallOK
<1>9. CallOK(k)
  BY <1>1, <1>3, <1>4, <1>8 DEF CallOK
<1>10. proc = "up"
  BY <1>1, BusyIsUp DEF At
<1> QED BY <1>4, <1>5, <1>9, <1>10, MoveOK DEF FaultAgain, Typed, TypeOK

LEMMA EndsOK ==
    ASSUME Typed, NEW c \in Callers, CallerLeft(c) \/ Succeeds(c) \/ Fails(c) \/ TimesOut(c)
    PROVE  Typed'
<1>1. proc = "up"
  BY BusyIsUp DEF CallerLeft, Succeeds, Fails, TimesOut, Decides, At
<1>2. CASE TimesOut(c) /\ Hung(consecTimeouts + 1)
  BY <1>2, ExitOK DEF TimesOut
<1>3. CASE TimesOut(c) /\ ~Hung(consecTimeouts + 1)
  <2>1. consecTimeouts' \in 0 .. MaxTimeouts - 1 /\ lost' \in Nat
    BY <1>3, SdkCallAssumption DEF TimesOut, Hung, Typed, TypeOK
  <2> QED BY <1>1, <1>3, <2>1, MoveOK, IdleOK DEF TimesOut, Ends
<1>4. CASE CallerLeft(c) \/ Fails(c)
  BY <1>1, <1>4, MoveOK, IdleOK DEF CallerLeft, Fails, Ends, Typed, TypeOK
<1>5. CASE Succeeds(c)
  BY <1>1, <1>5, MoveOK, IdleOK, SdkCallAssumption DEF Succeeds, Ends, Typed, TypeOK
<1> QED BY <1>2, <1>3, <1>4, <1>5

LEMMA ProcessOK ==
    ASSUME Typed, Connect \/ ConnectRefused \/ Restart \/ Spoil \/ Age
    PROVE  Typed'
BY DEF Typed, TypeOK, CallsOK, Connect, ConnectRefused, Restart, Spoil, Age

LEMMA TypedStep == ASSUME Typed, [Next]_vars PROVE Typed'
<1>1. CASE Connect \/ ConnectRefused \/ Restart \/ Spoil \/ Age
  BY <1>1, ProcessOK
<1>2. CASE \E c \in Callers : Recycle(c) \/ FaultExits(c)
  BY <1>2, ExitOK DEF Recycle, FaultExits
<1>3. ASSUME NEW c \in Callers, Step(c) /\ ~FaultExits(c)
      PROVE  Typed'
  BY <1>3, AnswerOK, AgainOK, TimeoutOK, FaultAgainOK, EndsOK DEF Step, Decide
<1>4. CASE \E c \in Callers : Disconnect(c) \/ \E kind \in Kinds : Begin(c, kind)
  BY <1>4, DisconnectOK, BeginOK
<1>5. CASE UNCHANGED vars
  BY <1>5 DEF vars, Typed, TypeOK, CallsOK
<1> QED BY <1>1, <1>2, <1>3, <1>4, <1>5 DEF Next

\* The process, the count and every call keep their types; nobody is in a call of a
\* process that is not up (Backend, call).
THEOREM TypeCorrect == Spec => []TypeOK
<1>1. Init => Typed
  BY InitOK
<1>2. Typed /\ [Next]_vars => Typed'
  BY TypedStep
<1>3. Typed => TypeOK
  BY DEF Typed
<1> QED BY <1>1, <1>2, <1>3, PTL DEF Spec

\* For any number of tries, fault retries and callers, a write runs once and the two
\* layers of retries multiply to no more than their budget (call, runOp).
THEOREM RetriesStay == Spec => []RetriesStayInBudget
<1>1. Init => Typed
  BY InitOK
<1>2. Typed /\ [Next]_vars => Typed'
  BY TypedStep
<1>3. Typed => RetriesStayInBudget
  <2> SUFFICES ASSUME Typed, NEW c \in Callers
               PROVE  LET k == call[c]
                      IN  /\ k.kind = "write" => k.runs <= 1
                          /\ k.runs <= MaxTries * (FaultRetries + 1)
                          /\ k.seen \cap {"refused", "timeout"} # {}
                                 => k.pc = "decide" /\ k.res \in {"refused", "timeout"}
                          /\ "fault" \in k.seen /\ k.res # "fault" => k.attempt > 0
    BY DEF RetriesStayInBudget
  <2> DEFINE k == call[c]
  <2>1. k \in Call /\ CallOK(k)
    BY DEF Typed, TypeOK, CallsOK
  <2> HIDE DEF k
  <2>2. /\ k.attempt \in 0 .. FaultRetries /\ k.tries \in 0 .. MaxTries /\ k.runs \in Nat
        /\ FaultRetries \in Nat /\ MaxTries \in Nat
    BY <2>1, SdkCallAssumption DEF Call
  <2>3. PICK rest \in Nat : FaultRetries = k.attempt + rest
    <3>1. FaultRetries - k.attempt \in Nat /\ FaultRetries = k.attempt + (FaultRetries - k.attempt)
      BY <2>2
    <3> QED BY <3>1
  <2>4. MaxTries * (FaultRetries + 1) = k.attempt * MaxTries + rest * MaxTries + MaxTries
    BY <2>2, <2>3
  <2>5. rest * MaxTries \in Nat /\ k.attempt * MaxTries \in Nat
    BY <2>2
  <2>6. k.runs <= MaxTries * (FaultRetries + 1)
    BY <2>1, <2>2, <2>4, <2>5 DEF CallOK
  <2> QED BY <2>1, <2>2, <2>6 DEF CallOK, k
<1> QED BY <1>1, <1>2, <1>3, PTL DEF Spec

----------------------------------------------------------------------------
(* The bound on what a hung core costs *)

\* A goroutine with a success in hand can still reset the count, once; one that is
\* free can only time out, as the hung core answers no more.
Pends(k) == k.pc = "decide" /\ k.res = "ok"
Free == {c \in Callers : ~Pends(call[c])}

CostOfFree == IF Free = {} THEN lost = 0
              ELSE lost <= consecTimeouts + (MaxTimeouts - 1) * (Cardinality(Free) - 1)
CostInv == IF core = "hung" THEN CostOfFree ELSE lost = 0

LEMMA FreeIsFinite ==
    /\ IsFiniteSet(Free) /\ Cardinality(Free) \in Nat
    /\ Cardinality(Free) <= Cardinality(Callers) /\ Cardinality(Callers) \in Nat
    /\ Free # {} => Cardinality(Free) >= 1
<1>1. Free \subseteq Callers /\ IsFiniteSet(Callers)
  BY SdkCallAssumption DEF Free
<1>2. IsFiniteSet(Free) /\ Cardinality(Free) <= Cardinality(Callers)
  BY <1>1, FS_Subset
<1>3. Cardinality(Free) \in Nat /\ Cardinality(Callers) \in Nat
  BY <1>1, <1>2, FS_CardinalityType
<1>4. Free # {} => Cardinality(Free) # 0
  BY <1>2, FS_EmptySet
<1> QED BY <1>2, <1>3, <1>4

LEMMA SameFree ==
    ASSUME Typed, NEW c \in Callers, NEW k, Becomes(c, k), Pends(k) <=> Pends(call[c])
    PROVE  Free' = Free
<1>1. call'[c] = k /\ \A d \in Callers : d # c => call'[d] = call[d]
  BY DEF Typed, TypeOK, Becomes
<1> QED BY <1>1 DEF Free

LEMMA OneMoreFree ==
    ASSUME Typed, NEW c \in Callers, Becomes(c, Idle), Pends(call[c])
    PROVE  Free' = Free \cup {c} /\ c \notin Free /\ Cardinality(Free') = Cardinality(Free) + 1
<1>1. call'[c] = Idle /\ \A d \in Callers : d # c => call'[d] = call[d]
  BY DEF Typed, TypeOK, Becomes
<1>2. ~Pends(Idle)
  BY DEF Pends, Idle
<1>3. Free' = Free \cup {c} /\ c \notin Free
  BY <1>1, <1>2 DEF Free
<1> QED BY <1>3, FreeIsFinite, FS_AddElement

\* Whoever moves without a success in hand, and comes to none, leaves the cost.
LEMMA SameCost ==
    ASSUME CostInv, core' = core, lost' = lost, consecTimeouts' = consecTimeouts,
           core = "hung" => Free' = Free
    PROVE  CostInv'
BY DEF CostInv, CostOfFree

LEMMA IdlePends == ~Pends(Idle)
BY DEF Pends, Idle

LEMMA SpoilCost == ASSUME Typed, CostInv, Spoil PROVE CostInv'
<1>1. lost' = 0 /\ Free' = Free /\ consecTimeouts' = consecTimeouts
  BY DEF Spoil, CostInv, Free
<1>2. /\ MaxTimeouts - 1 \in Nat /\ consecTimeouts \in Nat
      /\ Free # {} => Cardinality(Free) - 1 \in Nat
  BY FreeIsFinite, SdkCallAssumption DEF Typed, TypeOK
<1>3. Free # {} => (MaxTimeouts - 1) * (Cardinality(Free) - 1) \in Nat
  BY <1>2
<1>4. CostOfFree'
  BY <1>1, <1>2, <1>3 DEF CostOfFree
<1> QED BY <1>1, <1>4 DEF CostInv

LEMMA BeginCost ==
    ASSUME Typed, CostInv, NEW c \in Callers, NEW kind \in Kinds, Begin(c, kind)
    PROVE  CostInv'
<1> DEFINE b == [Idle EXCEPT !.kind = kind, !.tries = 1]
<1>1. b \in Call
  <2>1. 1 \in 0 .. MaxTries
    BY SdkCallAssumption
  <2> QED BY <2>1, IdleOK DEF Call
<1>2. Becomes(c, Running(b))
  BY DEF Begin
<1> HIDE DEF b
<1>3. ~Pends(Running(b))
  BY <1>1, RunningFields DEF Pends
<1>4. ~Pends(call[c])
  BY DEF Begin, At, Pends
<1> QED BY <1>2, <1>3, <1>4, SameFree, SameCost DEF Begin

LEMMA StaysCost ==
    ASSUME Typed, CostInv, NEW c \in Callers,
           Disconnect(c) \/ Answer(c) \/ Again(c) \/ Timeout(c) \/ FaultAgain(c)
    PROVE  CostInv'
<1> DEFINE k == call[c]
<1>1. k \in Call
  BY DEF Typed, TypeOK
<1>2. /\ Running(k) \in Call /\ Running(k).pc = "running"
  BY <1>1, RunningFields
<1> DEFINE b == Running(k)
<1>3. CASE Disconnect(c)
  <2>1. Pends([k EXCEPT !.gone = TRUE]) <=> Pends(k)
    BY <1>1 DEF Pends, Call
  <2> QED BY <1>3, <2>1, SameFree, SameCost DEF Disconnect
<1>4. CASE Answer(c)
  <2>1. core # "hung"
    BY <1>4 DEF Answer, Possible
  <2> QED BY <1>4, <2>1, SameCost DEF Answer
<1>5. CASE Again(c)
  <2> HIDE DEF b
  <2>1. ~Pends([b EXCEPT !.tries = @ + 1])
    BY <1>2 DEF Pends, Call, b
  <2>2. ~Pends(k)
    BY <1>5 DEF Again, At, Pends
  <2>3. Becomes(c, [b EXCEPT !.tries = @ + 1])
    BY <1>5 DEF Again, b
  <2> QED BY <1>5, <2>1, <2>2, <2>3, SameFree, SameCost DEF Again
<1>6. CASE Timeout(c)
  <2>1. ~Pends([k EXCEPT !.pc = "decide", !.res = "timeout", !.seen = @ \cup {"timeout"}])
    BY <1>1 DEF Pends, Call
  <2>2. ~Pends(k)
    BY <1>6 DEF Timeout, Waits, Pends
  <2> QED BY <1>6, <2>1, <2>2, SameFree, SameCost DEF Timeout
<1>7. CASE FaultAgain(c)
  <2> HIDE DEF b
  <2>1. ~Pends([b EXCEPT !.tries = 1, !.attempt = @ + 1])
    BY <1>2 DEF Pends, Call, b
  <2>2. ~Pends(k)
    BY <1>7 DEF FaultAgain, Decides, Pends
  <2>3. Becomes(c, [b EXCEPT !.tries = 1, !.attempt = @ + 1])
    BY <1>7 DEF FaultAgain, b
  <2> QED BY <1>7, <2>1, <2>2, <2>3, SameFree, SameCost DEF FaultAgain
<1> QED BY <1>3, <1>4, <1>5, <1>6, <1>7

\* A success, taken or left, makes room for another run of timeouts.
LEMMA ResetCost ==
    ASSUME Typed, CostInv, NEW c \in Callers, Becomes(c, Idle), Pends(call[c]),
           core' = core, lost' = lost, consecTimeouts' \in {0, consecTimeouts}
    PROVE  CostInv'
<1>1. Free' # {} /\ Cardinality(Free') = Cardinality(Free) + 1
  BY OneMoreFree
<1> DEFINE m == MaxTimeouts - 1
           f == Cardinality(Free)
<1>2. m \in Nat /\ f \in Nat /\ consecTimeouts \in 0 .. m /\ lost \in Nat
  BY FreeIsFinite, SdkCallAssumption DEF Typed, TypeOK
<1>3. core = "hung" => lost <= m * f
  <2>1. CASE Free = {}
    <3>1. m * f \in Nat
      BY <1>2
    <3> QED BY <1>2, <2>1, <3>1 DEF CostInv, CostOfFree
  <2>2. CASE Free # {}
    <3>1. m * f = m * (f - 1) + m /\ m * (f - 1) \in Int
      BY <1>2
    <3>2. core = "hung" => lost <= consecTimeouts + m * (f - 1)
      BY <2>2 DEF CostInv, CostOfFree
    <3> HIDE DEF m, f
    <3> QED BY <1>2, <3>1, <3>2
  <2> QED BY <2>1, <2>2
<1>4. m * f \in Nat
  BY <1>2
<1>5. core = "hung" => lost' <= consecTimeouts' + m * (Cardinality(Free') - 1)
  <2>1. Cardinality(Free') - 1 = f
    BY <1>1, <1>2
  <2>2. consecTimeouts' \in Nat
    BY <1>2
  <2> HIDE DEF m, f
  <2> QED BY <1>2, <1>3, <1>4, <2>1, <2>2
<1> QED BY <1>1, <1>5 DEF CostInv, CostOfFree

LEMMA EndsCost ==
    ASSUME Typed, CostInv, NEW c \in Callers, CallerLeft(c) \/ Succeeds(c) \/ Fails(c) \/ TimesOut(c)
    PROVE  CostInv'
<1>1. CASE CallerLeft(c)
  <2>1. CASE Pends(call[c])
    BY <1>1, <2>1, ResetCost DEF CallerLeft, Ends
  <2>2. CASE ~Pends(call[c])
    BY <1>1, <2>2, IdlePends, SameFree, SameCost DEF CallerLeft, Ends
  <2> QED BY <2>1, <2>2
<1>2. CASE Succeeds(c)
  <2>1. Pends(call[c])
    BY <1>2 DEF Succeeds, Decides, At, Pends
  <2> QED BY <1>2, <2>1, ResetCost DEF Succeeds, Ends
<1>3. CASE Fails(c)
  <2>1. ~Pends(call[c])
    BY <1>3 DEF Fails, Decides, Pends
  <2> QED BY <1>3, <2>1, IdlePends, SameFree, SameCost DEF Fails, Ends
<1>4. CASE TimesOut(c)
  <2>1. CASE Hung(consecTimeouts + 1)
    BY <1>4, <2>1 DEF TimesOut, Exit, Blank, CostInv
  <2>2. CASE ~Hung(consecTimeouts + 1)
    <3>1. ~Pends(call[c])
      BY <1>4 DEF TimesOut, Decides, Pends
    <3>2. Free' = Free /\ c \in Free
      BY <1>4, <2>2, <3>1, IdlePends, SameFree DEF TimesOut, Ends, Free
    <3>3. (MaxTimeouts - 1) * (Cardinality(Free) - 1) \in Int
      BY FreeIsFinite, SdkCallAssumption
    <3>4. consecTimeouts \in Nat /\ lost \in Nat
      BY SdkCallAssumption DEF Typed, TypeOK
    <3> QED BY <1>4, <2>2, <3>2, <3>3, <3>4 DEF TimesOut, CostInv, CostOfFree
  <2> QED BY <2>1, <2>2
<1> QED BY <1>1, <1>2, <1>3, <1>4

LEMMA CostStep == ASSUME Typed, CostInv, [Next]_vars PROVE CostInv'
<1>1. CASE Connect \/ ConnectRefused \/ Restart \/ Age \/ UNCHANGED vars
  BY <1>1 DEF Connect, ConnectRefused, Restart, Age, vars, CostInv, CostOfFree, Free
<1>2. CASE Spoil
  BY <1>2, SpoilCost
<1>3. CASE \E c \in Callers : Recycle(c) \/ FaultExits(c)
  BY <1>3 DEF Recycle, FaultExits, Exit, Blank, CostInv
<1>4. ASSUME NEW c \in Callers, Disconnect(c) \/ (Step(c) /\ ~FaultExits(c))
      PROVE  CostInv'
  BY <1>4, StaysCost, EndsCost DEF Step, Decide
<1>5. CASE \E c \in Callers, kind \in Kinds : Begin(c, kind)
  BY <1>5, BeginCost
<1> QED BY <1>1, <1>2, <1>3, <1>4, <1>5 DEF Next

\* For any number of goroutines, the requests that time out on a hung core before the
\* process exits are at most MaxTimeouts - 1 for each of them, although a success of
\* before may reset the count that they share (call: consecTimeouts).
THEOREM BrownoutStaysBounded == Spec => []BrownoutIsBounded
<1>1. Init => Typed /\ CostInv
  BY InitOK DEF Init, CostInv
<1>2. Typed /\ CostInv /\ [Next]_vars => (Typed /\ CostInv)'
  BY TypedStep, CostStep
<1>3. Typed /\ CostInv => BrownoutIsBounded
  <2> SUFFICES ASSUME Typed, CostInv
               PROVE  lost <= (MaxTimeouts - 1) * Cardinality(Callers)
    BY DEF BrownoutIsBounded
  <2> DEFINE m == MaxTimeouts - 1
             f == Cardinality(Free)
             n == Cardinality(Callers)
  <2>1. m \in Nat /\ f \in Nat /\ n \in Nat /\ f <= n /\ consecTimeouts \in 0 .. m
    BY FreeIsFinite, SdkCallAssumption DEF Typed, TypeOK
  <2>2. PICK rest \in Nat : n = f + rest
    <3>1. n - f \in Nat /\ n = f + (n - f)
      BY <2>1
    <3> QED BY <3>1
  <2>3. m * n = m * (f - 1) + m + m * rest /\ m * (f - 1) \in Int
    BY <2>1, <2>2
  <2>4. m * n \in Nat /\ m * rest \in Nat
    BY <2>1, <2>2
  <2>5. CASE lost = 0
    BY <2>4, <2>5
  <2>6. CASE lost <= consecTimeouts + m * (f - 1)
    <3>1. lost \in Nat
      BY DEF Typed, TypeOK
    <3> HIDE DEF m, f, n
    <3>2. lost <= m * n
      BY <2>1, <2>3, <2>4, <2>6, <3>1
    <3> QED BY <3>2 DEF m, n
  <2> QED BY <2>5, <2>6 DEF CostInv, CostOfFree
<1> QED BY <1>1, <1>2, <1>3, PTL DEF Spec
=============================================================================
