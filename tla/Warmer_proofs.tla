--------------------------- MODULE Warmer_proofs ---------------------------
(***************************************************************************)
(* The warmer's bookkeeping, and that it loses no request to start over.   *)
(***************************************************************************)
EXTENDS Warmer, TLAPS

\* TypeOK, as far as the loop goes.
LoopType == /\ DOMAIN next \subseteq Names
            /\ next \in [DOMAIN next -> 0 .. RefreshAhead]
            /\ relistIn \in 0 .. RefreshAhead
            /\ pause \in 0 .. MaxPause
            /\ pc \in {"top", "listing", "pass", "loading", "select", "backoff", "done"}
            /\ todo \subseteq DOMAIN next
            /\ IF pc = "loading" THEN \E n \in todo : target = {n} ELSE target = {} /\ ~moved
            /\ slow \in 0 .. Slow
            /\ status \in [Names -> {"warm", "failed", "cold"}]

AroundType == /\ vault \subseteq Names
              /\ entry \in [Names -> 0 .. MaxLife]
              /\ moved \in BOOLEAN /\ reprime \in BOOLEAN /\ cancelled \in BOOLEAN
              /\ window \in 0 .. Window
              /\ flush \in {"none", "accepted", "purged"}
              /\ flushed \subseteq Names

\* A purged name that has not been read since is due, or a Reprime is on its way;
\* one that was purged during its load waits for the Reprime, for the load may have
\* begun before the purge.
Repairing == reprime \/ flush = "purged"
Repaired == /\ \A n \in flushed \cap Tracked : Repairing \/ next[n] = 0
            /\ target \cap flushed # {} => Repairing

Inductive == LoopType /\ AroundType /\ Repaired

LEMMA Constants ==
    /\ RefreshAhead \in Nat /\ MaxLife \in Nat /\ Slow \in Nat /\ Window \in Nat
    /\ MaxPause \in Nat \ {0} /\ RetryGap \in Nat
    /\ Lives \subseteq 0 .. MaxLife
BY WarmerAssumption DEF Lives

LEMMA InitInductive == Init => Inductive
<1> SUFFICES ASSUME Init PROVE Inductive
  OBVIOUS
<1>1. DOMAIN next = {} /\ next \in [DOMAIN next -> 0 .. RefreshAhead]
  BY DEF Init
<1>2. LoopType
  BY <1>1, Constants DEF Init, LoopType
<1>3. AroundType
  <2>1. entry \in [Names -> 0 .. MaxLife] /\ window \in 0 .. Window
    BY Constants DEF Init
  <2>2. moved = FALSE /\ reprime = FALSE /\ cancelled = FALSE
    BY DEF Init
  <2> QED BY <2>1, <2>2 DEF Init, AroundType
<1>4. Repaired
  BY DEF Init, Repaired
<1> QED BY <1>2, <1>3, <1>4 DEF Inductive

\* The loop's steps that change neither deadlines nor target.
LEMMA MovesKeep ==
    ASSUME Inductive, Top \/ ListFails \/ Resume \/ EndPass \/ Wake \/ \E n \in Names : Skip(n)
    PROVE  Inductive'
<1>1. UNCHANGED <<next, relistIn, target, moved, reprime, flush, flushed, entry, vault, window, cancelled>>
  BY DEF Top, ListFails, Resume, EndPass, Wake, Skip, envVars
<1>2. pc # "loading" /\ pc' # "loading"
  BY DEF Top, ListFails, AfterFailure, Resume, EndPass, Wake, Skip
<1>3. LoopType'
  BY <1>1, <1>2, Constants DEF Inductive, LoopType, Top, ListFails, AfterFailure, Resume, EndPass,
         Wake, Skip, Tracked
<1>4. AroundType' /\ Repaired'
  BY <1>1 DEF Inductive, AroundType, Repaired, Repairing, Tracked
<1> QED BY <1>3, <1>4 DEF Inductive

LEMMA ReturnKeeps == ASSUME Inductive, Return PROVE Inductive'
<1>1. DOMAIN next' = {} /\ next' \in [DOMAIN next' -> 0 .. RefreshAhead]
  BY DEF Return
<1>2. LoopType'
  BY <1>1, Constants DEF Return, Inductive, LoopType
<1>3. AroundType' /\ Repaired'
  BY <1>1 DEF Return, Inductive, AroundType, Repaired, Repairing, LoopType, Tracked, envVars
<1> QED BY <1>2, <1>3 DEF Inductive

LEMMA ReconcileKeeps == ASSUME Inductive, Reconcile PROVE Inductive'
<1>1. vault \subseteq Names
  BY DEF Inductive, AroundType
<1>2. \A n \in Tracked : next[n] \in 0 .. RefreshAhead
  BY DEF Inductive, LoopType, Tracked
<1>3. DOMAIN next' = vault /\ next' \in [DOMAIN next' -> 0 .. RefreshAhead]
  BY <1>2, Constants DEF Reconcile
<1>4. LoopType'
  BY <1>1, <1>3, Constants DEF Reconcile, Inductive, LoopType, Tracked
<1>5. AroundType'
  BY Constants DEF Reconcile, Inductive, AroundType, envVars
<1>6. Repaired'
  BY <1>3 DEF Reconcile, Inductive, Repaired, Repairing, LoopType, Tracked, envVars
<1> QED BY <1>4, <1>5, <1>6 DEF Inductive

LEMMA WarmKeeps == ASSUME Inductive, NEW n \in Names, Warm(n) PROVE Inductive'
<1>1. LoopType'
  BY DEF Warm, Inductive, LoopType
<1>2. AroundType' /\ Repaired'
  BY DEF Warm, Inductive, AroundType, Repaired, Repairing, LoopType, Tracked, envVars
<1> QED BY <1>1, <1>2 DEF Inductive

\* A load of n ends, and n is due in d.
LEMMA GoesKeeps ==
    ASSUME Inductive, NEW n \in Names, NEW d \in 0 .. RefreshAhead, Goes(n, d),
           entry' \in [Names -> 0 .. MaxLife],
           status' \in [Names -> {"warm", "failed", "cold"}]
    PROVE  Inductive'
<1>1. pc = "loading" /\ n \in target /\ n \in todo /\ todo \subseteq Tracked
  BY DEF Goes, Ends, Inductive, LoopType, Tracked
<1>2. /\ DOMAIN next' = DOMAIN next /\ next' \in [DOMAIN next' -> 0 .. RefreshAhead]
      /\ \A m \in Tracked : next'[m] = IF m = n THEN d ELSE next[m]
  BY <1>1 DEF Goes, Inductive, LoopType, Tracked
<1>3. LoopType'
  BY <1>1, <1>2 DEF Goes, Ends, Inductive, LoopType
<1>4. AroundType'
  BY DEF Goes, Ends, Inductive, AroundType, envVars
<1>5. Repaired'
  BY <1>1, <1>2 DEF Goes, Ends, Inductive, Repaired, Repairing, Tracked, envVars
<1> QED BY <1>3, <1>4, <1>5 DEF Inductive

LEMMA CallKeeps == ASSUME Inductive, NEW n \in Names, Call(n) PROVE Inductive'
<1>1. entry \in [Names -> 0 .. MaxLife] /\ status \in [Names -> {"warm", "failed", "cold"}]
  BY DEF Inductive, LoopType, AroundType
<1>2. CASE WarmOK(n)
  <2>1. entry' \in [Names -> 0 .. MaxLife]
    BY <1>1, <1>2, Constants DEF WarmOK
  <2>2. status' \in [Names -> {"warm", "failed", "cold"}]
    BY <1>1, <1>2 DEF WarmOK
  <2>3. RefreshAhead \in 0 .. RefreshAhead
    BY Constants
  <2> QED BY <1>2, <2>1, <2>2, <2>3, GoesKeeps DEF WarmOK
<1>3. CASE WarmFails(n)
  <2>1. RetriesIn \in 0 .. RefreshAhead
    BY WarmerAssumption DEF RetriesIn
  <2>2. status' \in [Names -> {"warm", "failed", "cold"}]
    BY <1>1, <1>3 DEF WarmFails
  <2> QED BY <1>1, <1>3, <2>1, <2>2, GoesKeeps DEF WarmFails
<1>4. CASE WarmParks(n)
  <2>1. status' \in [Names -> {"warm", "failed", "cold"}] /\ RefreshAhead \in 0 .. RefreshAhead
    BY <1>1, <1>4, Constants DEF WarmParks
  <2> QED BY <1>1, <1>4, <2>1, GoesKeeps DEF WarmParks
<1>5. CASE WarmNotFound(n)
  <2>1. pc = "loading" /\ target = {n}
    BY <1>5 DEF WarmNotFound, Ends, Inductive, LoopType
  <2>2. /\ DOMAIN next' = Tracked \ {n} /\ next' \in [DOMAIN next' -> 0 .. RefreshAhead]
        /\ \A m \in Tracked \ {n} : next'[m] = next[m]
    BY <1>5 DEF WarmNotFound, Restrict, Inductive, LoopType, Tracked
  <2>3. LoopType'
    BY <1>1, <1>5, <2>1, <2>2 DEF WarmNotFound, Ends, Inductive, LoopType, Tracked
  <2>4. AroundType'
    <3>1. entry' \in [Names -> 0 .. MaxLife]
      BY <1>5, Constants DEF WarmNotFound, Inductive, AroundType
    <3>2. moved' = FALSE
      BY <1>5 DEF WarmNotFound, Ends
    <3> QED BY <1>5, <3>1, <3>2 DEF WarmNotFound, Inductive, AroundType, envVars
  <2>5. Repaired'
    BY <1>5, <2>2 DEF WarmNotFound, Ends, Inductive, Repaired, Repairing, Tracked, envVars
  <2> QED BY <2>3, <2>4, <2>5 DEF Inductive
<1> QED BY <1>2, <1>3, <1>4, <1>5 DEF Call

LEMMA TakeReprimeKeeps == ASSUME Inductive, TakeReprime PROVE Inductive'
<1>1. DOMAIN next' = Tracked /\ next' \in [DOMAIN next' -> 0 .. RefreshAhead]
  BY Constants DEF TakeReprime
<1>2. LoopType'
  BY <1>1, Constants DEF TakeReprime, Inductive, LoopType, Tracked
<1>3. AroundType'
  BY DEF TakeReprime, Inductive, AroundType, envVars
<1>4. Repaired'
  BY <1>1 DEF TakeReprime, Inductive, Repaired, Repairing, LoopType, Tracked, envVars
<1> QED BY <1>2, <1>3, <1>4 DEF Inductive

LEMMA LessType == ASSUME NEW m \in Nat, NEW t \in 0 .. m PROVE Less(t) \in 0 .. m
BY DEF Less

LEMMA TickKeeps == ASSUME Inductive, Tick PROVE Inductive'
<1>1. DOMAIN next' = Tracked /\ next' \in [DOMAIN next' -> 0 .. RefreshAhead]
  BY Constants, LessType DEF Tick, Inductive, LoopType, Tracked
<1>2. \A n \in Tracked : next[n] = 0 => next'[n] = 0
  BY DEF Tick, Less
<1>3. relistIn' \in 0 .. RefreshAhead /\ pause' \in 0 .. MaxPause /\ window' \in 0 .. Window
  BY Constants, LessType DEF Tick, Inductive, LoopType, AroundType
<1>4. entry' \in [Names -> 0 .. MaxLife]
  BY Constants, LessType DEF Tick, Inductive, AroundType
<1>5. slow' \in 0 .. Slow
  BY Constants DEF Tick, Inductive, LoopType
<1>6. LoopType'
  BY <1>1, <1>3, <1>5 DEF Tick, Inductive, LoopType, Tracked
<1>7. AroundType'
  BY <1>3, <1>4 DEF Tick, Inductive, AroundType
<1>8. Repaired'
  BY <1>1, <1>2 DEF Tick, Inductive, Repaired, Repairing, Tracked
<1> QED BY <1>6, <1>7, <1>8 DEF Inductive

\* Traffic, the store, edits, the flush endpoint and the end of the process.
LEMMA OtherKeeps == ASSUME Inductive, Other PROVE Inductive'
<1>1. UNCHANGED <<next, relistIn, pause, pc, todo, target, slow>>
  BY DEF Other, Read, Save, Delete, Elsewhere, Accept, Purge, Primed, Cancel, loopVars
<1>2. entry \in [Names -> 0 .. MaxLife] /\ status \in [Names -> {"warm", "failed", "cold"}]
  BY DEF Inductive, LoopType, AroundType
<1>3. entry' \in [Names -> 0 .. MaxLife]
  BY <1>2, Constants DEF Other, Read, Save, Delete, Elsewhere, Accept, Purge, Primed, Cancel
<1>4. status' \in [Names -> {"warm", "failed", "cold"}]
  BY <1>2 DEF Other, Read, Save, Delete, Elsewhere, Accept, Purge, Primed, Cancel
<1>5. moved' \in BOOLEAN /\ (pc # "loading" /\ ~moved => ~moved')
  <2>1. moved' = moved \/ moved' = (pc = "loading")
    BY Zenon DEF Other, Read, Save, Delete, Elsewhere, Accept, Purge, Primed, Cancel
  <2>2. moved \in BOOLEAN
    BY DEF Inductive, AroundType
  <2>3. (pc = "loading") \in BOOLEAN
    OBVIOUS
  <2>4. moved' \in BOOLEAN
    BY <2>1, <2>2, <2>3, Zenon
  <2>5. ASSUME pc # "loading", ~moved PROVE ~moved'
    BY <2>1, <2>5, Zenon
  <2> QED BY <2>4, <2>5
<1>6. LoopType'
  BY <1>1, <1>4, <1>5 DEF Inductive, LoopType
<1>7. vault' \subseteq Names /\ flushed' \subseteq Names
  BY DEF Other, Read, Save, Delete, Elsewhere, Accept, Purge, Primed, Cancel, Inductive,
         AroundType, envVars
<1>8. /\ reprime' \in BOOLEAN /\ cancelled' \in BOOLEAN
      /\ window' \in 0 .. Window /\ flush' \in {"none", "accepted", "purged"}
  <2>1. window' \in 0 .. Window /\ flush' \in {"none", "accepted", "purged"}
    BY Constants DEF Other, Read, Save, Delete, Elsewhere, Accept, Purge, Primed, Cancel,
           Inductive, AroundType, envVars
  <2>2. (reprime' = reprime \/ reprime' = TRUE) /\ (cancelled' = cancelled \/ cancelled' = TRUE)
    BY Zenon DEF Other, Read, Save, Delete, Elsewhere, Accept, Purge, Primed, Reprimed, Cancel,
           envVars
  <2>3. reprime \in BOOLEAN /\ cancelled \in BOOLEAN
    BY DEF Inductive, AroundType
  <2>4. reprime' \in BOOLEAN /\ cancelled' \in BOOLEAN
    BY <2>2, <2>3, Zenon
  <2> QED BY <2>1, <2>4
<1>9. AroundType'
  BY <1>3, <1>5, <1>7, <1>8 DEF AroundType
<1>10. Repaired'
  <2>1. CASE Purge
    BY <2>1 DEF Purge, Repaired, Repairing
  <2>2. CASE Primed
    BY <2>2 DEF Primed, Reprimed, Repaired, Repairing
  <2>3. CASE ~Purge /\ ~Primed
    <3>1. flushed' = flushed /\ (Repairing => Repairing')
      BY <2>3 DEF Other, Read, Save, Delete, Elsewhere, Accept, Cancel, envVars, Repairing
    <3> QED BY <1>1, <3>1 DEF Inductive, Repaired, Tracked
  <2> QED BY <2>1, <2>2, <2>3
<1> QED BY <1>6, <1>9, <1>10 DEF Inductive

LEMMA InductiveStep == Inductive /\ [Next]_vars => Inductive'
<1>1. ASSUME Inductive, UNCHANGED vars PROVE Inductive'
  BY <1>1 DEF vars, Inductive, LoopType, AroundType, Repaired, Repairing, Tracked
<1> QED BY <1>1, MovesKeep, ReturnKeeps, ReconcileKeeps, WarmKeeps, CallKeeps, TakeReprimeKeeps,
           TickKeeps, OtherKeeps DEF Next, Loop, Around

\* A purged secret is due, or a Reprime for it is on its way (Warmer.loop, Purge, Reprime).
THEOREM InductiveInvariant == Spec => []Inductive
<1>1. Init => Inductive
  BY InitInductive
<1>2. Inductive /\ [Next]_vars => Inductive'
  BY InductiveStep
<1> QED BY <1>1, <1>2, PTL DEF Spec

\* The table, the deadlines and the channel keep their types, for lifetimes and
\* cadences of any length, and only a load can be overtaken (Warmer.loop).
THEOREM TypeCorrect == Spec => []TypeOK
<1>1. Inductive => TypeOK
  BY DEF Inductive, LoopType, AroundType, TypeOK
<1> QED BY <1>1, InductiveInvariant, PTL

\* A flush is repaired whenever it falls, also with a load under way that began before
\* it and a Reprime that is still in the channel (Reprime, loop's select).
THEOREM NoFlushIsLost == Spec => []FlushIsRepaired
<1>1. Inductive => FlushIsRepaired
  BY DEF Inductive, Repaired, Repairing, FlushIsRepaired
<1> QED BY <1>1, InductiveInvariant, PTL

----------------------------------------------------------------------------
(* Why a secret stays warm *)

\* The pass has gone by n in this round.
Passed(n) == pc \in {"pass", "loading"} /\ n \notin todo

\* The most time there can be until the next load of n is over.
Ahead(n) == IF next[n] > 0 THEN next[n] + Overrun
            ELSE IF Passed(n) THEN 2 * Slow - slow ELSE Slow - slow

\* ... and, should that load fail, until the one after it.
Allowance(n) == IF status[n] = "warm" THEN RetryGap + Overrun ELSE 0

Lasts(n) == status[n] # "cold" => entry[n] > Ahead(n) + Allowance(n)

Rounds == /\ pc \in {"top", "select", "backoff"} => slow = 0
          /\ pc = "backoff" => \A n \in Names : status[n] = "cold"
          /\ pc = "done" => Tracked = {}

Warmth == Rounds /\ \A n \in Tracked : Lasts(n)

LEMMA Room == RoomToRetry => /\ Overrun \in Nat /\ Overrun = 2 * Slow - 1
                             /\ {RefreshAhead, RetryGap, Slow} \subseteq Nat \ {0}
                             /\ MinLife \in Nat /\ RefreshAhead + RetryGap + 2 * Overrun < MinLife
BY WarmerAssumption DEF RoomToRetry, Overrun

\* What the numbers of a tracked name are, now ...
LEMMA Numbers ==
    ASSUME Inductive, RoomToRetry, NEW n, n \in Tracked
    PROVE  /\ n \in Names /\ entry[n] \in Nat /\ next[n] \in 0 .. RefreshAhead /\ slow \in 0 .. Slow
           /\ Ahead(n) \in 0 .. RefreshAhead + Overrun
           /\ Allowance(n) \in {0, RetryGap + Overrun}
<1>1. n \in Names /\ entry[n] \in Nat /\ next[n] \in 0 .. RefreshAhead /\ slow \in 0 .. Slow
  BY Constants DEF Inductive, LoopType, AroundType, Tracked
<1>2. Ahead(n) \in 0 .. RefreshAhead + Overrun
  BY <1>1, Room DEF Ahead
<1> QED BY <1>1, <1>2 DEF Allowance

\* ... and after a step.
LEMMA NumbersNext ==
    ASSUME Inductive', RoomToRetry, NEW n, n \in Tracked'
    PROVE  /\ n \in Names /\ entry'[n] \in Nat /\ next'[n] \in 0 .. RefreshAhead /\ slow' \in 0 .. Slow
           /\ Ahead(n)' \in 0 .. RefreshAhead + Overrun
           /\ Allowance(n)' \in {0, RetryGap + Overrun}
<1>1. n \in Names /\ entry'[n] \in Nat /\ next'[n] \in 0 .. RefreshAhead /\ slow' \in 0 .. Slow
  BY Constants DEF Inductive, LoopType, AroundType, Tracked
<1>2. Ahead(n)' \in 0 .. RefreshAhead + Overrun
  BY <1>1, Room DEF Ahead
<1> QED BY <1>1, <1>2 DEF Allowance

\* A name lasts that is no worse off than before.
LEMMA LastsOn ==
    ASSUME Inductive, Warmth, Inductive', RoomToRetry, NEW n, n \in Tracked, n \in Tracked',
           status'[n] = status[n], entry'[n] = entry[n], Ahead(n)' <= Ahead(n)
    PROVE  Lasts(n)'
<1>1. Lasts(n) /\ Allowance(n)' = Allowance(n)
  BY DEF Warmth, Allowance
<1> QED BY <1>1, Numbers, NumbersNext, Room DEF Lasts

\* So does one that has just been put in the cache.
LEMMA FreshLasts ==
    ASSUME Inductive', RoomToRetry, NEW n, n \in Tracked', entry'[n] \in Lives
    PROVE  Lasts(n)'
<1>1. entry'[n] >= MinLife
  BY WarmerAssumption DEF Lives
<1> QED BY <1>1, NumbersNext, Room DEF Lasts

LEMMA ColdLasts == ASSUME NEW n, status'[n] = "cold" PROVE Lasts(n)'
BY DEF Lasts

LEMMA MovesWarm ==
    ASSUME Inductive, Warmth, Inductive', RoomToRetry,
           Top \/ ListFails \/ Resume \/ EndPass \/ Wake \/ \E n \in Names : Skip(n)
    PROVE  Warmth'
<1>1. UNCHANGED <<entry, next>> /\ Tracked' = Tracked
  BY DEF Top, ListFails, Resume, EndPass, Wake, Skip, Tracked
<1>2. Rounds'
  BY <1>1 DEF Warmth, Rounds, Top, ListFails, AfterFailure, Resume, EndPass, Wake, Skip
<1>3. ASSUME NEW n \in Tracked
      PROVE  Lasts(n)'
  <2>0. n \in Names
    BY Numbers
  <2>1. CASE ListFails
    BY <2>0, <2>1, ColdLasts DEF ListFails
  <2>2. CASE ~ListFails
    <3>1. status' = status
      BY <2>2 DEF Top, Resume, EndPass, Wake, Skip
    <3>2. Ahead(n)' <= Ahead(n)
      <4>1. slow \in 0 .. Slow /\ next[n] \in Nat /\ Slow \in Nat /\ Overrun \in Nat
        BY Numbers, Room, Constants
      <4>2. CASE EndPass
        BY <1>1, <4>1, <4>2 DEF EndPass, Ahead, Passed
      <4>3. CASE Top \/ Resume \/ Wake
        BY <1>1, <4>1, <4>3 DEF Top, Resume, Wake, Ahead, Passed
      <4>4. CASE \E m \in Names : Skip(m)
        BY <1>1, <4>1, <4>4 DEF Skip, Ahead, Passed
      <4> QED BY <2>2, <4>2, <4>3, <4>4
    <3> QED BY <1>1, <3>1, <3>2, LastsOn
  <2> QED BY <2>1, <2>2
<1> QED BY <1>1, <1>2, <1>3 DEF Warmth

LEMMA ReconcileWarm ==
    ASSUME Inductive, Warmth, Inductive', RoomToRetry, Reconcile
    PROVE  Warmth'
<1>1. Rounds'
  BY DEF Reconcile, Rounds
<1>2. ASSUME NEW n \in Tracked'
      PROVE  Lasts(n)'
  <2>1. n \in vault /\ n \in Names
    BY NumbersNext DEF Reconcile, Tracked
  <2>2. CASE n \notin Tracked
    BY <2>1, <2>2, ColdLasts DEF Reconcile
  <2>3. CASE n \in Tracked
    <3>1. status'[n] = status[n] /\ entry'[n] = entry[n] /\ next'[n] = next[n]
      BY <2>1, <2>3 DEF Reconcile
    <3>2. Ahead(n)' = Ahead(n)
      BY <2>1, <3>1 DEF Reconcile, Ahead, Passed
    <3> QED BY <2>3, <3>1, <3>2, Numbers, LastsOn
  <2> QED BY <2>2, <2>3
<1> QED BY <1>1, <1>2 DEF Warmth

LEMMA WarmWarm ==
    ASSUME Inductive, Warmth, Inductive', RoomToRetry, NEW m \in Names, Warm(m)
    PROVE  Warmth'
<1>1. Rounds' /\ Tracked' = Tracked
  BY DEF Warm, Rounds, Tracked
<1>2. ASSUME NEW n \in Tracked
      PROVE  Lasts(n)'
  <2>1. Ahead(n)' = Ahead(n)
    BY DEF Warm, Ahead, Passed
  <2> QED BY <1>1, <2>1, Numbers, LastsOn DEF Warm
<1> QED BY <1>1, <1>2 DEF Warmth

\* A load that ends concerns its own name only.
LEMMA CallWarm ==
    ASSUME Inductive, Warmth, Inductive', RoomToRetry, NEW m \in Names, Call(m)
    PROVE  Warmth'
<1>1. /\ pc = "loading" /\ target = {m} /\ m \in todo /\ m \in Tracked
      /\ pc' = "pass" /\ todo' = todo \ {m} /\ slow' = slow
  BY DEF Call, WarmOK, WarmNotFound, WarmFails, WarmParks, Goes, Ends, Inductive, LoopType, Tracked
<1>2. entry \in [Names -> 0 .. MaxLife] /\ status \in [Names -> {"warm", "failed", "cold"}]
  BY DEF Inductive, LoopType, AroundType
<1>3. Rounds'
  BY <1>1 DEF Rounds
<1>4. ASSUME NEW n \in Tracked', n # m
      PROVE  Lasts(n)'
  <2>1. n \in Tracked /\ next'[n] = next[n]
    BY <1>4 DEF Call, WarmOK, WarmNotFound, WarmFails, WarmParks, Goes, Restrict, Tracked
  <2>2. n \in Names
    BY NumbersNext
  <2>3. entry'[n] = entry[n] /\ status'[n] = status[n]
    BY <1>2, <1>4, <2>2 DEF Call, WarmOK, WarmNotFound, WarmFails, WarmParks
  <2>4. Ahead(n)' = Ahead(n)
    BY <1>1, <1>4, <2>1 DEF Ahead, Passed
  <2> QED BY <2>1, <2>3, <2>4, Numbers, LastsOn
<1>5. ASSUME m \in Tracked'
      PROVE  Lasts(m)'
  <2>1. CASE WarmOK(m)
    <3>1. CASE moved
      BY <1>2, <2>1, <3>1, ColdLasts DEF WarmOK
    <3>2. CASE ~moved
      <4>1. entry'[m] \in Lives
        BY <1>2, <2>1, <3>2 DEF WarmOK
      <4> QED BY <1>5, <4>1, FreshLasts
    <3> QED BY <3>1, <3>2
  <2>2. CASE WarmFails(m)
    <3>1. next'[m] = RetryGap /\ entry'[m] = entry[m]
      BY <1>1, <2>2 DEF WarmFails, Goes, RetriesIn, Tracked
    <3>2. status'[m] = IF status[m] = "warm" THEN "failed" ELSE "cold"
      BY <1>2, <2>2 DEF WarmFails
    <3>3. status[m] = "warm" => entry[m] > Ahead(m) + RetryGap + Overrun
      BY <1>1, Numbers, Room DEF Warmth, Lasts, Allowance
    <3>4. Ahead(m)' = RetryGap + Overrun
      BY <3>1, Room DEF Ahead
    <3>5. status'[m] = "failed" => Allowance(m)' = 0
      BY DEF Allowance
    <3> QED BY <1>1, <3>1, <3>2, <3>3, <3>4, <3>5, Numbers, Room DEF Lasts
  <2>3. CASE WarmParks(m)
    BY <1>2, <2>3, ColdLasts DEF WarmParks
  <2>4. CASE WarmNotFound(m)
    BY <1>2, <2>4, ColdLasts DEF WarmNotFound
  <2> QED BY <2>1, <2>2, <2>3, <2>4 DEF Call
<1> QED BY <1>3, <1>4, <1>5 DEF Warmth

LEMMA TakeReprimeWarm ==
    ASSUME Inductive, Warmth, Inductive', RoomToRetry, TakeReprime
    PROVE  Warmth'
<1>1. slow = 0 /\ slow' = 0 /\ Tracked' = Tracked
  BY DEF TakeReprime, Warmth, Rounds, Tracked
<1>2. Rounds'
  BY <1>1 DEF Rounds, TakeReprime
<1>3. ASSUME NEW n \in Tracked
      PROVE  Lasts(n)'
  <2>1. Ahead(n)' = Slow
    BY <1>1, Room DEF TakeReprime, Ahead, Passed
  <2>2. Ahead(n) >= Slow
    BY <1>1, Numbers, Room DEF TakeReprime, Ahead, Passed
  <2> QED BY <1>1, <2>1, <2>2, LastsOn DEF TakeReprime
<1> QED BY <1>1, <1>2, <1>3 DEF Warmth

\* Time takes as much from what a load has left as from the entry.
LEMMA TickWarm ==
    ASSUME Inductive, Warmth, Inductive', RoomToRetry, Tick
    PROVE  Warmth'
<1>1. Tracked' = Tracked /\ status' = status /\ pc' = pc /\ todo' = todo
  BY DEF Tick, Tracked
<1>2. Rounds'
  BY <1>1 DEF Warmth, Rounds, Tick, Waiting
<1>3. ASSUME NEW n \in Tracked, status[n] # "cold"
      PROVE  Lasts(n)'
  <2>1. /\ n \in Names /\ entry[n] \in Nat /\ next[n] \in Nat /\ slow \in 0 .. Slow
        /\ Ahead(n) \in Nat /\ Allowance(n) \in Nat
    BY Numbers, Room
  <2>2. entry[n] > Ahead(n) + Allowance(n)
    BY <1>3 DEF Warmth, Lasts
  <2>3. entry'[n] = entry[n] - 1 /\ next'[n] = Less(next[n])
    BY <2>1, <2>2 DEF Tick, Less
  <2>4. Ahead(n)' <= Ahead(n) - 1
    <3>1. CASE pc \in {"listing", "loading"}
      <4>1. slow' = slow + 1 /\ slow < Slow
        BY <3>1 DEF Tick, Waiting
      <4> QED BY <1>1, <2>1, <2>3, <4>1, Room DEF Ahead, Passed, Less
    <3>2. CASE pc = "select"
      <4>1. next[n] > 0 /\ slow' = 0
        BY <2>1, <3>2 DEF Tick, Waiting, SomethingDue, Warmth, Rounds
      <4> QED BY <1>1, <2>1, <2>3, <3>2, <4>1, Room DEF Ahead, Passed, Less
    <3>3. pc \notin {"backoff", "done"}
      BY <1>3, <2>1 DEF Warmth, Rounds
    <3> QED BY <3>1, <3>2, <3>3 DEF Tick, Waiting
  <2>5. Allowance(n)' = Allowance(n)
    BY <1>1 DEF Allowance
  <2> QED BY <1>1, <2>1, <2>2, <2>3, <2>4, <2>5, NumbersNext DEF Lasts
<1>4. ASSUME NEW n \in Tracked, status[n] = "cold"
      PROVE  Lasts(n)'
  BY <1>1, <1>4, ColdLasts
<1> QED BY <1>1, <1>2, <1>3, <1>4 DEF Warmth

\* What goes on around the loop makes an entry fresh, or cold, or leaves it.
LEMMA OtherWarm ==
    ASSUME Inductive, Warmth, Inductive', RoomToRetry, Other
    PROVE  Warmth'
<1>1. UNCHANGED <<next, pc, todo, slow>> /\ Tracked' = Tracked
  BY DEF Other, Read, Save, Delete, Elsewhere, Accept, Purge, Primed, Cancel, loopVars, Tracked
<1>2. entry \in [Names -> 0 .. MaxLife] /\ status \in [Names -> {"warm", "failed", "cold"}]
  BY DEF Inductive, LoopType, AroundType
<1>3. \A n \in Names : status'[n] \in {status[n], "cold"}
  BY <1>2 DEF Other, Read, Save, Delete, Elsewhere, Accept, Purge, Primed, Cancel
<1>4. Rounds'
  BY <1>1, <1>3 DEF Warmth, Rounds
<1>5. ASSUME NEW n \in Tracked
      PROVE  Lasts(n)'
  <2>1. n \in Names
    BY Numbers
  <2>2. status'[n] = "cold" \/ entry'[n] \in Lives \/ entry'[n] = entry[n]
    BY <1>2, <2>1 DEF Other, Read, Save, Delete, Elsewhere, Accept, Purge, Primed, Cancel
  <2>3. Ahead(n)' = Ahead(n)
    BY <1>1 DEF Ahead, Passed
  <2> QED BY <1>1, <1>3, <2>1, <2>2, <2>3, Numbers, LastsOn, FreshLasts, ColdLasts
<1> QED BY <1>1, <1>4, <1>5 DEF Warmth

LEMMA WarmthStep ==
    ASSUME Inductive, Warmth, Inductive', RoomToRetry, [Next]_vars
    PROVE  Warmth'
<1>1. CASE Return
  BY <1>1 DEF Return, Warmth, Rounds, Tracked
<1>2. CASE UNCHANGED vars
  BY <1>2 DEF vars, Warmth, Rounds, Tracked, Lasts, Ahead, Passed, Allowance
<1> QED BY <1>1, <1>2, MovesWarm, ReconcileWarm, WarmWarm, CallWarm, TakeReprimeWarm, TickWarm,
           OtherWarm DEF Next, Loop, Around

\* Where there is room for a retry, no tracked secret that was warmed expires but for
\* one of the excuses, whatever the jitter and however the slow calls and one failed
\* refresh fall (warmer.go loop, warmRefreshFrac, warmRetryGap).
THEOREM SecretsStayWarm ==
    ASSUME RoomToRetry
    PROVE  Spec => []StaysWarm
<1>1. Init => Warmth
  BY DEF Init, Warmth, Rounds, Tracked
<1>2. Inductive /\ Inductive' /\ Warmth /\ [Next]_vars => Warmth'
  BY WarmthStep
<1>3. Inductive /\ Warmth => StaysWarm
  <2> SUFFICES ASSUME Inductive, Warmth, NEW n \in Tracked, status[n] # "cold"
               PROVE  entry[n] > 0
    BY DEF StaysWarm
  <2> QED BY Numbers, Room DEF Warmth, Lasts
<1> QED BY <1>1, <1>2, <1>3, InductiveInvariant, PTL DEF Spec
=============================================================================
