-------------------------- MODULE StoreCache_proofs --------------------------
(***************************************************************************)
(* The store over its cache: under the mutex it is a caller that the proofs *)
(* about Cache cover, every write starts from the record in the vault, and  *)
(* the whole implements VersionStore.                                       *)
(***************************************************************************)
EXTENDS StoreCache, Cache_proofs, Records_proofs

USE CacheAssumption, SentinelAssumption, RecordAssumption, StoreCacheAssumption,
    StoreSentinelAssumption, AskedAssumption

----------------------------------------------------------------------------
(* The invariant *)

\* A write, its call k and its operation o, between Lock and Unlock.
Loads(k, o) == /\ o.req.kind # "delete" /\ o.plan = None
               /\ k.pc \in Loading \cup {"done"}
               /\ k.pc \in Loading => k.obj = o.req.name /\ k.force
               /\ k.pc = "done" /\ k.got \in Copy => k.got.val \in Data \cup {Absent}
Saves(k, o) == /\ o.req.kind # "delete" /\ o.plan \in Plan
               /\ k.pc \in {"idle", "saved"}
Deletes(k, o) == /\ o.req.kind = "delete" /\ o.plan = None
                 /\ k.pc \in {"idle", "deleted", "removed"}

\* Only the holder of the mutex is in a write.
WriterOK(w) ==
    IF lock = w THEN /\ op[w].req \in Request
                     /\ Loads(call[w], op[w]) \/ Saves(call[w], op[w]) \/ Deletes(call[w], op[w])
                ELSE call[w].pc = "idle" /\ op[w] = NoOp

MutexInv == /\ \A w \in Writers : WriterOK(w)
            /\ \A c \in Callers \ Writers : call[c].pc \notin Writing

\* A flight of a name brings a record, or none.
RecordsAreLoaded == \A c \in Callers :
    HasCopy(c) /\ call[c].obj \in Names => call[c].got.val \in Data \cup {Absent}

Typed == StoreTypeOK /\ MutexInv /\ RecordsAreLoaded

----------------------------------------------------------------------------
(* What a load does to the calls: its own, and those that wait for its flight. *)
SameCall(d) == call'[d].obj = call[d].obj /\ call'[d].force = call[d].force
Keys(d) == At(d, "missed") /\ At(d, "keyed")' /\ SameCall(d) /\ call'[d].seq = seq
Enters(d) == /\ At(d, "keyed") /\ call'[d].pc \in {"leading", "waiting"}
             /\ SameCall(d) /\ call'[d].seq = call[d].seq
Fetches(d) == /\ At(d, "leading") /\ At(d, "fetched")'
              /\ SameCall(d) /\ call'[d].seq = call[d].seq
              /\ call'[d].got \in {Current(call[d].obj)} \cup Failures
LandsOf(d, c) == /\ At(c, "fetched") /\ call[d].pc \in {"fetched", "waiting"} /\ SameFlight(c, d)
                 /\ call'[d].got = call[c].got
                 /\ \/ call[c].got \in Fails /\ At(d, "failed")' /\ SameCall(d)
                    \/ call[c].got \in Copy /\ At(d, "done")'
GivesUp(d) == At(d, "failed") /\ At(d, "done")' /\ (call[d].force => call'[d].got \in Fails)
\* Hit, Miss and Return.
Turns(d) == call[d].pc \in {"idle", "done"} /\ call'[d].pc \in {"idle", "missed", "done"}

Advances(d, c) == \/ call'[d] = call[d]
                  \/ d = c /\ (Keys(d) \/ Enters(d) \/ Fetches(d) \/ GivesUp(d) \/ Turns(d))
                  \/ LandsOf(d, c)

\* Only the goroutine c moves, to k.
LEMMA OnlyMoves ==
    ASSUME TypeOK, NEW c \in Callers, NEW k, call' = [call EXCEPT ![c] = k]
    PROVE  call'[c] = k /\ \A d \in Callers \ {c} : call'[d] = call[d]
BY DEF TypeOK

\* The steps of a load that a writer takes too.
LEMMA GoesOnEffect ==
    ASSUME TypeOK, NEW c \in Callers, LoadGoesOn(c)
    PROVE  /\ \A d \in Callers : Advances(d, c) /\ (d = c => ~Turns(d))
           /\ UNCHANGED <<vault, clock, seq, owed>>
<1>c. call \in [Callers -> Call] /\ \A d \in Callers : call[d] \in Call /\ CallOK(call[d])
  BY DEF TypeOK
<1> SUFFICES \A d \in Callers : Advances(d, c) /\ (d = c => ~Turns(d))
  BY DEF LoadGoesOn, Snapshot, Lead, Join, InnerLoad, Land, Fallback
<1>1. CASE Snapshot(c)
  <2>1. call' = [call EXCEPT ![c] = [call[c] EXCEPT !.pc = "keyed", !.seq = seq]] /\ At(c, "missed")
    BY <1>1, <1>c DEF Snapshot
  <2> DEFINE k == [call[c] EXCEPT !.pc = "keyed", !.seq = seq]
  <2>2. k.pc = "keyed" /\ k.seq = seq /\ k.obj = call[c].obj /\ k.force = call[c].force
    BY <1>c DEF Call
  <2>3. call' = [call EXCEPT ![c] = k]
    BY <2>1
  <2> HIDE DEF k
  <2>4. call'[c] = k /\ \A d \in Callers \ {c} : call'[d] = call[d]
    BY <2>3, OnlyMoves
  <2> QED
    BY <2>1, <2>2, <2>4 DEF Advances, Keys, Turns, SameCall, At
<1>2. CASE Lead(c) \/ Join(c)
  <2>1. PICK p \in {"leading", "waiting"} : call' = [call EXCEPT ![c].pc = p]
    BY <1>2 DEF Lead, Join
  <2>2. At(c, "keyed")
    BY <1>2 DEF Lead, Join
  <2> DEFINE k == [call[c] EXCEPT !.pc = p]
  <2>3. k.pc = p /\ k.seq = call[c].seq /\ k.obj = call[c].obj /\ k.force = call[c].force
    BY <1>c DEF Call
  <2>4. call' = [call EXCEPT ![c] = k]
    BY <2>1, <1>c
  <2> HIDE DEF k
  <2>5. call'[c] = k /\ \A d \in Callers \ {c} : call'[d] = call[d]
    BY <2>4, OnlyMoves
  <2> QED
    BY <2>2, <2>3, <2>5 DEF Advances, Enters, Turns, SameCall, At
<1>3. CASE InnerLoad(c)
  <2>1. PICK r \in {Current(call[c].obj)} \cup Failures :
              call' = [call EXCEPT ![c].pc = "fetched", ![c].got = r]
    BY <1>3 DEF InnerLoad
  <2>2. At(c, "leading")
    BY <1>3 DEF InnerLoad
  <2> DEFINE k == [call[c] EXCEPT !.pc = "fetched", !.got = r]
  <2>3. /\ k.pc = "fetched" /\ k.seq = call[c].seq /\ k.obj = call[c].obj
        /\ k.force = call[c].force /\ k.got = r
    BY <1>c DEF Call
  <2>4. call' = [call EXCEPT ![c] = k]
    BY <2>1, <1>c
  <2> HIDE DEF k
  <2>5. call'[c] = k /\ \A d \in Callers \ {c} : call'[d] = call[d]
    BY <2>4, OnlyMoves
  <2> QED
    BY <2>1, <2>2, <2>3, <2>5 DEF Advances, Fetches, Turns, SameCall, At
<1>4. CASE Land(c)
  <2> DEFINE r == call[c].got
  <2>1. At(c, "fetched") /\ r \in Copy \cup Fails
    BY <1>4, <1>c DEF Land, At, CallOK, Call
  <2> SUFFICES ASSUME NEW d \in Callers PROVE Advances(d, c) /\ (d = c => ~Turns(d))
    OBVIOUS
  <2>2. d = c => ~Turns(d)
    BY <2>1 DEF Turns, At
  <2>3. CASE d \notin Lands(c)
    BY <1>4, <2>2, <2>3 DEF Land, Advances
  <2>4. CASE d \in Lands(c)
    <3>1. call[d].pc \in {"fetched", "waiting"} /\ SameFlight(c, d)
      BY <2>1, <2>4 DEF Lands, At, SameFlight
    <3>2. CASE r \in Fails
      <4>1. call'[d] = [call[d] EXCEPT !.pc = "failed", !.got = r]
        BY <1>4, <2>4, <3>2 DEF Land
      <4>2. /\ call'[d].pc = "failed" /\ call'[d].got = r
            /\ call'[d].obj = call[d].obj /\ call'[d].force = call[d].force
        BY <1>c, <4>1 DEF Call
      <4> QED
        BY <2>1, <2>2, <3>1, <3>2, <4>2 DEF Advances, LandsOf, SameCall, At
    <3>3. CASE r \notin Fails
      <4>1. call'[d] = Answered(r, call[d].floor)
        BY <1>4, <2>4, <3>3 DEF Land
      <4>2. call[d].floor \in Nat /\ r \in Copy
        BY <1>c, <2>1, <3>3 DEF Call
      <4>3. call'[d].pc = "done" /\ call'[d].got = r
        BY <4>1, <4>2, AnswerTypes
      <4> QED
        BY <2>1, <2>2, <3>1, <4>2, <4>3 DEF Advances, LandsOf, At
    <3> QED
      BY <3>2, <3>3
  <2> QED
    BY <2>3, <2>4
<1>5. CASE Fallback(c)
  <2> DEFINE a == IF ServesStale(c) THEN cache[call[c].obj].copy ELSE call[c].got
             k == Answered(a, call[c].floor)
  <2>1. At(c, "failed") /\ call' = [call EXCEPT ![c] = k]
    BY <1>5 DEF Fallback
  <2>2. call[c].got \in Fails
    BY <1>c, <2>1 DEF At, CallOK
  <2>3. k.pc = "done" /\ k.got = a
    BY DEF Answered, Idle
  <2>4. call[c].force => a \in Fails
    BY <2>2 DEF ServesStale
  <2> HIDE DEF k
  <2>5. call'[c] = k /\ \A d \in Callers \ {c} : call'[d] = call[d]
    BY <2>1, OnlyMoves
  <2> QED
    BY <2>1, <2>3, <2>4, <2>5 DEF Advances, GivesUp, Turns, At
<1> QED
  BY <1>1, <1>2, <1>3, <1>4, <1>5 DEF LoadGoesOn

\* A load of a goroutine that does not write.
LEMMA LoadEffect ==
    ASSUME TypeOK, NEW c \in Callers, LoadNext(c)
    PROVE  /\ \A d \in Callers : Advances(d, c)
           /\ UNCHANGED <<vault, clock, seq, owed>>
<1>1. CASE LoadGoesOn(c)
  BY <1>1, GoesOnEffect
<1>2. ASSUME NEW k, call' = [call EXCEPT ![c] = k], k.pc \in {"idle", "missed", "done"},
             call[c].pc \in {"idle", "done"}, UNCHANGED <<vault, clock, seq, owed>>
      PROVE  /\ \A d \in Callers : Advances(d, c)
             /\ UNCHANGED <<vault, clock, seq, owed>>
  <2>1. call'[c] = k /\ \A d \in Callers \ {c} : call'[d] = call[d]
    BY <1>2, OnlyMoves
  <2> QED
    BY <1>2, <2>1 DEF Advances, Turns
<1>3. ASSUME NEW o, Hit(c, o)
      PROVE  /\ \A d \in Callers : Advances(d, c)
             /\ UNCHANGED <<vault, clock, seq, owed>>
  <2>1. Answered(cache[o].copy, owed[o]).pc = "done"
    BY DEF Answered, Idle
  <2> QED
    BY <1>2, <1>3, <2>1 DEF Hit, At
<1>4. ASSUME NEW o, NEW f, Miss(c, o, f)
      PROVE  /\ \A d \in Callers : Advances(d, c)
             /\ UNCHANGED <<vault, clock, seq, owed>>
  <2> DEFINE k == [Idle EXCEPT !.pc = "missed", !.obj = o, !.force = f, !.floor = owed[o]]
  <2>1. k.pc = "missed" /\ call' = [call EXCEPT ![c] = k]
    BY <1>4 DEF Miss, Idle
  <2> HIDE DEF k
  <2> QED
    BY <1>2, <1>4, <2>1 DEF Miss, At
<1>5. CASE Return(c)
  <2>1. Idle.pc = "idle"
    BY DEF Idle
  <2> QED
    BY <1>2, <1>5, <2>1 DEF Return, At
<1> QED
  BY <1>1, <1>2, <1>3, <1>4, <1>5 DEF LoadNext, LoadStep, LoadGoesOn

----------------------------------------------------------------------------
(* Types, the mutex, and the store as a caller of the cache *)

LEMMA InitTyped == StoreInit => Init /\ Typed
<1> SUFFICES ASSUME StoreInit PROVE Init /\ Typed
  OBVIOUS
<1>1. Init
  BY DEF StoreInit
<1>2. TypeOK
  BY <1>1, AnswerTypes DEF Init, TypeOK
<1>3. \A c \in Callers : call[c].pc = "idle"
  BY <1>1 DEF Init, Idle
<1>4. NoOp \in [req : Request \cup {None}, plan : Plan \cup {None}]
  BY DEF NoOp
<1>5. StoreTypeOK
  BY <1>2, <1>4 DEF StoreInit, StoreTypeOK
<1>6. MutexInv /\ RecordsAreLoaded
  BY <1>3 DEF StoreInit, MutexInv, WriterOK, RecordsAreLoaded, HasCopy, At, Writing
<1> QED BY <1>1, <1>5, <1>6 DEF Typed

\* Who is in a write, or in a load of one, holds the mutex.
LEMMA Holder ==
    ASSUME Typed, NEW w \in Writers, call[w].pc # "idle" \/ op[w] # NoOp
    PROVE  /\ lock = w /\ op[w].req \in Request
           /\ Loads(call[w], op[w]) \/ Saves(call[w], op[w]) \/ Deletes(call[w], op[w])
BY DEF Typed, MutexInv, WriterOK

\* While the holder of the mutex is not in Save or Delete, nobody is.
LEMMA Exclusion ==
    ASSUME Typed, NEW w \in Writers, lock \in {w, None}, call[w].pc \notin Writing
    PROVE  NoWriter
<1>1. ASSUME NEW c \in Callers, c # w PROVE call[c].pc \notin Writing
  BY <1>1 DEF Typed, MutexInv, WriterOK, Writing
<1> QED BY <1>1 DEF NoWriter

LEMMA CacheTypes == ASSUME Typed, [Next]_vars PROVE TypeOK'
BY TypeStep DEF Typed, StoreTypeOK

\* A load goes on, its own writer's or a reader's.
LEMMA LoadTyped ==
    ASSUME Typed, TypeOK', NEW c \in Callers, \A d \in Callers : Advances(d, c),
           c \in Writers => ~Turns(c), UNCHANGED <<vault, clock, seq, owed, lock, op, told>>
    PROVE  Typed'
<1>t. /\ StoreTypeOK /\ MutexInv /\ RecordsAreLoaded
      /\ \A d \in Callers : call[d] \in Call
      /\ vault \in [Names -> [val : Data \cup {Absent}, at : Nat]]
  BY DEF Typed, StoreTypeOK, TypeOK
<1>1. StoreTypeOK'
  BY <1>t DEF StoreTypeOK
<1>2. ASSUME NEW w \in Writers PROVE WriterOK(w)'
  <2>1. CASE call'[w] = call[w]
    BY <1>t, <2>1 DEF MutexInv, WriterOK
  <2>2. CASE call'[w] # call[w]
    <3>1. \/ w = c /\ (Keys(w) \/ Enters(w) \/ Fetches(w) \/ GivesUp(w))
          \/ LandsOf(w, c)
      BY <2>2 DEF Advances
    <3>2. call[w].pc \in {"missed", "keyed", "leading", "failed", "fetched", "waiting"}
      BY <3>1 DEF Keys, Enters, Fetches, GivesUp, LandsOf, At
    <3>3. lock = w /\ op[w].req \in Request /\ Loads(call[w], op[w])
      BY <3>2, Holder DEF Saves, Deletes
    <3>4. call[w].obj = op[w].req.name /\ call[w].force /\ op[w].req.name \in Names
      BY <3>2, <3>3 DEF Loads, Loading, Request
    <3>5. CASE Keys(w) \/ Enters(w) \/ Fetches(w)
      BY <3>3, <3>4, <3>5 DEF Loads, WriterOK, Keys, Enters, Fetches, SameCall, Loading, At
    <3>6. CASE GivesUp(w)
      BY <3>3, <3>4, <3>6 DEF Loads, WriterOK, GivesUp, Loading, At
    <3>7. CASE LandsOf(w, c)
      <4>1. CASE At(w, "failed")' /\ SameCall(w)
        BY <3>3, <3>4, <4>1 DEF Loads, WriterOK, SameCall, Loading, At
      <4>2. CASE call[c].got \in Copy /\ At(w, "done")'
        <5>1. HasCopy(c) /\ call[c].obj \in Names
          BY <3>4, <3>7, <4>2 DEF LandsOf, HasCopy, SameFlight
        <5>2. call'[w].got.val \in Data \cup {Absent}
          BY <1>t, <3>7, <5>1 DEF RecordsAreLoaded, LandsOf
        <5> QED BY <3>3, <4>2, <5>2 DEF Loads, WriterOK, Loading, At
      <4> QED BY <3>7, <4>1, <4>2 DEF LandsOf
    <3> QED BY <3>1, <3>5, <3>6, <3>7
  <2> QED BY <2>1, <2>2
<1>3. ASSUME NEW d \in Callers \ Writers PROVE call'[d].pc \notin Writing
  BY <1>t, <1>3 DEF MutexInv, Advances, Keys, Enters, Fetches, GivesUp, Turns, LandsOf, At, Writing
<1>4. ASSUME NEW d \in Callers, HasCopy(d)', call'[d].obj \in Names
      PROVE  call'[d].got.val \in Data \cup {Absent}
  <2>1. CASE call'[d] = call[d]
    BY <1>t, <1>4, <2>1 DEF RecordsAreLoaded, HasCopy, At
  <2>2. CASE Fetches(d)
    <3>1. call'[d].got = Current(call'[d].obj)
      BY <1>4, <2>2 DEF Fetches, SameCall, HasCopy, Fails
    <3>2. Current(call'[d].obj) = vault[call'[d].obj]
      BY <1>4 DEF Current
    <3> QED BY <1>t, <1>4, <3>1, <3>2
  <2>3. call'[d] = call[d] \/ Fetches(d)
    BY <1>4 DEF HasCopy, At, Advances, Keys, Enters, GivesUp, Turns, LandsOf
  <2> QED BY <2>1, <2>2, <2>3
<1>5. MutexInv' /\ RecordsAreLoaded'
  BY <1>2, <1>3, <1>4 DEF MutexInv, RecordsAreLoaded
<1> QED BY <1>1, <1>5 DEF Typed

\* The holder of the mutex, before or after, moves alone.
LEMMA WriterTyped ==
    ASSUME Typed, TypeOK', NEW w \in Writers, lock \in {w, None}, lock' \in {w, None},
           NEW k, call' = [call EXCEPT ![w] = k], k.pc # "fetched",
           NEW o \in [req : Request \cup {None}, plan : Plan \cup {None}],
           op' = [op EXCEPT ![w] = o],
           told' \subseteq VS!Promise, WriterOK(w)'
    PROVE  Typed'
<1>1. /\ call'[w] = k /\ op'[w] = o
      /\ \A d \in Callers : d # w => call'[d] = call[d]
      /\ \A v \in Writers : v # w => op'[v] = op[v]
      /\ op' \in [Writers -> [req : Request \cup {None}, plan : Plan \cup {None}]]
  BY DEF Typed, StoreTypeOK, TypeOK
<1>2. StoreTypeOK'
  BY <1>1 DEF StoreTypeOK
<1>3. ASSUME NEW v \in Writers, v # w PROVE WriterOK(v)'
  <2>1. lock # v /\ lock' # v
    BY <1>3
  <2> QED BY <1>1, <1>3, <2>1 DEF Typed, MutexInv, WriterOK
<1>4. MutexInv'
  BY <1>1, <1>3 DEF Typed, MutexInv
<1>5. RecordsAreLoaded'
  BY <1>1 DEF Typed, RecordsAreLoaded, HasCopy, At
<1> QED BY <1>2, <1>4, <1>5 DEF Typed

\* A writer's step that is a step of the cache, or none, and keeps the types.
Keeps == [Next]_vars /\ Typed'

LEMMA RequestTypes ==
    ASSUME NEW q \in Request
    PROVE  /\ q # None /\ q.name \in Names /\ q.name \in Objects /\ q.name \in Reads
           /\ q.version \in Version
           /\ q.kind \in {"put", "create"} => q.value \in Values
           /\ q.kind # "put" /\ q.kind # "delete" => q.version # 0
           /\ q.kind # "create" => q.name \notin ConfigNames
<1>1. 0 \in Version
  BY DEF Version
<1> QED BY <1>1 DEF Request, Objects

LEMMA BeginKeeps ==
    ASSUME Typed, NEW w \in Writers, NEW q \in Request, Begin(w, q)
    PROVE  Keeps
<1>1. /\ At(w, "idle") /\ op[w] = NoOp /\ lock = None /\ lock' = w /\ told' = told
      /\ op' = [op EXCEPT ![w].req = q]
  BY DEF Begin, MutexFree
<1>2. /\ w \in Callers /\ op[w].plan = None /\ call \in [Callers -> Call]
      /\ op \in [Writers -> [req : Request \cup {None}, plan : Plan \cup {None}]]
      /\ told \subseteq VS!Promise
  BY <1>1 DEF NoOp, Typed, StoreTypeOK, TypeOK
<1> DEFINE o == [op[w] EXCEPT !.req = q]
<1>3. /\ o \in [req : Request \cup {None}, plan : Plan \cup {None}]
      /\ o.req = q /\ o.plan = None /\ op' = [op EXCEPT ![w] = o] /\ op'[w] = o
  BY <1>1, <1>2
<1> HIDE DEF o
<1>4. CASE q.kind = "delete"
  <2>1. UNCHANGED vars
    BY <1>4 DEF Begin, cacheVars
  <2>2. [Next]_vars /\ call' = [call EXCEPT ![w] = call[w]] /\ call' = call
    BY <1>2, <2>1 DEF vars
  <2>3. TypeOK'
    BY <2>2, CacheTypes
  <2>4. WriterOK(w)'
    BY <1>1, <1>3, <1>4, <2>2 DEF WriterOK, Deletes, At
  <2>5. call[w].pc # "fetched"
    BY <1>1 DEF At
  <2> QED BY <1>1, <1>2, <1>3, <2>2, <2>3, <2>4, <2>5, WriterTyped DEF Keeps
<1>5. CASE q.kind # "delete"
  <2>1. Miss(w, q.name, TRUE)
    BY <1>5 DEF Begin
  <2>2. [Next]_vars
    BY <1>2, <2>1, RequestTypes DEF Next, LoadNext
  <2>3. TypeOK'
    BY <2>2, CacheTypes
  <2> DEFINE k == [Idle EXCEPT !.pc = "missed", !.obj = q.name, !.force = TRUE,
                               !.floor = owed[q.name]]
  <2>4. k.pc = "missed" /\ k.obj = q.name /\ k.force
    BY DEF Idle
  <2>5. call' = [call EXCEPT ![w] = k] /\ call'[w] = k
    BY <1>2, <2>1 DEF Miss
  <2> HIDE DEF k
  <2>6. WriterOK(w)'
    BY <1>1, <1>3, <1>5, <2>4, <2>5 DEF WriterOK, Loads, Loading
  <2> QED BY <1>1, <1>2, <1>3, <2>2, <2>3, <2>4, <2>5, <2>6, WriterTyped DEF Keeps
<1> QED BY <1>4, <1>5

\* The decision that follows the load returns from it.
LEMMA DecidingTypes ==
    ASSUME Typed, NEW w \in Writers, NEW ks, Deciding(w, ks)
    PROVE  /\ [Next]_vars /\ TypeOK'
           /\ lock = w /\ op[w].req \in Request /\ op[w].req.kind \in ks
           /\ op[w].req.kind # "delete" /\ op[w].plan = None
           /\ call' = [call EXCEPT ![w] = Idle] /\ call'[w] = Idle /\ Idle.pc = "idle"
           /\ UNCHANGED <<vault, clock, seq, cache, owed>>
           /\ call[w].got \in Copy => Loaded(w) \in Record \cup {Absent}
<1>1. At(w, "done") /\ lock = w /\ op[w].req.kind \in ks /\ Return(w) /\ w \in Callers
  BY DEF Deciding
<1>2. op[w].req \in Request /\ Loads(call[w], op[w])
  BY <1>1, Holder DEF At, Saves, Deletes
<1>3. [Next]_vars
  BY <1>1 DEF Next, LoadNext, LoadStep
<1>4. call \in [Callers -> Call]
  BY DEF Typed, StoreTypeOK, TypeOK
<1> QED BY <1>1, <1>2, <1>3, <1>4, CacheTypes DEF Loads, Loaded, Return, At, Idle

\* The write ends, with the mutex given back.
LEMMA RefusedTyped ==
    ASSUME Typed, TypeOK', NEW w \in Writers, lock = w, NEW k, call' = [call EXCEPT ![w] = k],
           k.pc = "idle", Unlock(w), told' \subseteq VS!Promise
    PROVE  Typed'
<1>1. NoOp \in [req : Request \cup {None}, plan : Plan \cup {None}]
  BY DEF NoOp
<1>2. call'[w].pc = "idle" /\ op'[w] = NoOp
  BY DEF Typed, StoreTypeOK, TypeOK, Unlock
<1>3. lock' = None /\ w # None /\ op' = [op EXCEPT ![w] = NoOp]
  BY DEF Unlock
<1>4. WriterOK(w)'
  BY <1>2, <1>3 DEF WriterOK
<1> QED BY <1>1, <1>3, <1>4, WriterTyped

\* The decision to save the record r.
LEMMA DecidedTyped ==
    ASSUME Typed, NEW w \in Writers, NEW ks, Deciding(w, ks),
           NEW r \in Record, NEW new \in SUBSET VS!Promise, Decide(w, r, new)
    PROVE  Typed'
<1> DEFINE p == [rec |-> r, new |-> new]
           o == [op[w] EXCEPT !.plan = p]
<1>1. p \in Plan
  BY DEF Plan
<1> HIDE DEF p
<1>2. op[w] \in [req : Request \cup {None}, plan : Plan \cup {None}]
  BY DEF Typed, StoreTypeOK
<1>3. /\ o \in [req : Request \cup {None}, plan : Plan \cup {None}]
      /\ o.req = op[w].req /\ o.plan = p
  BY <1>1, <1>2
<1>4. op' = [op EXCEPT ![w] = o] /\ op'[w] = o /\ lock' = lock /\ told' = told
  BY DEF Typed, StoreTypeOK, Decide, p
<1> HIDE DEF o
<1>5. WriterOK(w)'
  BY <1>1, <1>3, <1>4, DecidingTypes DEF WriterOK, Saves
<1>6. told' \subseteq VS!Promise
  BY <1>4 DEF Typed, StoreTypeOK
<1>7. /\ TypeOK' /\ lock = w /\ lock' = w /\ call' = [call EXCEPT ![w] = Idle]
      /\ Idle.pc # "fetched"
  BY <1>4, DecidingTypes
<1> QED BY <1>3, <1>4, <1>5, <1>6, <1>7, WriterTyped

LEMMA AssignedType ==
    ASSUME NEW n \in Names, NEW v \in Version, NEW x \in Values
    PROVE  VS!Assigned(n, v, x) \in SUBSET VS!Promise
BY DEF VS!Assigned, VS!Promise, VS!Version, Version

LEMMA DecisionKeeps ==
    ASSUME Typed, NEW w \in Writers,
           LoadFails(w) \/ Put(w) \/ CreateVersion(w) \/ Activate(w) \/ DeleteVersion(w)
    PROVE  Keeps
<1> DEFINE q == op[w].req
           r == Loaded(w)
<1>t. told \subseteq VS!Promise
  BY DEF Typed, StoreTypeOK
<1>r. ASSUME NEW ks, Deciding(w, ks), Refuse(w) PROVE Keeps
  BY <1>r, <1>t, DecidingTypes, RefusedTyped DEF Keeps, Refuse
<1>d. ASSUME NEW ks, Deciding(w, ks), NEW s \in Record, NEW new \in SUBSET VS!Promise,
             Decide(w, s, new)
      PROVE  Keeps
  BY <1>d, DecidingTypes, DecidedTyped DEF Keeps
<1>1. CASE LoadFails(w)
  BY <1>1, <1>r DEF LoadFails
<1>2. CASE Put(w)
  <2>1. Deciding(w, {"put"}) /\ call[w].got \in Copy
    BY <1>2 DEF Put
  <2>2. q \in Request /\ q.kind = "put" /\ r \in Record \cup {Absent}
    BY <2>1, DecidingTypes
  <2>3. q.name \in Names /\ q.value \in Values
    BY <2>2, RequestTypes
  <2>4. CASE r = Absent /\ Decide(w, NewRecord(1, q.value), VS!Assigned(q.name, 1, q.value))
    BY <1>d, <2>1, <2>3, <2>4, OneIsAVersion, NewRecordType, AssignedType
  <2>5. CASE r # Absent /\ told' = told \cup VS!Assigned(q.name, r.latest, q.value) /\ Unlock(w)
    <3>1. r.latest \in Version
      BY <2>2, <2>5 DEF Record
    <3>2. told' \subseteq VS!Promise
      BY <1>t, <2>3, <2>5, <3>1, AssignedType
    <3> QED BY <2>1, <2>5, <3>2, DecidingTypes, RefusedTyped DEF Keeps
  <2>6. CASE r # Absent /\ Decide(w, WithPut(r, q.value), VS!Assigned(q.name, NextVersion(r), q.value))
    <3>1. WithPut(r, q.value) \in Record /\ NextVersion(r) \in Version
      BY <2>2, <2>3, <2>6, OneIsAVersion, OperatorTypes, NextVersionType
    <3> QED BY <1>d, <2>1, <2>3, <2>6, <3>1, AssignedType
  <2> QED BY <1>2, <2>4, <2>5, <2>6 DEF Put
<1>3. CASE CreateVersion(w)
  <2>1. Deciding(w, {"create"}) /\ call[w].got \in Copy
    BY <1>3 DEF CreateVersion
  <2>2. q \in Request /\ q.kind = "create" /\ r \in Record \cup {Absent}
    BY <2>1, DecidingTypes
  <2>3. q.name \in Names /\ q.value \in Values /\ q.version \in Version
    BY <2>2, RequestTypes
  <2>4. CASE Decide(w, NewRecord(q.version, q.value), VS!Assigned(q.name, q.version, q.value))
    BY <1>d, <2>1, <2>3, <2>4, NewRecordType, AssignedType
  <2>5. CASE r # Absent /\ Decide(w, WithVersion(r, q.version, q.value),
                                  VS!Assigned(q.name, q.version, q.value))
    BY <1>d, <2>1, <2>2, <2>3, <2>5, OperatorTypes, AssignedType
  <2>6. CASE Refuse(w)
    BY <1>r, <2>1, <2>6
  <2> QED BY <1>3, <2>4, <2>5, <2>6 DEF CreateVersion
<1>4. CASE Activate(w)
  <2>1. Deciding(w, {"activate"}) /\ call[w].got \in Copy
    BY <1>4 DEF Activate
  <2>2. q.version \in Version /\ r \in Record \cup {Absent}
    BY <2>1, DecidingTypes, RequestTypes
  <2>3. CASE r # Absent /\ Decide(w, WithActive(r, q.version), {})
    BY <1>d, <2>1, <2>2, <2>3, ChangeTypes
  <2> QED BY <1>4, <1>r, <2>1, <2>3 DEF Activate, IsInactive
<1>5. CASE DeleteVersion(w)
  <2>1. Deciding(w, {"deleteVersion"}) /\ call[w].got \in Copy
    BY <1>5 DEF DeleteVersion
  <2>2. q.version \in Version /\ r \in Record \cup {Absent}
    BY <2>1, DecidingTypes, RequestTypes
  <2>3. CASE r # Absent /\ Decide(w, WithoutVersion(r, q.version), {})
    BY <1>d, <2>1, <2>2, <2>3, ChangeTypes
  <2> QED BY <1>5, <1>r, <2>1, <2>3 DEF DeleteVersion, IsInactive
<1> QED BY <1>1, <1>2, <1>3, <1>4, <1>5

LEMMA PlanTypes ==
    ASSUME NEW p \in Plan
    PROVE  p # None /\ p.rec \in Record /\ p.rec \in Data /\ p.new \subseteq VS!Promise
BY DEF Plan

\* A write that saves or deletes, or is about to.
LEMMA MutatingTypes ==
    ASSUME Typed, NEW w \in Writers
    PROVE  /\ Saving(w) => /\ lock = w /\ op[w].req \in Request /\ op[w].req.kind # "delete"
                           /\ op[w].plan \in Plan /\ NoWriter
           /\ Deleting(w) => /\ lock = w /\ op[w].req \in Request /\ op[w].req.kind = "delete"
                             /\ op[w].plan = None /\ NoWriter
           /\ call[w].pc \in Writing => lock = w /\ op[w].req \in Request
           /\ call[w].pc = "saved" => Saves(call[w], op[w])
           /\ call[w].pc \in {"deleted", "removed"} => Deletes(call[w], op[w])
<1>1. None \notin Plan /\ None \notin Request /\ NoOp.req = None /\ NoOp.plan = None
  BY DEF NoOp
<1>2. ASSUME Saving(w)
      PROVE  /\ lock = w /\ op[w].req \in Request /\ op[w].req.kind # "delete"
             /\ op[w].plan \in Plan /\ NoWriter
  <2>1. At(w, "idle") /\ op[w] # NoOp /\ op[w].plan # None
    BY <1>1, <1>2 DEF Saving
  <2>2. NoWriter
    BY <2>1, Holder, Exclusion DEF At, Writing
  <2> QED BY <2>1, <2>2, Holder DEF Loads, Saves, Deletes, At
<1>3. ASSUME Deleting(w)
      PROVE  /\ lock = w /\ op[w].req \in Request /\ op[w].req.kind = "delete"
             /\ op[w].plan = None /\ NoWriter
  <2>1. At(w, "idle") /\ op[w] # NoOp /\ op[w].req.kind = "delete"
    BY <1>1, <1>3 DEF Deleting
  <2>2. NoWriter
    BY <2>1, Holder, Exclusion DEF At, Writing
  <2> QED BY <2>1, <2>2, Holder DEF Loads, Saves, Deletes, At
<1>4. call[w].pc \in Writing => call[w].pc # "idle"
  BY DEF Writing
<1>5. ASSUME call[w].pc \in {"saved", "deleted", "removed"}
      PROVE  /\ lock = w /\ op[w].req \in Request
             /\ call[w].pc = "saved" => Saves(call[w], op[w])
             /\ call[w].pc \in {"deleted", "removed"} => Deletes(call[w], op[w])
  BY <1>5, Holder DEF Loads, Saves, Deletes, Loading
<1> QED BY <1>2, <1>3, <1>5 DEF Writing

\* A change of the vault that the cache is not told of.
LEMMA LostKeeps ==
    ASSUME Typed, NEW w \in Writers, lock = w, At(w, "idle"), NEW n \in Names,
           NEW x \in Data \cup {Absent}, x = Absent => vault[n].val # Absent, Change(n, x),
           told' \subseteq VS!Promise, Unlock(w), UNCHANGED <<seq, cache, call, owed>>
    PROVE  Keeps
<1>1. Edit(n, x)
  BY DEF Edit
<1>2. [Next]_vars
  BY <1>1 DEF Next, EnvNext
<1>3. TypeOK'
  BY <1>2, CacheTypes
<1>4. call' = [call EXCEPT ![w] = call[w]] /\ call[w].pc = "idle"
  BY DEF Typed, StoreTypeOK, TypeOK, At
<1>5. Typed'
  BY <1>3, <1>4, RefusedTyped
<1> QED BY <1>2, <1>5 DEF Keeps

LEMMA FailedKeeps ==
    ASSUME Typed, NEW w \in Writers, lock = w, At(w, "idle"), Unlock(w),
           UNCHANGED <<cacheVars, told>>
    PROVE  Keeps
<1>1. [Next]_vars /\ call' = call /\ told' = told
  BY DEF cacheVars, vars
<1>2. TypeOK'
  BY <1>1, CacheTypes
<1>3. /\ call' = [call EXCEPT ![w] = call[w]] /\ call[w].pc = "idle"
      /\ told' \subseteq VS!Promise
  BY <1>1 DEF Typed, StoreTypeOK, TypeOK, At
<1>4. Typed'
  BY <1>2, <1>3, RefusedTyped
<1> QED BY <1>1, <1>4 DEF Keeps

\* A step of Save or Delete after which the write goes on.
LEMMA InsideTyped ==
    ASSUME Typed, TypeOK', NEW w \in Writers, lock = w, NEW k, call' = [call EXCEPT ![w] = k],
           UNCHANGED <<lock, op>>, told' \subseteq VS!Promise, op[w].req \in Request,
           k.pc \in Writing, Saves(k, op[w]) \/ Deletes(k, op[w])
    PROVE  Typed'
<1>1. call'[w] = k /\ op' = [op EXCEPT ![w] = op[w]]
      /\ op[w] \in [req : Request \cup {None}, plan : Plan \cup {None}]
  BY DEF Typed, StoreTypeOK, TypeOK
<1>2. WriterOK(w)'
  BY <1>1 DEF WriterOK
<1>3. k.pc # "fetched"
  BY DEF Writing
<1> QED BY <1>1, <1>2, <1>3, WriterTyped

LEMMA SaveKeeps ==
    ASSUME Typed, NEW w \in Writers,
           SaveOK(w) \/ SaveFails(w) \/ SaveLost(w) \/ SaveReturns(w)
    PROVE  Keeps
<1>t. told \subseteq VS!Promise /\ w \in Callers
  BY DEF Typed, StoreTypeOK
<1> DEFINE n == op[w].req.name
           d == op[w].plan.rec
<1>1. CASE SaveOK(w)
  <2>1. /\ Saving(w) /\ SaveInner(w, n, d) /\ UNCHANGED <<lock, op>>
        /\ told' \subseteq told \cup op[w].plan.new
    BY <1>1 DEF SaveOK
  <2>2. /\ lock = w /\ op[w].req \in Request /\ op[w].req.kind # "delete"
        /\ op[w].plan \in Plan /\ NoWriter
    BY <2>1, MutatingTypes
  <2>3. n \in Names /\ d \in Data /\ told' \subseteq VS!Promise
    BY <1>t, <2>1, <2>2, RequestTypes, PlanTypes
  <2>4. [Next]_vars
    BY <1>t, <2>1, <2>2, <2>3 DEF Next, WriteNext
  <2>5. PICK k : call' = [call EXCEPT ![w] = k] /\ k.pc = "saved"
    <3>1. [Idle EXCEPT !.pc = "saved", !.obj = n, !.got = vault'[n]].pc = "saved"
      BY DEF Idle
    <3> QED BY <2>1, <3>1 DEF SaveInner
  <2>6. k.pc \in Writing /\ Saves(k, op[w])
    BY <2>2, <2>5 DEF Saves, Writing
  <2> QED BY <2>1, <2>2, <2>3, <2>4, <2>5, <2>6, CacheTypes, InsideTyped DEF Keeps
<1>2. CASE SaveFails(w)
  BY <1>2, MutatingTypes, FailedKeeps DEF SaveFails, Saving
<1>3. CASE SaveLost(w)
  <2>1. /\ Saving(w) /\ Change(n, d) /\ Unlock(w) /\ told' \subseteq told
        /\ UNCHANGED <<seq, cache, call, owed>>
    BY <1>3 DEF SaveLost
  <2>2. lock = w /\ n \in Names /\ d \in Data /\ d # Absent /\ At(w, "idle")
    BY <2>1, MutatingTypes, RequestTypes, PlanTypes DEF Saving
  <2> QED BY <1>t, <2>1, <2>2, LostKeeps
<1>4. CASE SaveReturns(w)
  <2>1. SaveCommit(w) /\ Unlock(w) /\ told' = told
    BY <1>4 DEF SaveReturns
  <2>2. lock = w
    BY <2>1, MutatingTypes DEF SaveCommit, At, Writing
  <2>3. [Next]_vars
    BY <1>t, <2>1 DEF Next, WriteNext
  <2>4. call' = [call EXCEPT ![w] = Idle] /\ Idle.pc = "idle"
    BY <2>1 DEF SaveCommit, Idle
  <2> QED BY <1>t, <2>1, <2>2, <2>3, <2>4, CacheTypes, RefusedTyped DEF Keeps
<1> QED BY <1>1, <1>2, <1>3, <1>4

LEMMA DeleteKeeps ==
    ASSUME Typed, NEW w \in Writers,
           DeleteOK(w) \/ DeleteFails(w) \/ DeleteLost(w) \/ DeleteEvicts(w) \/ DeleteReturns(w)
    PROVE  Keeps
<1>t. told \subseteq VS!Promise /\ w \in Callers
  BY DEF Typed, StoreTypeOK
<1> DEFINE n == op[w].req.name
<1>1. CASE DeleteOK(w)
  <2>1. /\ Deleting(w) /\ DeleteInner(w, n) /\ UNCHANGED <<lock, op>>
        /\ told' \subseteq told
    BY <1>1 DEF DeleteOK
  <2>2. /\ lock = w /\ op[w].req \in Request /\ op[w].req.kind = "delete"
        /\ op[w].plan = None /\ NoWriter /\ n \in Names
    BY <2>1, MutatingTypes, RequestTypes
  <2>3. [Next]_vars
    BY <1>t, <2>1, <2>2 DEF Next, WriteNext
  <2>4. PICK k : call' = [call EXCEPT ![w] = k] /\ k.pc = "deleted"
    <3>1. [Idle EXCEPT !.pc = "deleted", !.obj = n, !.got = vault'[n]].pc = "deleted"
      BY DEF Idle
    <3> QED BY <2>1, <3>1 DEF DeleteInner
  <2>5. k.pc \in Writing /\ Deletes(k, op[w])
    BY <2>2, <2>4 DEF Deletes, Writing
  <2> QED BY <1>t, <2>1, <2>2, <2>3, <2>4, <2>5, CacheTypes, InsideTyped DEF Keeps
<1>2. CASE DeleteFails(w)
  BY <1>2, MutatingTypes, FailedKeeps DEF DeleteFails, Deleting
<1>3. CASE DeleteLost(w)
  <2>1. /\ Deleting(w) /\ Change(n, Absent) /\ vault[n].val # Absent /\ Unlock(w)
        /\ told' \subseteq told /\ UNCHANGED <<seq, cache, call, owed>>
    BY <1>3 DEF DeleteLost
  <2>2. lock = w /\ n \in Names /\ At(w, "idle")
    BY <2>1, MutatingTypes, RequestTypes DEF Deleting
  <2> QED BY <1>t, <2>1, <2>2, LostKeeps
<1>4. CASE DeleteEvicts(w)
  <2>1. DeleteRemove(w) /\ UNCHANGED <<lock, op, told>> /\ At(w, "deleted")
    BY <1>4 DEF DeleteEvicts, DeleteRemove
  <2>2. lock = w /\ op[w].req \in Request /\ Deletes(call[w], op[w])
    BY <2>1, MutatingTypes DEF At, Writing
  <2>3. [Next]_vars
    BY <1>t, <2>1 DEF Next, WriteNext
  <2> DEFINE k == [call[w] EXCEPT !.pc = "removed"]
  <2>4. call' = [call EXCEPT ![w] = k] /\ k.pc = "removed"
    BY <1>t, <2>1 DEF DeleteRemove, Typed, StoreTypeOK, TypeOK, Call
  <2> HIDE DEF k
  <2>5. k.pc \in Writing /\ Deletes(k, op[w])
    BY <2>2, <2>4 DEF Deletes, Writing
  <2> QED BY <1>t, <2>1, <2>2, <2>3, <2>4, <2>5, CacheTypes, InsideTyped DEF Keeps
<1>5. CASE DeleteReturns(w)
  <2>1. DeleteNames(w) /\ Unlock(w) /\ told' = told
    BY <1>5 DEF DeleteReturns
  <2>2. lock = w
    BY <2>1, MutatingTypes DEF DeleteNames, At, Writing
  <2>3. [Next]_vars
    BY <1>t, <2>1 DEF Next, WriteNext
  <2>4. call' = [call EXCEPT ![w] = Idle] /\ Idle.pc = "idle"
    BY <2>1 DEF DeleteNames, Idle
  <2> QED BY <1>t, <2>1, <2>2, <2>3, <2>4, CacheTypes, RefusedTyped DEF Keeps
<1> QED BY <1>1, <1>2, <1>3, <1>4, <1>5

LEMMA LoadKeeps ==
    ASSUME Typed, UNCHANGED <<lock, op, told>>,
           \/ \E w \in Writers : LoadGoesOn(w)
           \/ \E c \in Callers \ Writers : LoadNext(c)
    PROVE  Keeps
<1>t. TypeOK
  BY DEF Typed, StoreTypeOK
<1>1. ASSUME NEW w \in Writers, LoadGoesOn(w) PROVE Keeps
  <2>1. w \in Callers
    OBVIOUS
  <2>2. [Next]_vars
    BY <1>1, <2>1 DEF LoadGoesOn, Next, LoadNext, LoadStep
  <2>3. /\ \A d \in Callers : Advances(d, w) /\ (d = w => ~Turns(d))
        /\ UNCHANGED <<vault, clock, seq, owed>>
    BY <1>t, <1>1, <2>1, GoesOnEffect
  <2>4. Typed'
    BY <2>1, <2>2, <2>3, CacheTypes, LoadTyped
  <2> QED BY <2>2, <2>4 DEF Keeps
<1>2. ASSUME NEW c \in Callers \ Writers, LoadNext(c) PROVE Keeps
  <2>1. [Next]_vars
    BY <1>2 DEF Next
  <2>2. (\A d \in Callers : Advances(d, c)) /\ UNCHANGED <<vault, clock, seq, owed>>
    BY <1>t, <1>2, LoadEffect
  <2>3. Typed'
    BY <2>1, <2>2, CacheTypes, LoadTyped
  <2> QED BY <2>1, <2>3 DEF Keeps
<1> QED BY <1>1, <1>2

\* The warmer, the flush endpoint and time leave the calls alone.
Around == \/ \E n \in Names : Remove(n)
          \/ Purge
          \/ \E o \in Objects : Expire(o)

LEMMA AroundKeeps ==
    ASSUME Typed, UNCHANGED <<lock, op, told>>, Around
    PROVE  Keeps
<1>1. [Next]_vars
  BY DEF Around, Next, EnvNext
<1>2. call' = call
  BY DEF Around, Remove, Purge, Expire
<1>3. TypeOK'
  BY <1>1, CacheTypes
<1>4. Typed'
  BY <1>2, <1>3 DEF Typed, StoreTypeOK, MutexInv, WriterOK, RecordsAreLoaded, HasCopy, At
<1> QED BY <1>1, <1>4 DEF Keeps

LEMMA StepKeeps == ASSUME Typed, [StoreNext]_storeVars PROVE Keeps
<1>1. CASE UNCHANGED storeVars
  <2>1. UNCHANGED vars /\ UNCHANGED <<lock, op, told>>
    BY <1>1 DEF storeVars
  <2>2. Typed'
    BY <2>1 DEF vars, Typed, StoreTypeOK, TypeOK, MutexInv, WriterOK, RecordsAreLoaded, HasCopy, At
  <2> QED BY <2>1, <2>2 DEF Keeps
<1>2. CASE StoreNext
  BY <1>2, BeginKeeps, DecisionKeeps, SaveKeeps, DeleteKeeps, LoadKeeps, AroundKeeps
     DEF StoreNext, WriterNext, WriteStep, OthersNext, Around
<1> QED BY <1>1, <1>2

\* The store keeps its types, the promises included, for every set of names, values
\* and callers, and whether a failed write may have been applied or not (store.Store).
THEOREM StoreTypeCorrect == StoreSpec => []StoreTypeOK
<1>1. StoreInit => Typed
  BY InitTyped
<1>2. Typed /\ [StoreNext]_storeVars => Typed'
  BY StepKeeps DEF Keeps
<1>3. Typed => StoreTypeOK
  BY DEF Typed
<1> QED BY <1>1, <1>2, <1>3, PTL DEF StoreSpec

\* The store is a caller that Cache allows: its mutex keeps writes apart (store.go
\* Store.mu, cache.go Save and Delete).
THEOREM StoreUsesTheCache == StoreSpec => Spec
<1>1. StoreInit => Init /\ Typed
  BY InitTyped
<1>2. Typed /\ [StoreNext]_storeVars => [Next]_vars /\ Typed'
  BY StepKeeps DEF Keeps
<1> QED BY <1>1, <1>2, PTL DEF StoreSpec, Spec

\* Whatever holds of the cache holds under the store, so that its readers never fall
\* behind a completed write (store.go, cache.go Load).
THEOREM StoreKeepsTheCache == StoreSpec => []Inductive
BY StoreUsesTheCache, InductiveInvariant, PTL

----------------------------------------------------------------------------
(* Without ambiguous failures every write starts from the vault *)

Makes(p, r, new) == p.rec = r /\ p.new = new

\* The plan p is what the request q makes of the record r of its name.
Decided(q, r, p) ==
    \/ /\ q.kind = "put" /\ r = Absent
       /\ Makes(p, NewRecord(1, q.value), VS!Assigned(q.name, 1, q.value))
    \/ /\ q.kind = "put" /\ r # Absent /\ ~SameAsLatest(r, q.value)
       /\ Makes(p, WithPut(r, q.value), VS!Assigned(q.name, NextVersion(r), q.value))
    \/ /\ q.kind = "create" /\ r = Absent
       /\ Makes(p, NewRecord(q.version, q.value), VS!Assigned(q.name, q.version, q.value))
    \/ /\ q.kind = "create" /\ r # Absent /\ ~IsClaimed(r, q.version)
       /\ Makes(p, WithVersion(r, q.version, q.value), VS!Assigned(q.name, q.version, q.value))
    \/ /\ q.kind = "activate" /\ IsInactive(r, q.version)
       /\ Makes(p, WithActive(r, q.version), {})
    \/ /\ q.kind = "deleteVersion" /\ IsInactive(r, q.version)
       /\ Makes(p, WithoutVersion(r, q.version), {})

\* A flight that may still fill, and that no write has overtaken, has the vault's copy.
FlightsAreTrue == \A d \in Callers :
    HasCopy(d) /\ call[d].obj \in Names /\ call[d].seq = seq /\ ~InWrite(call[d].obj)
        => call[d].got = vault[call[d].obj]

\* So has every flight that a writer is in, or may still join.
JoinsAreTrue == \A w \in Writers, d \in Callers :
    call[w].pc \in Holding /\ HasCopy(d) /\ SameFlight(d, w)
        => call[d].got = vault[call[w].obj]

PlansAreTrue == \A w \in Writers :
    Saving(w) => Decided(op[w].req, vault[op[w].req.name].val, op[w].plan)

\* What callers were told of is of secrets that exist.
ToldExist == \A t \in told : vault[t.name].val # Absent

Serial == FlightsAreTrue /\ JoinsAreTrue /\ WriteStartsFromVault /\ PlansAreTrue /\ ToldExist

LEMMA InitSerial == StoreInit => Serial
<1> SUFFICES ASSUME StoreInit PROVE Serial
  OBVIOUS
<1>1. \A c \in Callers : call[c].pc = "idle"
  BY DEF StoreInit, Init, Idle
<1>2. \A w \in Writers : op[w].req = None /\ op[w].plan = None
  BY DEF StoreInit, NoOp
<1>3. PlansAreTrue /\ WriteStartsFromVault /\ ToldExist
  BY <1>2 DEF StoreInit, PlansAreTrue, WriteStartsFromVault, ToldExist, Saving
<1>4. FlightsAreTrue /\ JoinsAreTrue
  BY <1>1 DEF FlightsAreTrue, JoinsAreTrue, HasCopy, At
<1> QED BY <1>3, <1>4 DEF Serial

\* The load of a write is of its secret, and forced.
LEMMA WriterLoads ==
    ASSUME Typed, NEW w \in Writers, call[w].pc \in Loading
    PROVE  /\ lock = w /\ call[w].obj = op[w].req.name /\ call[w].obj \in Names /\ call[w].force
           /\ NoWriter
<1>1. lock = w /\ op[w].req \in Request /\ Loads(call[w], op[w])
  BY Holder DEF Saves, Deletes, Loading
<1>2. NoWriter
  BY <1>1, Exclusion DEF Loading, Writing
<1> QED BY <1>1, <1>2, RequestTypes DEF Loads

LEMMA LoadSerial ==
    ASSUME Typed, Serial, NEW c \in Callers, \A d \in Callers : Advances(d, c),
           c \in Writers => ~Turns(c), UNCHANGED <<vault, clock, seq, owed, lock, op, told>>
    PROVE  Serial'
<1>w. Writers \subseteq Callers
  OBVIOUS
<1>1. \A d \in Callers : call[d].pc \in Writing => call'[d] = call[d]
  BY DEF Advances, Keys, Enters, Fetches, GivesUp, Turns, LandsOf, At, Writing
<1>2. \A n \in Names : InWrite(n) => InWrite(n)'
  BY <1>1 DEF InWrite, Writing
<1>3. \A d \in Callers : HasCopy(d)' => (call'[d] = call[d] /\ HasCopy(d)) \/ (d = c /\ Fetches(d))
  BY DEF HasCopy, At, Advances, Keys, Enters, GivesUp, Turns, LandsOf
<1>4. ASSUME NEW d \in Callers, Fetches(d), HasCopy(d)', call'[d].obj \in Names
      PROVE  call'[d].got = vault[call'[d].obj]
  BY <1>4 DEF Fetches, SameCall, HasCopy, Fails, Current
<1>5. FlightsAreTrue'
  BY <1>2, <1>3, <1>4 DEF Serial, FlightsAreTrue
<1>6. ASSUME NEW w \in Writers, NEW d \in Callers, call'[w].pc \in Holding, HasCopy(d)',
             SameFlight(d, w)'
      PROVE  call'[d].got = vault'[call'[w].obj]
  <2>1. call'[w] = call[w] \/ (w = c /\ (Keys(w) \/ Enters(w) \/ Fetches(w)))
    BY <1>6 DEF Advances, GivesUp, Turns, LandsOf, At, Holding
  <2>2. call[w].pc \in Loading /\ call'[w].obj = call[w].obj
    BY <1>6, <2>1 DEF Keys, Enters, Fetches, SameCall, At, Holding, Loading
  <2>3. call[w].obj \in Names /\ NoWriter
    BY <2>2, WriterLoads
  <2>4. call'[d].obj = call'[w].obj /\ call'[d].seq = call'[w].seq
    BY <1>6 DEF SameFlight
  <2>5. CASE Fetches(d)
    BY <1>4, <1>6, <2>2, <2>3, <2>4, <2>5
  <2>6. CASE call'[d] = call[d] /\ HasCopy(d)
    <3>1. CASE Keys(w)
      <4>1. call[d].seq = seq /\ call[d].obj = call[w].obj
        BY <2>2, <2>4, <2>6, <3>1 DEF Keys
      <4>2. ~InWrite(call[d].obj)
        BY <2>3 DEF NoWriter, InWrite, Writing
      <4> QED BY <2>2, <2>3, <2>6, <4>1, <4>2 DEF Serial, FlightsAreTrue
    <3>2. CASE call'[w] = call[w] \/ Enters(w) \/ Fetches(w)
      <4>1. call[w].pc \in Holding /\ call'[w].seq = call[w].seq
        BY <1>6, <3>2 DEF Enters, Fetches, At, Holding
      <4>2. SameFlight(d, w)
        BY <2>2, <2>4, <2>6, <4>1 DEF SameFlight
      <4> QED BY <2>2, <2>6, <4>1, <4>2 DEF Serial, JoinsAreTrue
    <3> QED BY <2>1, <3>1, <3>2
  <2> QED BY <1>3, <1>6, <2>5, <2>6
<1>7. ASSUME NEW w \in Writers, op[w].req # None, At(w, "done")', call'[w].got \in Copy
      PROVE  call'[w].got = vault'[op[w].req.name]
  <2>1. CASE call'[w] = call[w]
    BY <1>7, <2>1 DEF Serial, WriteStartsFromVault, At
  <2>2. CASE LandsOf(w, c)
    <3>1. /\ call[w].pc \in Holding /\ call[w].pc \in Loading /\ HasCopy(c) /\ SameFlight(c, w)
          /\ call'[w].got = call[c].got
      BY <1>7, <2>2 DEF LandsOf, HasCopy, Holding, Loading
    <3> QED BY <3>1, WriterLoads DEF Serial, JoinsAreTrue
  <2>3. CASE GivesUp(w)
    <3>1. call[w].force
      BY <2>3, WriterLoads DEF GivesUp, At, Loading
    <3> QED BY <1>7, <2>3, <3>1 DEF GivesUp
  <2> QED BY <1>7, <2>1, <2>2, <2>3 DEF Advances, Keys, Enters, Fetches, At
<1>8. ASSUME NEW w \in Writers, At(w, "idle")' PROVE call'[w] = call[w]
  BY <1>8 DEF Advances, Keys, Enters, Fetches, GivesUp, LandsOf, At
<1>9. PlansAreTrue' /\ ToldExist'
  BY <1>8 DEF Serial, PlansAreTrue, ToldExist, Saving, At
<1>10. JoinsAreTrue'
  BY <1>6 DEF JoinsAreTrue
<1>11. WriteStartsFromVault'
  BY <1>7 DEF WriteStartsFromVault
<1> QED BY <1>5, <1>9, <1>10, <1>11 DEF Serial

\* The sequence may be bumped under any flight.
LEMMA AroundSerial ==
    ASSUME Typed, SnapshotsArePast, Serial, UNCHANGED <<lock, op, told>>, Around
    PROVE  Serial'
<1>1. call' = call /\ vault' = vault /\ seq' \in {seq, seq + 1}
  BY DEF Around, Remove, Purge, Expire, Bumped
<1>2. ASSUME NEW d \in Callers, HasCopy(d)', call'[d].seq = seq' PROVE call[d].seq = seq
  <2>1. call[d].seq <= seq /\ call[d].seq \in Nat /\ seq \in Nat
    BY <1>1, <1>2 DEF Typed, StoreTypeOK, TypeOK, Call, SnapshotsArePast, HasCopy, At, Holding
  <2> QED BY <1>1, <1>2, <2>1
<1>3. FlightsAreTrue'
  BY <1>1, <1>2 DEF Serial, FlightsAreTrue, HasCopy, At, InWrite
<1>4. JoinsAreTrue' /\ WriteStartsFromVault' /\ PlansAreTrue' /\ ToldExist'
  BY <1>1 DEF Serial, JoinsAreTrue, WriteStartsFromVault, PlansAreTrue, ToldExist, HasCopy, At,
              SameFlight, Saving
<1> QED BY <1>3, <1>4 DEF Serial

\* The writer w moves, outside of the load, and the vault stays as it is.
LEMMA QuietSerial ==
    ASSUME Typed, SnapshotsArePast, Serial, NEW w \in Writers,
           NEW k, call' = [call EXCEPT ![w] = k], k.pc \in {"idle", "missed", "deleted", "removed"},
           vault' = vault,
           \/ seq' = seq + 1
           \/ seq' = seq /\ call[w].pc \notin {"saved", "deleted"},
           \A v \in Writers \ {w} : op'[v] = op[v],
           ToldExist',
           Saving(w)' => Decided(op'[w].req, vault[op'[w].req.name].val, op'[w].plan)
    PROVE  Serial'
<1>1. call'[w] = k /\ \A d \in Callers : d # w => call'[d] = call[d]
  BY DEF Typed, StoreTypeOK, TypeOK
<1>2. \A d \in Callers : HasCopy(d)' => d # w /\ call'[d] = call[d] /\ HasCopy(d)
  BY <1>1 DEF HasCopy, At
<1>3. ASSUME NEW d \in Callers, HasCopy(d)', call'[d].seq = seq' PROVE seq' = seq
  <2>1. call[d].seq <= seq /\ call[d].seq \in Nat /\ seq \in Nat /\ call'[d].seq = call[d].seq
    BY <1>2, <1>3 DEF Typed, StoreTypeOK, TypeOK, Call, SnapshotsArePast, HasCopy, At, Holding
  <2> QED BY <1>3, <2>1
<1>4. ASSUME seq' = seq, NEW n \in Names, InWrite(n) PROVE InWrite(n)'
  <2>1. call[w].pc \notin {"saved", "deleted"}
    <3>1. seq \in Nat
      BY DEF Typed, StoreTypeOK, TypeOK
    <3> QED BY <1>4, <3>1
  <2> QED BY <1>1, <1>4, <2>1 DEF InWrite
<1>5. FlightsAreTrue'
  BY <1>2, <1>3, <1>4 DEF Serial, FlightsAreTrue
<1>6. \A v \in Writers : call'[v].pc \in Holding => v # w /\ call'[v] = call[v]
  BY <1>1 DEF Holding
<1>7. JoinsAreTrue'
  BY <1>2, <1>6 DEF Serial, JoinsAreTrue, SameFlight
<1>8. WriteStartsFromVault'
  BY <1>1 DEF Serial, WriteStartsFromVault, At
<1>9. PlansAreTrue'
  BY <1>1 DEF Serial, PlansAreTrue, Saving, At
<1> QED BY <1>5, <1>7, <1>8, <1>9 DEF Serial

\* The writer w changes the vault, and is in the second half of Save or Delete.
LEMMA MutateSerial ==
    ASSUME Typed, Serial, NEW w \in Writers, lock = w, NEW n \in Names, At(w, "idle"),
           NEW k, call' = [call EXCEPT ![w] = k], k.pc \in {"saved", "deleted"}, k.obj = n,
           \A m \in Names \ {n} : vault'[m] = vault[m], seq' = seq, op' = op, ToldExist'
    PROVE  Serial'
<1>1. call'[w] = k /\ \A d \in Callers : d # w => call'[d] = call[d]
  BY DEF Typed, StoreTypeOK, TypeOK
<1>2. \A d \in Callers : HasCopy(d)' => d # w /\ call'[d] = call[d] /\ HasCopy(d)
  BY <1>1 DEF HasCopy, At
<1>3. InWrite(n)' /\ \A m \in Names : InWrite(m) => InWrite(m)'
  BY <1>1 DEF InWrite, At
<1>4. FlightsAreTrue'
  BY <1>2, <1>3 DEF Serial, FlightsAreTrue
<1>5. \A v \in Writers \ {w} : call'[v].pc = "idle" /\ op[v] = NoOp
  BY <1>1 DEF Typed, MutexInv, WriterOK
<1>6. JoinsAreTrue'
  BY <1>1, <1>5 DEF JoinsAreTrue, Holding
<1>7. NoOp.req = None /\ NoOp.plan = None
  BY DEF NoOp
<1>8. WriteStartsFromVault' /\ PlansAreTrue'
  BY <1>1, <1>5, <1>7 DEF WriteStartsFromVault, PlansAreTrue, Saving, At
<1> QED BY <1>4, <1>6, <1>8 DEF Serial

----------------------------------------------------------------------------
(* Each step of the store is one of VersionStore, or none *)

\* VersionStore means the same by a record.
LEMMA SameRecords ==
    /\ VS!Version = Version
    /\ \A r : VS!Live(r) = Live(r) /\ VS!NextVersion(r) = NextVersion(r)
    /\ \A r, x : (VS!SameAsLatest(r, x) <=> SameAsLatest(r, x)) /\ VS!WithPut(r, x) = WithPut(r, x)
    /\ \A r, v : /\ VS!IsClaimed(r, v) <=> IsClaimed(r, v)
                 /\ VS!WithActive(r, v) = WithActive(r, v)
                 /\ VS!WithoutVersion(r, v) = WithoutVersion(r, v)
    /\ \A v, x : VS!NewRecord(v, x) = NewRecord(v, x)
    /\ \A r, v, x : VS!WithVersion(r, v, x) = WithVersion(r, v, x)
<1>1. VS!Version = Version
  BY DEF VS!Version, Version
<1>2. \A r : VS!Live(r) = Live(r) /\ VS!NextVersion(r) = NextVersion(r)
  BY <1>1 DEF VS!Live, Live, VS!NextVersion, NextVersion
<1>3. \A r, x : VS!SameAsLatest(r, x) <=> SameAsLatest(r, x)
  BY <1>2 DEF VS!SameAsLatest, SameAsLatest
<1>4. \A r, x : VS!WithPut(r, x) = WithPut(r, x)
  BY <1>2 DEF VS!WithPut, WithPut
<1>5. \A r, v : VS!IsClaimed(r, v) <=> IsClaimed(r, v)
  BY <1>2 DEF VS!IsClaimed, IsClaimed
<1>6. \A r, v : VS!WithActive(r, v) = WithActive(r, v)
  BY DEF VS!WithActive, WithActive
<1>7. \A r, v : VS!WithoutVersion(r, v) = WithoutVersion(r, v)
  BY DEF VS!WithoutVersion, WithoutVersion
<1>8. \A v, x : VS!NewRecord(v, x) = NewRecord(v, x)
  BY <1>1 DEF VS!NewRecord, NewRecord
<1>9. \A r, v, x : VS!WithVersion(r, v, x) = WithVersion(r, v, x)
  BY DEF VS!WithVersion, WithVersion
<1> QED BY <1>1, <1>2, <1>3, <1>4, <1>5, <1>6, <1>7, <1>8, <1>9

\* The vault as VersionStore sees it.
Seen == [n \in Names |-> vault[n].val]

LEMMA SameVault == ASSUME UNCHANGED <<vault, told>> PROVE [VS!Next]_(VS!vars)
BY DEF VS!vars

LEMMA ChangedVault ==
    ASSUME Typed, NEW n \in Names, NEW x \in Data \cup {Absent}, Change(n, x)
    PROVE  /\ Seen' = [Seen EXCEPT ![n] = x] /\ Seen[n] = vault[n].val
           /\ vault'[n].val = x /\ \A m \in Names \ {n} : vault'[m] = vault[m]
<1>1. vault' = [vault EXCEPT ![n] = [val |-> x, at |-> clock + 1]]
  BY DEF Change
<1>2. vault \in [Names -> [val : Data \cup {Absent}, at : Nat]]
  BY DEF Typed, StoreTypeOK, TypeOK
<1>3. vault'[n].val = x /\ \A m \in Names \ {n} : vault'[m] = vault[m]
  BY <1>1, <1>2
<1> QED BY <1>3 DEF Seen

\* A save of the plan p that the request q makes of the record in the vault is a step
\* of VersionStore.
LEMMA SaveIsAStep ==
    ASSUME Typed, NEW q \in Request, NEW p \in Plan, NEW r, r = vault[q.name].val,
           q.kind # "delete", Decided(q, r, p), VS!Accepts(p.rec), Change(q.name, p.rec),
           told' = (told \ Forgotten(q)) \cup p.new
    PROVE  VS!Next
<1> DEFINE n == q.name
<1>1. /\ n \in Names /\ q.version \in VS!Version
      /\ q.kind \in {"put", "create"} => q.value \in Values
      /\ q.kind # "put" => q.version # 0
      /\ q.kind # "create" => n \notin ConfigNames
  BY RequestTypes, SameRecords
<1>2. Seen' = [Seen EXCEPT ![n] = p.rec] /\ Seen[n] = r
  BY <1>1, ChangedVault, PlanTypes
<1>3. VS!Exists(n) <=> r # Absent
  BY <1>2 DEF VS!Exists, Seen
<1>4. q.kind # "deleteVersion" => told' = told \cup p.new
  BY DEF Forgotten
<1>5. CASE q.kind = "put"
  <2>1. VS!Put(n, q.value)
    <3>1. CASE r = Absent
      <4>1. p.rec = VS!NewRecord(1, q.value) /\ p.new = VS!Assigned(n, 1, q.value)
        BY <1>5, <3>1, SameRecords DEF Decided, Makes
      <4> QED BY <1>1, <1>2, <1>3, <1>4, <1>5, <3>1, <4>1 DEF VS!Put, VS!Save, Seen
    <3>2. CASE r # Absent
      <4>1. /\ ~VS!SameAsLatest(r, q.value) /\ p.rec = VS!WithPut(r, q.value)
            /\ p.new = VS!Assigned(n, VS!NextVersion(r), q.value)
        BY <1>5, <3>2, SameRecords DEF Decided, Makes
      <4>2. /\ ~VS!SameAsLatest(Seen[n], q.value) /\ VS!Accepts(VS!WithPut(Seen[n], q.value))
            /\ Seen' = [Seen EXCEPT ![n] = VS!WithPut(Seen[n], q.value)]
        BY <1>2, <4>1
      <4>3. told' = told \cup VS!Assigned(n, VS!NextVersion(Seen[n]), q.value)
        BY <1>2, <1>4, <1>5, <4>1
      <4>4. n \notin ConfigNames /\ VS!Exists(n)
        BY <1>1, <1>3, <1>5, <3>2
      <4> QED BY <4>2, <4>3, <4>4 DEF VS!Put, VS!Save, Seen
    <3> QED BY <3>1, <3>2
  <2> QED BY <1>1, <1>5, <2>1 DEF VS!Next
<1>6. CASE q.kind = "create"
  <2>1. VS!CreateVersion(n, q.version, q.value)
    <3>1. CASE r = Absent
      <4>1. /\ p.rec = VS!NewRecord(q.version, q.value)
            /\ p.new = VS!Assigned(n, q.version, q.value)
        BY <1>6, <3>1, SameRecords DEF Decided, Makes
      <4> QED BY <1>1, <1>2, <1>3, <1>4, <1>6, <3>1, <4>1 DEF VS!CreateVersion, VS!Save, Seen
    <3>2. CASE r # Absent
      <4>1. /\ VS!MayCreate(r, q.version) /\ p.rec = VS!WithVersion(r, q.version, q.value)
            /\ p.new = VS!Assigned(n, q.version, q.value)
        BY <1>6, <3>2, SameRecords DEF Decided, Makes, VS!MayCreate
      <4>2. /\ VS!MayCreate(Seen[n], q.version)
            /\ VS!Accepts(VS!WithVersion(Seen[n], q.version, q.value))
            /\ Seen' = [Seen EXCEPT ![n] = VS!WithVersion(Seen[n], q.version, q.value)]
        BY <1>2, <4>1
      <4>3. told' = told \cup VS!Assigned(n, q.version, q.value)
        BY <1>4, <1>6, <4>1
      <4>4. q.version # 0 /\ VS!Exists(n)
        BY <1>1, <1>3, <1>6, <3>2
      <4> QED BY <4>2, <4>3, <4>4 DEF VS!CreateVersion, VS!Save, Seen
    <3> QED BY <3>1, <3>2
  <2> QED BY <1>1, <1>6, <2>1 DEF VS!Next
<1>7. CASE q.kind = "activate"
  <2>1. /\ IsInactive(r, q.version) /\ p.rec = VS!WithActive(r, q.version) /\ p.new = {}
    BY <1>7, SameRecords DEF Decided, Makes
  <2>2. VS!Activate(n, q.version)
    <3>1. q.version \in VS!Live(Seen[n]) \ {0, Seen[n].active}
      BY <1>1, <1>2, <1>7, <2>1, SameRecords DEF IsInactive
    <3>2. /\ VS!Accepts(VS!WithActive(Seen[n], q.version))
          /\ Seen' = [Seen EXCEPT ![n] = VS!WithActive(Seen[n], q.version)]
      BY <1>2, <2>1
    <3>3. told' \in {told, told \cup {}}
      BY <1>4, <1>7, <2>1
    <3>4. n \notin ConfigNames /\ VS!Exists(n)
      BY <1>1, <1>3, <1>7, <2>1 DEF IsInactive
    <3> QED BY <3>1, <3>2, <3>3, <3>4 DEF VS!Activate, VS!Save, Seen
  <2> QED BY <1>1, <2>2 DEF VS!Next
<1>8. CASE q.kind = "deleteVersion"
  <2>1. /\ IsInactive(r, q.version) /\ p.rec = VS!WithoutVersion(r, q.version)
        /\ p.new = {}
    BY <1>8, SameRecords DEF Decided, Makes
  <2>2. told' = {t \in told : ~(t.name = n /\ t.version = q.version)}
    BY <1>8, <2>1 DEF Forgotten
  <2>3. VS!MayDelete(r, q.version)
    BY <1>1, <1>8, <2>1, SameRecords DEF VS!MayDelete, IsInactive
  <2>4. VS!DeleteVersion(n, q.version)
    <3>1. n \notin ConfigNames /\ VS!Exists(n)
      BY <1>1, <1>3, <1>8, <2>1 DEF IsInactive
    <3>2. VS!MayDelete(Seen[n], q.version)
      BY <1>2, <2>3
    <3>3. VS!Accepts(VS!WithoutVersion(Seen[n], q.version))
      BY <1>2, <2>1
    <3>4. Seen' = [Seen EXCEPT ![n] = VS!WithoutVersion(Seen[n], q.version)]
      BY <1>2, <2>1
    <3> QED BY <2>2, <3>1, <3>2, <3>3, <3>4 DEF VS!DeleteVersion, Seen
  <2> QED BY <1>1, <2>4 DEF VS!Next
<1> QED BY <1>5, <1>6, <1>7, <1>8 DEF Request

\* A step that keeps what makes writes serial, and that VersionStore allows.
Refines == Serial' /\ [VS!Next]_(VS!vars)

LEMMA BeginRefines ==
    ASSUME Typed, SnapshotsArePast, Serial, NEW w \in Writers, NEW q \in Request, Begin(w, q)
    PROVE  Refines
<1>1. /\ At(w, "idle") /\ op[w] = NoOp /\ NoOp.plan = None /\ told' = told
      /\ op' = [op EXCEPT ![w].req = q]
  BY DEF Begin, NoOp
<1>2. /\ op \in [Writers -> [req : Request \cup {None}, plan : Plan \cup {None}]]
      /\ call \in [Callers -> Call]
  BY DEF Typed, StoreTypeOK, TypeOK
<1>3. op'[w].plan = None /\ \A v \in Writers \ {w} : op'[v] = op[v]
  BY <1>1, <1>2
<1>4. PICK k : call' = [call EXCEPT ![w] = k] /\ k.pc \in {"idle", "missed"}
  <2>1. CASE UNCHANGED cacheVars
    <3>1. call' = [call EXCEPT ![w] = call[w]] /\ call[w].pc = "idle"
      BY <1>1, <1>2, <2>1 DEF cacheVars, vars, At
    <3> QED BY <3>1
  <2>2. CASE Miss(w, q.name, TRUE)
    <3>1. [Idle EXCEPT !.pc = "missed", !.obj = q.name, !.force = TRUE,
                       !.floor = owed[q.name]].pc = "missed"
      BY DEF Idle
    <3> QED BY <2>2, <3>1 DEF Miss
  <2> QED BY <2>1, <2>2 DEF Begin
<1>5. vault' = vault /\ seq' = seq
  BY DEF Begin, cacheVars, vars, Miss
<1>6. ToldExist' /\ call[w].pc \notin {"saved", "deleted"} /\ ~Saving(w)'
  BY <1>1, <1>3, <1>5 DEF Serial, ToldExist, At, Saving
<1>7. Serial'
  BY <1>3, <1>4, <1>5, <1>6, QuietSerial
<1> QED BY <1>1, <1>5, <1>7, SameVault DEF Refines

\* The decision follows the load at once, and the load was of the vault.
LEMMA DecidingVault ==
    ASSUME Typed, Serial, NEW w \in Writers, NEW ks, Deciding(w, ks)
    PROVE  /\ vault' = vault /\ seq' = seq /\ call[w].pc = "done"
           /\ call' = [call EXCEPT ![w] = Idle] /\ Idle.pc = "idle"
           /\ op[w].req \in Request /\ op[w].req.kind \in ks
           /\ call[w].got \in Copy => /\ Loaded(w) = vault[op[w].req.name].val
                                     /\ Loaded(w) \in Record \cup {Absent}
<1>1. At(w, "done") /\ op[w].req # None
  BY DEF Deciding
<1>2. call[w].got \in Copy => call[w].got = vault[op[w].req.name]
  BY <1>1 DEF Serial, WriteStartsFromVault
<1> QED BY <1>1, <1>2, DecidingTypes DEF Loaded, At

LEMMA RefusedRefines ==
    ASSUME Typed, SnapshotsArePast, Serial, NEW w \in Writers, NEW ks, Deciding(w, ks), Unlock(w),
           ToldExist'
    PROVE  Serial'
<1>1. op'[w] = NoOp /\ NoOp.plan = None /\ \A v \in Writers \ {w} : op'[v] = op[v]
  BY DEF Unlock, NoOp, Typed, StoreTypeOK
<1>2. ~Saving(w)'
  BY <1>1 DEF Saving
<1> QED BY <1>1, <1>2, DecidingVault, QuietSerial

LEMMA DecidedRefines ==
    ASSUME Typed, SnapshotsArePast, Serial, NEW w \in Writers, NEW ks, Deciding(w, ks),
           NEW r, NEW new, Decide(w, r, new),
           Decided(op[w].req, vault[op[w].req.name].val, [rec |-> r, new |-> new])
    PROVE  Refines
<1>1. op[w] \in [req : Request \cup {None}, plan : Plan \cup {None}]
  BY DEF Typed, StoreTypeOK
<1>2. /\ op'[w].req = op[w].req /\ op'[w].plan = [rec |-> r, new |-> new] /\ told' = told
      /\ \A v \in Writers \ {w} : op'[v] = op[v]
  BY <1>1 DEF Decide, Typed, StoreTypeOK
<1>3. vault' = vault /\ ToldExist'
  BY <1>2, DecidingVault DEF Serial, ToldExist
<1>4. Decided(op'[w].req, vault[op'[w].req.name].val, op'[w].plan)
  BY <1>2
<1>5. Serial'
  BY <1>2, <1>3, <1>4, DecidingVault, QuietSerial
<1> QED BY <1>2, <1>3, <1>5, SameVault DEF Refines

LEMMA DecisionRefines ==
    ASSUME Typed, SnapshotsArePast, Serial, NEW w \in Writers,
           LoadFails(w) \/ Put(w) \/ CreateVersion(w) \/ Activate(w) \/ DeleteVersion(w)
    PROVE  Refines
<1>r. ASSUME NEW ks, Deciding(w, ks), Refuse(w) PROVE Refines
  <2>1. vault' = vault /\ told' = told /\ Unlock(w)
    BY <1>r, DecidingVault DEF Refuse
  <2>2. ToldExist'
    BY <2>1 DEF Serial, ToldExist
  <2> QED BY <1>r, <2>1, <2>2, RefusedRefines, SameVault DEF Refines
<1>1. CASE LoadFails(w)
  BY <1>1, <1>r DEF LoadFails
<1>2. CASE Put(w)
  <2>1. Deciding(w, {"put"}) /\ call[w].got \in Copy
    BY <1>2 DEF Put
  <2>2. PICK q \in Request, r \in Record \cup {Absent} :
             q = op[w].req /\ q.kind = "put" /\ r = Loaded(w) /\ r = vault[q.name].val
    BY <2>1, DecidingVault
  <2>3. /\ q.name \in Names /\ q.value \in Values /\ q.name \notin ConfigNames
    BY <2>2, RequestTypes
  <2>4. CASE r = Absent /\ Decide(w, NewRecord(1, q.value), VS!Assigned(q.name, 1, q.value))
    BY <2>1, <2>2, <2>4, DecidedRefines DEF Decided, Makes
  <2>5. CASE /\ r # Absent /\ SameAsLatest(r, q.value) /\ Unlock(w)
             /\ told' = told \cup VS!Assigned(q.name, r.latest, q.value)
    <3>1. vault' = vault
      BY <2>1, DecidingVault
    <3>2. ToldExist'
      BY <2>2, <2>5, <3>1 DEF Serial, ToldExist, VS!Assigned
    <3>3. Serial'
      BY <2>1, <2>5, <3>2, RefusedRefines
    <3>4. Seen' = Seen /\ Seen[q.name] = r
      BY <2>2, <2>3, <3>1 DEF Seen
    <3>5. /\ VS!Exists(q.name) /\ VS!SameAsLatest(Seen[q.name], q.value)
          /\ told' = told \cup VS!Assigned(q.name, Seen[q.name].latest, q.value)
      BY <2>5, <3>4, SameRecords DEF VS!Exists, Seen
    <3>6. VS!Put(q.name, q.value)
      BY <2>3, <3>4, <3>5 DEF VS!Put, Seen
    <3>7. VS!Next
      BY <2>3, <3>6 DEF VS!Next
    <3> QED BY <3>3, <3>7 DEF Refines
  <2>6. CASE /\ r # Absent /\ ~SameAsLatest(r, q.value)
             /\ Decide(w, WithPut(r, q.value), VS!Assigned(q.name, NextVersion(r), q.value))
    BY <2>1, <2>2, <2>6, DecidedRefines DEF Decided, Makes
  <2> QED BY <1>2, <2>2, <2>4, <2>5, <2>6 DEF Put
<1>3. CASE CreateVersion(w)
  <2>1. Deciding(w, {"create"}) /\ call[w].got \in Copy
    BY <1>3 DEF CreateVersion
  <2>2. PICK q \in Request, r \in Record \cup {Absent} :
             q = op[w].req /\ q.kind = "create" /\ r = Loaded(w) /\ r = vault[q.name].val
    BY <2>1, DecidingVault
  <2>3. CASE r = Absent /\ Decide(w, NewRecord(q.version, q.value),
                                  VS!Assigned(q.name, q.version, q.value))
    BY <2>1, <2>2, <2>3, DecidedRefines DEF Decided, Makes
  <2>4. CASE /\ r # Absent /\ ~IsClaimed(r, q.version)
             /\ Decide(w, WithVersion(r, q.version, q.value),
                       VS!Assigned(q.name, q.version, q.value))
    BY <2>1, <2>2, <2>4, DecidedRefines DEF Decided, Makes
  <2> QED BY <1>3, <1>r, <2>1, <2>2, <2>3, <2>4 DEF CreateVersion
<1>4. CASE Activate(w)
  <2>1. Deciding(w, {"activate"}) /\ call[w].got \in Copy
    BY <1>4 DEF Activate
  <2>2. PICK q \in Request, r \in Record \cup {Absent} :
             q = op[w].req /\ q.kind = "activate" /\ r = Loaded(w) /\ r = vault[q.name].val
    BY <2>1, DecidingVault
  <2>3. CASE IsInactive(r, q.version) /\ Decide(w, WithActive(r, q.version), {})
    BY <2>1, <2>2, <2>3, DecidedRefines DEF Decided, Makes
  <2> QED BY <1>4, <1>r, <2>1, <2>2, <2>3 DEF Activate
<1>5. CASE DeleteVersion(w)
  <2>1. Deciding(w, {"deleteVersion"}) /\ call[w].got \in Copy
    BY <1>5 DEF DeleteVersion
  <2>2. PICK q \in Request, r \in Record \cup {Absent} :
             q = op[w].req /\ q.kind = "deleteVersion" /\ r = Loaded(w) /\ r = vault[q.name].val
    BY <2>1, DecidingVault
  <2>3. CASE IsInactive(r, q.version) /\ Decide(w, WithoutVersion(r, q.version), {})
    BY <2>1, <2>2, <2>3, DecidedRefines DEF Decided, Makes
  <2> QED BY <1>5, <1>r, <2>1, <2>2, <2>3 DEF DeleteVersion
<1> QED BY <1>1, <1>2, <1>3, <1>4, <1>5

\* A writer that leaves the vault as it is, with or without the cache.
LEMMA EndRefines ==
    ASSUME Typed, SnapshotsArePast, Serial, NEW w \in Writers,
           NEW k, call' = [call EXCEPT ![w] = k], k.pc \in {"idle", "removed"},
           UNCHANGED <<vault, told>>,
           \/ seq' = seq + 1
           \/ seq' = seq /\ call[w].pc \notin {"saved", "deleted"},
           Unlock(w) \/ (op' = op /\ k.pc = "removed")
    PROVE  Refines
<1>1. /\ \A v \in Writers \ {w} : op'[v] = op[v]
      /\ Unlock(w) => op'[w] = NoOp
  BY DEF Unlock, Typed, StoreTypeOK
<1>2. call'[w] = k /\ NoOp.plan = None
  BY DEF NoOp, Typed, StoreTypeOK, TypeOK
<1>3. ~Saving(w)'
  BY <1>1, <1>2 DEF Saving, At
<1>4. ToldExist'
  BY DEF Serial, ToldExist
<1>5. Serial'
  BY <1>1, <1>3, <1>4, QuietSerial
<1> QED BY <1>5, SameVault DEF Refines

LEMMA FailedRefines ==
    ASSUME Typed, SnapshotsArePast, Serial, NEW w \in Writers, At(w, "idle"), Unlock(w),
           UNCHANGED <<cacheVars, told>>
    PROVE  Refines
<1>1. UNCHANGED <<vault, told>> /\ seq' = seq /\ call[w].pc = "idle"
  BY DEF cacheVars, vars, At
<1>2. call' = [call EXCEPT ![w] = call[w]]
  BY DEF cacheVars, vars, Typed, StoreTypeOK, TypeOK
<1> QED BY <1>1, <1>2, EndRefines

LEMMA SaveRefines ==
    ASSUME Typed, SnapshotsArePast, Serial, ~Ambiguous, NEW w \in Writers,
           SaveOK(w) \/ SaveFails(w) \/ SaveLost(w) \/ SaveReturns(w)
    PROVE  Refines
<1>1. CASE SaveOK(w)
  <2>1. /\ Saving(w) /\ op' = op /\ SaveInner(w, op[w].req.name, op[w].plan.rec)
        /\ VS!Accepts(op[w].plan.rec)
        /\ told' = (told \ Forgotten(op[w].req)) \cup op[w].plan.new
    BY <1>1 DEF SaveOK
  <2>2. /\ lock = w /\ op[w].req \in Request /\ op[w].req.kind # "delete"
        /\ op[w].plan \in Plan
        /\ Decided(op[w].req, vault[op[w].req.name].val, op[w].plan)
    BY <2>1, MutatingTypes DEF Serial, PlansAreTrue
  <2>3. PICK q \in Request, p \in Plan : q = op[w].req /\ p = op[w].plan
    BY <2>2
  <2>4. PICK r : r = vault[q.name].val
    OBVIOUS
  <2>5. /\ q.kind # "delete" /\ Decided(q, r, p) /\ VS!Accepts(p.rec)
        /\ Change(q.name, p.rec) /\ told' = (told \ Forgotten(q)) \cup p.new
    BY <2>1, <2>2, <2>3, <2>4 DEF SaveInner
  <2>6. VS!Next
    BY <2>4, <2>5, SaveIsAStep
  <2>7. /\ q.name \in Names /\ p.rec \in Data /\ p.rec # Absent
        /\ vault'[q.name].val = p.rec /\ \A m \in Names \ {q.name} : vault'[m] = vault[m]
    BY <2>5, RequestTypes, PlanTypes, ChangedVault
  <2>8. \A t \in p.new : t.name = q.name
    BY <2>5 DEF Decided, Makes, VS!Assigned
  <2>9. ToldExist'
    <3>1. \A t \in told : t.name \in Names /\ vault[t.name].val # Absent
      BY DEF Serial, ToldExist, Typed, StoreTypeOK, VS!Promise
    <3>2. \A t \in told' : t.name = q.name \/ t \in told
      BY <2>5, <2>8
    <3> QED BY <2>7, <3>1, <3>2 DEF ToldExist
  <2>10. PICK k : call' = [call EXCEPT ![w] = k] /\ k.pc = "saved" /\ k.obj = q.name
    <3> DEFINE k == [Idle EXCEPT !.pc = "saved", !.obj = q.name, !.got = vault'[q.name]]
    <3>1. k.pc = "saved" /\ k.obj = q.name
      BY DEF Idle
    <3>2. call' = [call EXCEPT ![w] = k]
      BY <2>1, <2>3 DEF SaveInner
    <3> HIDE DEF k
    <3> QED BY <3>1, <3>2
  <2>11. At(w, "idle") /\ seq' = seq
    BY <2>1 DEF SaveInner
  <2>12. Serial'
    BY <2>1, <2>2, <2>7, <2>9, <2>10, <2>11, MutateSerial
  <2> QED BY <2>6, <2>12 DEF Refines
<1>2. CASE SaveFails(w)
  BY <1>2, FailedRefines DEF SaveFails, Saving
<1>3. CASE SaveLost(w)
  BY <1>3 DEF SaveLost
<1>4. CASE SaveReturns(w)
  <2>1. SaveCommit(w) /\ Unlock(w) /\ told' = told
    BY <1>4 DEF SaveReturns
  <2>2. call' = [call EXCEPT ![w] = Idle] /\ Idle.pc = "idle" /\ seq' = seq + 1 /\ vault' = vault
    BY <2>1 DEF SaveCommit, Idle, Bumped
  <2> QED BY <2>1, <2>2, EndRefines
<1> QED BY <1>1, <1>2, <1>3, <1>4

LEMMA DeleteRefines ==
    ASSUME Typed, SnapshotsArePast, Serial, ~Ambiguous, NEW w \in Writers,
           DeleteOK(w) \/ DeleteFails(w) \/ DeleteLost(w) \/ DeleteEvicts(w) \/ DeleteReturns(w)
    PROVE  Refines
<1>1. CASE DeleteOK(w)
  <2>1. /\ Deleting(w) /\ op' = op /\ DeleteInner(w, op[w].req.name)
        /\ told' = told \ Forgotten(op[w].req)
    BY <1>1 DEF DeleteOK
  <2>2. lock = w /\ op[w].req \in Request /\ op[w].req.kind = "delete"
    BY <2>1, MutatingTypes
  <2>3. PICK q \in Request : q = op[w].req /\ q.kind = "delete"
    BY <2>2
  <2>4. q.name \in Names /\ q.name \notin ConfigNames
    BY <2>3, RequestTypes
  <2>5. told' = {t \in told : t.name # q.name}
    BY <2>1, <2>3 DEF Forgotten
  <2>6. PICK k : call' = [call EXCEPT ![w] = k] /\ k.pc = "deleted" /\ k.obj = q.name
    <3> DEFINE k == [Idle EXCEPT !.pc = "deleted", !.obj = q.name, !.got = vault'[q.name]]
    <3>1. k.pc = "deleted" /\ k.obj = q.name
      BY DEF Idle
    <3>2. call' = [call EXCEPT ![w] = k]
      BY <2>1, <2>3 DEF DeleteInner
    <3> HIDE DEF k
    <3> QED BY <3>1, <3>2
  <2>7. At(w, "idle") /\ seq' = seq
    BY <2>1 DEF DeleteInner
  <2>8. \A t \in told : t.name \in Names /\ vault[t.name].val # Absent
    BY DEF Serial, ToldExist, Typed, StoreTypeOK, VS!Promise
  <2>9. CASE vault[q.name].val = Absent /\ UNCHANGED vault
    <3>1. told' = told
      BY <2>5, <2>8, <2>9
    <3>2. ToldExist' /\ \A m \in Names \ {q.name} : vault'[m] = vault[m]
      BY <2>9, <3>1 DEF Serial, ToldExist
    <3>3. Serial'
      BY <2>1, <2>2, <2>4, <2>6, <2>7, <3>2, MutateSerial
    <3> QED BY <2>9, <3>1, <3>3, SameVault DEF Refines
  <2>10. CASE vault[q.name].val # Absent /\ Change(q.name, Absent)
    <3>1. /\ Seen' = [Seen EXCEPT ![q.name] = Absent] /\ Seen[q.name] = vault[q.name].val
          /\ \A m \in Names \ {q.name} : vault'[m] = vault[m]
      BY <2>4, <2>10, ChangedVault
    <3>2. ToldExist'
      BY <2>5, <2>8, <3>1 DEF ToldExist
    <3>3. Serial'
      BY <2>1, <2>2, <2>4, <2>6, <2>7, <3>1, <3>2, MutateSerial
    <3>4. VS!Exists(q.name)
      BY <2>10, <3>1 DEF VS!Exists, Seen
    <3>5. VS!Delete(q.name)
      BY <2>4, <2>5, <3>1, <3>4 DEF VS!Delete, Seen
    <3>6. VS!Next
      BY <2>4, <3>5 DEF VS!Next
    <3> QED BY <3>3, <3>6 DEF Refines
  <2> QED BY <2>1, <2>3, <2>9, <2>10 DEF DeleteInner
<1>2. CASE DeleteFails(w)
  BY <1>2, FailedRefines DEF DeleteFails, Deleting
<1>3. CASE DeleteLost(w)
  BY <1>3 DEF DeleteLost
<1>4. CASE DeleteEvicts(w)
  <2>1. DeleteRemove(w) /\ UNCHANGED <<lock, op, told>>
    BY <1>4 DEF DeleteEvicts
  <2> DEFINE k == [call[w] EXCEPT !.pc = "removed"]
  <2>2. call' = [call EXCEPT ![w] = k] /\ k.pc = "removed" /\ seq' = seq + 1 /\ vault' = vault
    BY <2>1 DEF DeleteRemove, Bumped, Typed, StoreTypeOK, TypeOK, Call
  <2> HIDE DEF k
  <2> QED BY <2>1, <2>2, EndRefines
<1>5. CASE DeleteReturns(w)
  <2>1. DeleteNames(w) /\ Unlock(w) /\ told' = told
    BY <1>5 DEF DeleteReturns
  <2>2. /\ call' = [call EXCEPT ![w] = Idle] /\ Idle.pc = "idle" /\ seq' = seq /\ vault' = vault
        /\ call[w].pc = "removed"
    BY <2>1 DEF DeleteNames, Idle, At
  <2> QED BY <2>1, <2>2, EndRefines
<1> QED BY <1>1, <1>2, <1>3, <1>4, <1>5

LEMMA LoadRefines ==
    ASSUME Typed, Serial, UNCHANGED <<lock, op, told>>,
           \/ \E w \in Writers : LoadGoesOn(w)
           \/ \E c \in Callers \ Writers : LoadNext(c)
    PROVE  Refines
<1>t. TypeOK
  BY DEF Typed, StoreTypeOK
<1>1. PICK c \in Callers : /\ \A d \in Callers : Advances(d, c)
                           /\ c \in Writers => ~Turns(c)
                           /\ UNCHANGED <<vault, clock, seq, owed>>
  <2>1. ASSUME NEW w \in Writers, LoadGoesOn(w)
        PROVE  /\ w \in Callers /\ ~Turns(w) /\ \A d \in Callers : Advances(d, w)
               /\ UNCHANGED <<vault, clock, seq, owed>>
    <3>1. w \in Callers
      OBVIOUS
    <3> QED BY <1>t, <2>1, <3>1, GoesOnEffect
  <2>2. ASSUME NEW c \in Callers \ Writers, LoadNext(c)
        PROVE  /\ \A d \in Callers : Advances(d, c)
               /\ UNCHANGED <<vault, clock, seq, owed>>
    BY <1>t, <2>2, LoadEffect
  <2> QED BY <2>1, <2>2
<1>2. Serial'
  BY <1>1, LoadSerial
<1> QED BY <1>1, <1>2, SameVault DEF Refines

LEMMA AroundRefines ==
    ASSUME Typed, SnapshotsArePast, Serial, UNCHANGED <<lock, op, told>>, Around
    PROVE  Refines
<1>1. UNCHANGED <<vault, told>>
  BY DEF Around, Remove, Purge, Expire
<1> QED BY <1>1, AroundSerial, SameVault DEF Refines

LEMMA StepRefines ==
    ASSUME Typed, SnapshotsArePast, Serial, ~Ambiguous, [StoreNext]_storeVars
    PROVE  Refines
<1>1. CASE UNCHANGED storeVars
  <2>1. UNCHANGED vars /\ UNCHANGED <<lock, op, told>> /\ UNCHANGED <<vault, told>>
    BY <1>1 DEF storeVars, vars
  <2>2. Serial'
    BY <2>1 DEF vars, Serial, FlightsAreTrue, JoinsAreTrue, WriteStartsFromVault, PlansAreTrue,
                ToldExist, HasCopy, At, InWrite, SameFlight, Saving
  <2> QED BY <2>1, <2>2, SameVault DEF Refines
<1>2. CASE StoreNext
  BY <1>2, BeginRefines, DecisionRefines, SaveRefines, DeleteRefines, LoadRefines, AroundRefines
     DEF StoreNext, WriterNext, WriteStep, OthersNext, Around
<1> QED BY <1>1, <1>2

\* While no write is applied and yet reported as failed, every write computes from the
\* record in the vault, whatever flights and evictions cross its load (store.go
\* Store.mu, WithForceRefresh).
THEOREM WritesStartFromVault ==
    ASSUME ~Ambiguous
    PROVE  StoreSpec => []WriteStartsFromVault
<1>1. StoreInit => Typed /\ Serial
  BY InitTyped, InitSerial
<1>2. Typed /\ SnapshotsArePast /\ Serial /\ [StoreNext]_storeVars => Typed' /\ Serial'
  BY StepKeeps, StepRefines DEF Keeps, Refines
<1>3. Inductive => SnapshotsArePast
  BY DEF Inductive
<1>4. Serial => WriteStartsFromVault
  BY DEF Serial
<1> QED BY <1>1, <1>2, <1>3, <1>4, StoreKeepsTheCache, PTL DEF StoreSpec

\* Then the store over its cache implements the atomic store, for any number of
\* writers, readers and secrets (store.Store, backend/cache).
THEOREM StoreIsAtomic ==
    ASSUME ~Ambiguous
    PROVE  StoreSpec => Implements
<1>1. StoreInit => Typed /\ Serial /\ VS!Init
  <2>1. StoreInit => VS!Init
    BY DEF StoreInit, VS!Init
  <2> QED BY <2>1, InitTyped, InitSerial
<1>2. Typed /\ SnapshotsArePast /\ Serial /\ [StoreNext]_storeVars
          => Typed' /\ Serial' /\ [VS!Next]_(VS!vars)
  BY StepKeeps, StepRefines DEF Keeps, Refines
<1>3. Inductive => SnapshotsArePast
  BY DEF Inductive
<1> QED BY <1>1, <1>2, <1>3, StoreKeepsTheCache, PTL DEF StoreSpec, Implements, VS!Spec

----------------------------------------------------------------------------
(* Whatever failed writes were applied, records stay sound *)

Sound(x) == x # Absent => RecordOK(x)

\* The vault, what is under way from it, and what a write would save if the backend
\* accepts it.
CopiesAreSound ==
    /\ RecordsAreSound
    /\ \A c \in Callers : HasCopy(c) /\ call[c].obj \in Names => Sound(call[c].got.val)
    /\ \A w \in Writers : At(w, "done") /\ call[w].got \in Copy => Sound(call[w].got.val)
    /\ \A w \in Writers :
          op[w].plan # None => (ValidRecord(op[w].plan.rec) => RecordOK(op[w].plan.rec))

\* Every change that the store makes to a sound record is sound, or refused: what
\* matters is the record it was given, not whether that is still the vault's.
LEMMA DecidedSound ==
    ASSUME NEW q \in Request, NEW r \in Record \cup {Absent}, Sound(r), NEW p, Decided(q, r, p),
           ValidRecord(p.rec)
    PROVE  RecordOK(p.rec)
<1>1. /\ q.version \in Version
      /\ q.kind \in {"put", "create"} => q.value \in Values
      /\ q.kind # "put" /\ q.kind # "delete" => q.version # 0
  BY RequestTypes
<1>2. ASSUME q.kind = "put", r = Absent, p.rec = NewRecord(1, q.value) PROVE RecordOK(p.rec)
  BY <1>1, <1>2, OneIsAVersion, NewRecordOK
<1>3. ASSUME q.kind = "put", r # Absent, p.rec = WithPut(r, q.value) PROVE RecordOK(p.rec)
  BY <1>1, <1>3, PutOK DEF Sound
<1>4. ASSUME q.kind = "create", r = Absent, p.rec = NewRecord(q.version, q.value)
      PROVE  RecordOK(p.rec)
  BY <1>1, <1>4, NewRecordOK
<1>5. ASSUME q.kind = "create", r # Absent, ~IsClaimed(r, q.version),
             p.rec = WithVersion(r, q.version, q.value)
      PROVE  RecordOK(p.rec)
  BY <1>1, <1>5, CreateOK DEF Sound
<1>6. ASSUME IsInactive(r, q.version), p.rec = WithActive(r, q.version) PROVE RecordOK(p.rec)
  BY <1>6, ActivateOK DEF Sound, IsInactive
<1>7. ASSUME IsInactive(r, q.version), p.rec = WithoutVersion(r, q.version)
      PROVE  RecordOK(p.rec)
  BY <1>1, <1>7, DeleteVersionOK DEF Sound, IsInactive
<1> QED BY <1>2, <1>3, <1>4, <1>5, <1>6, <1>7 DEF Decided, Makes

LEMMA LoadSound ==
    ASSUME Typed, CopiesAreSound, NEW c \in Callers, \A d \in Callers : Advances(d, c),
           c \in Writers => ~Turns(c), UNCHANGED <<vault, clock, seq, owed, lock, op, told>>
    PROVE  CopiesAreSound'
<1>1. RecordsAreSound'
  BY DEF CopiesAreSound, RecordsAreSound
<1>2. ASSUME NEW d \in Callers, HasCopy(d)', call'[d].obj \in Names
      PROVE  Sound(call'[d].got.val)
  <2>1. (call'[d] = call[d] /\ HasCopy(d)) \/ Fetches(d)
    BY <1>2 DEF HasCopy, At, Advances, Keys, Enters, GivesUp, Turns, LandsOf
  <2>2. CASE Fetches(d)
    <3>1. call'[d].got = vault[call'[d].obj]
      BY <1>2, <2>2 DEF Fetches, SameCall, HasCopy, Fails, Current
    <3> QED BY <1>2, <3>1 DEF CopiesAreSound, RecordsAreSound, Sound
  <2> QED BY <1>2, <2>1, <2>2 DEF CopiesAreSound
<1>3. ASSUME NEW w \in Writers, At(w, "done")', call'[w].got \in Copy
      PROVE  Sound(call'[w].got.val)
  <2>1. CASE call'[w] = call[w]
    BY <1>3, <2>1 DEF CopiesAreSound, At
  <2>2. CASE LandsOf(w, c)
    <3>1. /\ call[w].pc \in Loading /\ HasCopy(c) /\ call[c].obj = call[w].obj
          /\ call'[w].got = call[c].got
      BY <1>3, <2>2 DEF LandsOf, HasCopy, Loading, SameFlight
    <3> QED BY <3>1, WriterLoads DEF CopiesAreSound
  <2>3. CASE GivesUp(w)
    <3>1. call[w].force
      BY <2>3, WriterLoads DEF GivesUp, At, Loading
    <3> QED BY <1>3, <2>3, <3>1 DEF GivesUp
  <2> QED BY <1>3, <2>1, <2>2, <2>3 DEF Advances, Keys, Enters, Fetches, At
<1> QED BY <1>1, <1>2, <1>3 DEF CopiesAreSound

\* The writer w moves, outside of the load.
LEMMA MovesSound ==
    ASSUME Typed, CopiesAreSound, NEW w \in Writers, NEW k, call' = [call EXCEPT ![w] = k],
           k.pc \notin {"fetched", "done"}, RecordsAreSound',
           \A v \in Writers \ {w} : op'[v] = op[v],
           op'[w].plan # None => (ValidRecord(op'[w].plan.rec) => RecordOK(op'[w].plan.rec))
    PROVE  CopiesAreSound'
<1>1. call'[w] = k /\ \A d \in Callers : d # w => call'[d] = call[d]
  BY DEF Typed, StoreTypeOK, TypeOK
<1>2. \A d \in Callers : HasCopy(d)' => call'[d] = call[d] /\ HasCopy(d)
  BY <1>1 DEF HasCopy, At
<1>3. \A v \in Writers : At(v, "done")' => call'[v] = call[v]
  BY <1>1 DEF At
<1> QED BY <1>2, <1>3 DEF CopiesAreSound, At

\* The write ends.
LEMMA EndsSound ==
    ASSUME Typed, CopiesAreSound, NEW w \in Writers, NEW k, call' = [call EXCEPT ![w] = k],
           k.pc = "idle", Unlock(w), RecordsAreSound'
    PROVE  CopiesAreSound'
<1>1. op'[w].plan = None /\ \A v \in Writers \ {w} : op'[v] = op[v]
  BY DEF Unlock, NoOp, Typed, StoreTypeOK
<1> QED BY <1>1, MovesSound

LEMMA DecisionSound ==
    ASSUME Typed, CopiesAreSound, NEW w \in Writers,
           LoadFails(w) \/ Put(w) \/ CreateVersion(w) \/ Activate(w) \/ DeleteVersion(w)
    PROVE  CopiesAreSound'
<1>v. ASSUME NEW ks, Deciding(w, ks) PROVE RecordsAreSound'
  BY <1>v, DecidingTypes DEF CopiesAreSound, RecordsAreSound
<1>r. ASSUME NEW ks, Deciding(w, ks), Unlock(w) PROVE CopiesAreSound'
  BY <1>r, <1>v, DecidingTypes, EndsSound
<1>d. ASSUME NEW ks, Deciding(w, ks), call[w].got \in Copy, NEW s, NEW new, Decide(w, s, new),
             Decided(op[w].req, Loaded(w), [rec |-> s, new |-> new])
      PROVE  CopiesAreSound'
  <2>1. /\ op'[w].plan = [rec |-> s, new |-> new]
        /\ \A v \in Writers \ {w} : op'[v] = op[v]
    BY <1>d DEF Decide, Typed, StoreTypeOK
  <2>2. /\ op[w].req \in Request /\ Loaded(w) \in Record \cup {Absent} /\ Sound(Loaded(w))
        /\ call' = [call EXCEPT ![w] = Idle] /\ Idle.pc = "idle"
    BY <1>d, DecidingTypes DEF CopiesAreSound, Deciding, Loaded
  <2>3. ValidRecord(s) => RecordOK(s)
    BY <1>d, <2>2, DecidedSound
  <2>4. op'[w].plan # None => (ValidRecord(op'[w].plan.rec) => RecordOK(op'[w].plan.rec))
    BY <2>1, <2>3
  <2>5. RecordsAreSound'
    BY <1>d, <1>v
  <2> QED BY <2>1, <2>2, <2>4, <2>5, MovesSound
<1> DEFINE q == op[w].req
           r == Loaded(w)
<1>1. CASE LoadFails(w)
  <2>1. Deciding(w, {"put", "create", "activate", "deleteVersion"}) /\ Unlock(w)
    BY <1>1 DEF LoadFails, Refuse
  <2> QED BY <1>r, <2>1
<1>2. CASE Put(w)
  <2>1. Deciding(w, {"put"}) /\ call[w].got \in Copy /\ q.kind = "put"
    BY <1>2 DEF Put, Deciding
  <2>2. CASE r = Absent /\ Decide(w, NewRecord(1, q.value), VS!Assigned(q.name, 1, q.value))
    BY <1>d, <2>1, <2>2 DEF Decided, Makes
  <2>3. CASE Unlock(w)
    BY <1>r, <2>1, <2>3
  <2>4. CASE /\ r # Absent /\ ~SameAsLatest(r, q.value)
             /\ Decide(w, WithPut(r, q.value), VS!Assigned(q.name, NextVersion(r), q.value))
    BY <1>d, <2>1, <2>4 DEF Decided, Makes
  <2> QED BY <1>2, <2>2, <2>3, <2>4 DEF Put
<1>3. CASE CreateVersion(w)
  <2>1. Deciding(w, {"create"}) /\ call[w].got \in Copy /\ q.kind = "create"
    BY <1>3 DEF CreateVersion, Deciding
  <2>2. CASE /\ r = Absent
             /\ Decide(w, NewRecord(q.version, q.value), VS!Assigned(q.name, q.version, q.value))
    BY <1>d, <2>1, <2>2 DEF Decided, Makes
  <2>3. CASE /\ r # Absent /\ ~IsClaimed(r, q.version)
             /\ Decide(w, WithVersion(r, q.version, q.value),
                       VS!Assigned(q.name, q.version, q.value))
    BY <1>d, <2>1, <2>3 DEF Decided, Makes
  <2>4. CASE Refuse(w)
    BY <1>r, <2>1, <2>4 DEF Refuse
  <2> QED BY <1>3, <2>2, <2>3, <2>4 DEF CreateVersion
<1>4. CASE Activate(w)
  <2>1. Deciding(w, {"activate"}) /\ call[w].got \in Copy /\ q.kind = "activate"
    BY <1>4 DEF Activate, Deciding
  <2>2. CASE IsInactive(r, q.version) /\ Decide(w, WithActive(r, q.version), {})
    BY <1>d, <2>1, <2>2 DEF Decided, Makes
  <2>3. CASE Refuse(w)
    BY <1>r, <2>1, <2>3 DEF Refuse
  <2> QED BY <1>4, <2>2, <2>3 DEF Activate
<1>5. CASE DeleteVersion(w)
  <2>1. Deciding(w, {"deleteVersion"}) /\ call[w].got \in Copy /\ q.kind = "deleteVersion"
    BY <1>5 DEF DeleteVersion, Deciding
  <2>2. CASE IsInactive(r, q.version) /\ Decide(w, WithoutVersion(r, q.version), {})
    BY <1>d, <2>1, <2>2 DEF Decided, Makes
  <2>3. CASE Refuse(w)
    BY <1>r, <2>1, <2>3 DEF Refuse
  <2> QED BY <1>5, <2>2, <2>3 DEF DeleteVersion
<1> QED BY <1>1, <1>2, <1>3, <1>4, <1>5

\* What reaches the vault is what a plan holds and the backend accepts, or nothing.
LEMMA ChangeSound ==
    ASSUME Typed, CopiesAreSound, NEW n \in Names, NEW x \in Data \cup {Absent}, Change(n, x),
           Sound(x)
    PROVE  RecordsAreSound'
BY ChangedVault DEF CopiesAreSound, RecordsAreSound, Sound

LEMMA SaveSound ==
    ASSUME Validates, Typed, CopiesAreSound, NEW w \in Writers,
           SaveOK(w) \/ SaveFails(w) \/ SaveLost(w) \/ SaveReturns(w)
    PROVE  CopiesAreSound'
<1> DEFINE n == op[w].req.name
           d == op[w].plan.rec
<1>1. ASSUME Saving(w), VS!Accepts(d), Change(n, d) PROVE RecordsAreSound'
  <2>1. n \in Names /\ d \in Data /\ op[w].plan # None
    BY <1>1, MutatingTypes, RequestTypes, PlanTypes
  <2>2. ValidRecord(d)
    BY <1>1 DEF VS!Accepts, VS!ValidRecord, ValidRecord, VS!Live, Live, VS!Version, Version
  <2>3. Sound(d)
    BY <2>1, <2>2 DEF CopiesAreSound, Sound
  <2> QED BY <1>1, <2>1, <2>3, ChangeSound
<1>2. vault' = vault => RecordsAreSound'
  BY DEF CopiesAreSound, RecordsAreSound
<1>3. CASE SaveOK(w)
  <2>1. Saving(w) /\ SaveInner(w, n, d) /\ op' = op /\ VS!Accepts(d)
    BY <1>3 DEF SaveOK
  <2>2. PICK k : call' = [call EXCEPT ![w] = k] /\ k.pc = "saved"
    <3>1. [Idle EXCEPT !.pc = "saved", !.obj = n, !.got = vault'[n]].pc = "saved"
      BY DEF Idle
    <3> QED BY <2>1, <3>1 DEF SaveInner
  <2>3. RecordsAreSound'
    BY <1>1, <2>1 DEF SaveInner
  <2>4. op'[w].plan # None => (ValidRecord(op'[w].plan.rec) => RecordOK(op'[w].plan.rec))
    BY <2>1 DEF CopiesAreSound
  <2> QED BY <2>1, <2>2, <2>3, <2>4, MovesSound
<1>4. CASE SaveFails(w) \/ SaveLost(w)
  <2>1. call' = call /\ At(w, "idle") /\ Unlock(w) /\ RecordsAreSound'
    BY <1>1, <1>2, <1>4 DEF SaveFails, SaveLost, Saving, cacheVars, vars
  <2>2. call' = [call EXCEPT ![w] = call[w]] /\ call[w].pc = "idle"
    BY <2>1 DEF Typed, StoreTypeOK, TypeOK, At
  <2> QED BY <2>1, <2>2, EndsSound
<1>5. CASE SaveReturns(w)
  <2>1. /\ call' = [call EXCEPT ![w] = Idle] /\ Idle.pc = "idle" /\ Unlock(w) /\ vault' = vault
    BY <1>5 DEF SaveReturns, SaveCommit, Idle
  <2> QED BY <1>2, <2>1, EndsSound
<1> QED BY <1>3, <1>4, <1>5

LEMMA DeleteSound ==
    ASSUME Typed, CopiesAreSound, NEW w \in Writers,
           DeleteOK(w) \/ DeleteFails(w) \/ DeleteLost(w) \/ DeleteEvicts(w) \/ DeleteReturns(w)
    PROVE  CopiesAreSound'
<1> DEFINE n == op[w].req.name
<1>1. ASSUME Deleting(w), Change(n, Absent) PROVE RecordsAreSound'
  BY <1>1, MutatingTypes, RequestTypes, ChangeSound DEF Sound
<1>2. vault' = vault => RecordsAreSound'
  BY DEF CopiesAreSound, RecordsAreSound
<1>3. CASE DeleteOK(w)
  <2>1. Deleting(w) /\ DeleteInner(w, n) /\ op' = op
    BY <1>3 DEF DeleteOK
  <2>2. PICK k : call' = [call EXCEPT ![w] = k] /\ k.pc = "deleted"
    <3>1. [Idle EXCEPT !.pc = "deleted", !.obj = n, !.got = vault'[n]].pc = "deleted"
      BY DEF Idle
    <3> QED BY <2>1, <3>1 DEF DeleteInner
  <2>3. RecordsAreSound'
    BY <1>1, <1>2, <2>1 DEF DeleteInner
  <2>4. op'[w].plan # None => (ValidRecord(op'[w].plan.rec) => RecordOK(op'[w].plan.rec))
    BY <2>1 DEF CopiesAreSound
  <2> QED BY <2>1, <2>2, <2>3, <2>4, MovesSound
<1>4. CASE DeleteFails(w) \/ DeleteLost(w)
  <2>1. call' = call /\ At(w, "idle") /\ Unlock(w) /\ RecordsAreSound'
    BY <1>1, <1>2, <1>4 DEF DeleteFails, DeleteLost, Deleting, cacheVars, vars
  <2>2. call' = [call EXCEPT ![w] = call[w]] /\ call[w].pc = "idle"
    BY <2>1 DEF Typed, StoreTypeOK, TypeOK, At
  <2> QED BY <2>1, <2>2, EndsSound
<1>5. CASE DeleteEvicts(w)
  <2>1. DeleteRemove(w) /\ op' = op
    BY <1>5 DEF DeleteEvicts
  <2> DEFINE k == [call[w] EXCEPT !.pc = "removed"]
  <2>2. call' = [call EXCEPT ![w] = k] /\ k.pc = "removed" /\ vault' = vault
    BY <2>1 DEF DeleteRemove, Typed, StoreTypeOK, TypeOK, Call
  <2> HIDE DEF k
  <2>3. op'[w].plan # None => (ValidRecord(op'[w].plan.rec) => RecordOK(op'[w].plan.rec))
    BY <2>1 DEF CopiesAreSound
  <2> QED BY <1>2, <2>1, <2>2, <2>3, MovesSound
<1>6. CASE DeleteReturns(w)
  <2>1. call' = [call EXCEPT ![w] = Idle] /\ Idle.pc = "idle" /\ Unlock(w) /\ vault' = vault
    BY <1>6 DEF DeleteReturns, DeleteNames, Idle
  <2> QED BY <1>2, <2>1, EndsSound
<1> QED BY <1>3, <1>4, <1>5, <1>6

LEMMA StepSound ==
    ASSUME Validates, Typed, CopiesAreSound, [StoreNext]_storeVars
    PROVE  CopiesAreSound'
<1>1. ASSUME call' = call, vault' = vault, op' = op PROVE CopiesAreSound'
  BY <1>1 DEF CopiesAreSound, RecordsAreSound, HasCopy, At
<1>2. CASE UNCHANGED storeVars
  BY <1>1, <1>2 DEF storeVars, vars
<1>3. ASSUME NEW w \in Writers, NEW q \in Request, Begin(w, q) PROVE CopiesAreSound'
  <2>1. /\ op[w].plan = None /\ op' = [op EXCEPT ![w].req = q] /\ At(w, "idle")
        /\ vault' = vault
    BY <1>3 DEF Begin, NoOp, cacheVars, vars, Miss
  <2>2. op'[w].plan = None /\ \A v \in Writers \ {w} : op'[v] = op[v]
    BY <2>1 DEF Typed, StoreTypeOK
  <2>3. PICK k : call' = [call EXCEPT ![w] = k] /\ k.pc \in {"idle", "missed"}
    <3>1. CASE UNCHANGED cacheVars
      <4>1. call' = [call EXCEPT ![w] = call[w]] /\ call[w].pc = "idle"
        BY <2>1, <3>1 DEF cacheVars, vars, Typed, StoreTypeOK, TypeOK, At
      <4> QED BY <4>1
    <3>2. CASE Miss(w, q.name, TRUE)
      <4>1. [Idle EXCEPT !.pc = "missed", !.obj = q.name, !.force = TRUE,
                         !.floor = owed[q.name]].pc = "missed"
        BY DEF Idle
      <4> QED BY <3>2, <4>1 DEF Miss
    <3> QED BY <1>3, <3>1, <3>2 DEF Begin
  <2>4. RecordsAreSound'
    BY <2>1 DEF CopiesAreSound, RecordsAreSound
  <2> QED BY <2>2, <2>3, <2>4, MovesSound
<1>4. ASSUME UNCHANGED <<lock, op, told>>,
             \/ \E w \in Writers : LoadGoesOn(w)
             \/ \E c \in Callers \ Writers : LoadNext(c)
      PROVE  CopiesAreSound'
  <2>1. TypeOK
    BY DEF Typed, StoreTypeOK
  <2>2. ASSUME NEW w \in Writers, LoadGoesOn(w) PROVE CopiesAreSound'
    <3>1. w \in Callers
      OBVIOUS
    <3>2. /\ \A d \in Callers : Advances(d, w) /\ (d = w => ~Turns(d))
          /\ UNCHANGED <<vault, clock, seq, owed>>
      BY <2>1, <2>2, <3>1, GoesOnEffect
    <3> QED BY <1>4, <3>1, <3>2, LoadSound
  <2>3. ASSUME NEW c \in Callers \ Writers, LoadNext(c) PROVE CopiesAreSound'
    BY <1>4, <2>1, <2>3, LoadEffect, LoadSound
  <2> QED BY <1>4, <2>2, <2>3
<1>5. ASSUME UNCHANGED <<lock, op, told>>, Around PROVE CopiesAreSound'
  <2>1. call' = call /\ vault' = vault
    BY <1>5 DEF Around, Remove, Purge, Expire
  <2> QED BY <1>1, <1>5, <2>1
<1>6. CASE StoreNext
  BY <1>3, <1>4, <1>5, <1>6, DecisionSound, SaveSound, DeleteSound
     DEF StoreNext, WriterNext, WriteStep, OthersNext, Around
<1> QED BY <1>2, <1>6

\* Over 1Password the vault only ever holds records the API can serve, under any writers
\* and readers, and also when a failed write was applied and the next one starts from
\* an older record (store.go, cache.go).
THEOREM StoreKeepsRecordsSound ==
    ASSUME Validates
    PROVE  StoreSpec => []RecordsAreSound
<1>1. StoreInit => Typed /\ CopiesAreSound
  <2> SUFFICES ASSUME StoreInit PROVE CopiesAreSound
    BY InitTyped
  <2>1. \A c \in Callers : call[c].pc = "idle"
    BY DEF StoreInit, Init, Idle
  <2>2. RecordsAreSound
    BY DEF StoreInit, RecordsAreSound
  <2>3. \A w \in Writers : op[w].plan = None
    BY DEF StoreInit, NoOp
  <2> QED BY <2>1, <2>2, <2>3 DEF CopiesAreSound, HasCopy, At
<1>2. Typed /\ CopiesAreSound /\ [StoreNext]_storeVars => Typed' /\ CopiesAreSound'
  BY StepKeeps, StepSound DEF Keeps
<1>3. CopiesAreSound => RecordsAreSound
  BY DEF CopiesAreSound
<1> QED BY <1>1, <1>2, <1>3, PTL DEF StoreSpec

----------------------------------------------------------------------------
(* What is proved of the abstract store holds of the store over its cache. *)

\* The abstract store again, with the theorems about it.
VSP == INSTANCE VersionStore_proofs WITH vault <- [n \in Names |-> vault[n].val]

\* VS and VSP name the same store.
LEMMA SameInit == VS!Init <=> VSP!Init
BY DEF VS!Init, VSP!Init

LEMMA SameNext == [VS!Next]_(VS!vars) <=> [VSP!Next]_(VSP!vars)
BY DEF VS!Record, VSP!Record, VS!Version, VSP!Version, VS!Live, VSP!Live,
       VS!IsClaimed, VSP!IsClaimed, VS!ValidRecord, VSP!ValidRecord, VS!NewRecord,
       VSP!NewRecord, VS!NextVersion, VSP!NextVersion, VS!WithPut, VSP!WithPut,
       VS!SameAsLatest, VSP!SameAsLatest, VS!WithVersion, VSP!WithVersion,
       VS!WithActive, VSP!WithActive, VS!WithoutVersion, VSP!WithoutVersion,
       VS!vars, VSP!vars, VS!Promise, VSP!Promise, VS!Exists, VSP!Exists,
       VS!Accepts, VSP!Accepts, VS!Save, VSP!Save, VS!Assigned, VSP!Assigned,
       VS!Put, VSP!Put, VS!MayCreate, VSP!MayCreate, VS!CreateVersion,
       VSP!CreateVersion, VS!Activate, VSP!Activate, VS!MayDelete, VSP!MayDelete,
       VS!DeleteVersion, VSP!DeleteVersion, VS!Delete, VSP!Delete, VS!Next,
       VSP!Next

LEMMA SamePromises == VS!AcknowledgedKept <=> VSP!AcknowledgedKept
BY DEF VS!AcknowledgedKept, VSP!AcknowledgedKept, VS!Exists, VSP!Exists

LEMMA SameSteps ==
    /\ VS!ClaimedForever <=> VSP!ClaimedForever
    /\ VS!LatestNeverDecreases <=> VSP!LatestNeverDecreases
BY DEF VS!ClaimedForever, VSP!ClaimedForever, VS!LatestNeverDecreases,
       VSP!LatestNeverDecreases, VS!KeepsClaims, VSP!KeepsClaims, VS!Exists, VSP!Exists,
       VS!IsClaimed, VSP!IsClaimed, VS!Live, VSP!Live, VS!Version, VSP!Version,
       VS!vars, VSP!vars

\* The assumptions under which VersionStore's theorems hold, here.
LEMMA StoreAssumptions == /\ ConfigNames \subseteq Names /\ Validates \in BOOLEAN
                          /\ Absent \notin VSP!Record
                          /\ Stored \in [Names -> VSP!Record \cup {Absent}]
                          /\ \A n \in Names : Stored[n] # Absent => VSP!RecordOK(Stored[n])
<1>1. VSP!Record = Record
  BY DEF VSP!Record, VSP!Version, Record, Version
<1>2. \A r : VSP!RecordOK(r) <=> RecordOK(r)
  BY DEF VSP!RecordOK, VSP!IsClaimed, VSP!Live, VSP!Version, RecordOK, IsClaimed, Live, Version
<1> QED BY <1>1, <1>2, StoreCacheAssumption, CacheAssumption

\* Over 1Password, and while no write is applied and reported as failed, an
\* assignment that a caller was told of stays in the vault until it is deleted,
\* whatever the cache served in between (store.Store over cache.Cache).
THEOREM StoreKeepsWhatItAcknowledged ==
    ASSUME ~Ambiguous, Validates
    PROVE  StoreSpec => []VS!AcknowledgedKept
<1>1. VSP!Spec => []VSP!AcknowledgedKept
  BY StoreAssumptions, VSP!AcknowledgedWritesAreKept, RecordAssumption
<1> QED
  BY <1>1, SameInit, SameNext, SamePromises, StoreIsAtomic, PTL
     DEF Implements, VS!Spec, VSP!Spec

\* Under the same conditions no write takes a claim, frees a version's number, or gives
\* a live version another value: two writers that race for a version, each over its own
\* load, cannot both get it (store.go Put, CreateVersion, DeleteVersion).
THEOREM StoreKeepsClaims ==
    ASSUME ~Ambiguous, Validates
    PROVE  StoreSpec => VS!ClaimedForever
<1>1. VSP!Spec => VSP!ClaimedForever
  BY StoreAssumptions, VSP!ClaimsAreForever, RecordAssumption
<1> QED
  BY <1>1, SameInit, SameNext, SameSteps, StoreIsAtomic, PTL
     DEF Implements, VS!Spec, VSP!Spec

\* And Latest never decreases (backend.Record.Latest, store.go).
THEOREM StoreKeepsLatest ==
    ASSUME ~Ambiguous, Validates
    PROVE  StoreSpec => VS!LatestNeverDecreases
<1>1. VSP!Spec => VSP!LatestNeverDecreases
  BY StoreAssumptions, VSP!LatestIsMonotone, RecordAssumption
<1> QED
  BY <1>1, SameInit, SameNext, SameSteps, StoreIsAtomic, PTL
     DEF Implements, VS!Spec, VSP!Spec

\* A read through the cache under the store's writers is never older than the writes
\* completed before it began, whatever writes failed and may have been applied besides
\* (store.go Get, cache.go Load).
THEOREM StoreReadsFollowWrites == StoreSpec => []ReadAfterWrite
BY StoreUsesTheCache, ReadsFollowWrites, PTL
=============================================================================
