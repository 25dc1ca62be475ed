---------------------------- MODULE Cache_proofs ----------------------------
(***************************************************************************)
(* Proofs about Cache for every set of names, callers and values, every    *)
(* capacity of the cache and every bound on the clock and the sequence.    *)
(***************************************************************************)
EXTENDS Cache, TLAPS

USE CacheAssumption, SentinelAssumption

----------------------------------------------------------------------------
(* Types *)

\* The goroutine that returns is in no call, and one with an answer is typed.
LEMMA AnswerTypes ==
    /\ Idle \in Call /\ CallOK(Idle)
    /\ \A r \in Copy \cup Fails, f \in Nat :
          /\ Answered(r, f) \in Call /\ CallOK(Answered(r, f))
          /\ Answered(r, f).pc = "done" /\ Answered(r, f).got = r /\ Answered(r, f).floor = f
<1>1. None \notin Copy \cup Fails
  OBVIOUS
<1> QED
  BY <1>1 DEF Idle, Answered, Call, CallOK, Loading, Writing

\* What the inner backend answers is a copy.
LEMMA CurrentType ==
    ASSUME TypeOK, NEW o \in Objects
    PROVE  Current(o) \in Copy
BY DEF TypeOK, Current, Copy, Objects

\* Adding an entry to the cache gives it its name and at most evicts others.
LEMMA AddingLemma ==
    ASSUME TypeOK, NEW n \in Names, NEW e \in Entry, NEW m \in Adding(n, e)
    PROVE  /\ m \in [Objects -> Entry \cup {None}]
           /\ m[n] = e
           /\ \A o \in Objects \ {n} : m[o] \in {cache[o], None}
<1>1. n \in Objects /\ Resident \subseteq Objects /\ cache \in [Objects -> Entry \cup {None}]
  BY DEF TypeOK, Objects, Resident
<1>2. CASE m = [cache EXCEPT ![n] = e]
  BY <1>1, <1>2
<1>3. CASE cache[n] = None /\ \E k \in Resident : m = [cache EXCEPT ![n] = e, ![k] = None]
  <2>1. PICK k \in Resident : m = [cache EXCEPT ![n] = e, ![k] = None]
    BY <1>3
  <2>2. k # n
    BY <1>3 DEF Resident
  <2> QED
    BY <1>1, <2>1, <2>2
<1> QED
  BY <1>2, <1>3 DEF Adding

\* A fill puts the fetched copy at its object, or leaves nothing there.
LEMMA FillingLemma ==
    ASSUME TypeOK, NEW o \in Objects, NEW r \in Copy, NEW m \in Filling(o, r)
    PROVE  /\ m \in [Objects -> Entry \cup {None}]
           /\ m[o] \in {Fresh(r), None}
           /\ \A p \in Objects \ {o} : m[p] \in {cache[p], None}
<1>1. Fresh(r) \in Entry /\ cache \in [Objects -> Entry \cup {None}]
  BY DEF Fresh, Entry, TypeOK
<1>2. CASE m = [cache EXCEPT ![o] = Fresh(r)] \/ m = [cache EXCEPT ![o] = None]
  BY <1>1, <1>2
<1>3. CASE o \in Names /\ m \in Adding(o, Fresh(r))
  BY <1>1, <1>3, AddingLemma
<1> QED
  BY <1>2, <1>3 DEF Filling, Objects

\* The state of the cache and the phases of its calls are as declared.
LEMMA TypeStep == TypeOK /\ [Next]_vars => TypeOK'
<1> SUFFICES ASSUME TypeOK, [Next]_vars PROVE TypeOK'
  OBVIOUS
<1> USE DEF TypeOK
<1>c. /\ call \in [Callers -> Call] /\ cache \in [Objects -> Entry \cup {None}]
      /\ owed \in [Objects -> Nat] /\ seq \in Nat /\ clock \in Nat /\ Names \subseteq Objects
      /\ \A c \in Callers : CallOK(call[c])
  BY DEF Objects
<1>d. ASSUME NEW c \in Callers, NEW k \in Call, CallOK(k), call' = [call EXCEPT ![c] = k]
      PROVE  call' \in [Callers -> Call] /\ \A d \in Callers : CallOK(call'[d])
  BY <1>c, <1>d
<1>v. ASSUME NEW n \in Names, NEW x \in Data \cup {Absent}, Change(n, x)
      PROVE  /\ vault' \in [Names -> [val : Data \cup {Absent}, at : Nat]]
             /\ clock' \in Nat /\ vault'[n] \in Copy
  BY <1>v DEF Change, Copy
<1>1. ASSUME NEW c \in Callers, NEW o \in Objects, Hit(c, o) PROVE TypeOK'
  <2>1. cache[o].copy \in Copy /\ owed[o] \in Nat
    BY <1>1, <1>c DEF Hit, Servable, Entry
  <2> QED
    BY <1>1, <1>d, <2>1, AnswerTypes DEF Hit
<1>2. ASSUME NEW c \in Callers, NEW o \in Objects, NEW f \in BOOLEAN, Miss(c, o, f) PROVE TypeOK'
  <2> DEFINE k == [Idle EXCEPT !.pc = "missed", !.obj = o, !.force = f, !.floor = owed[o]]
  <2>1. k \in Call /\ CallOK(k)
    BY <1>c DEF Idle, Call, CallOK, Loading, Writing
  <2> QED
    BY <1>2, <1>d, <2>1 DEF Miss
<1>3. ASSUME NEW c \in Callers, Snapshot(c) PROVE TypeOK'
  <2> DEFINE k == [call[c] EXCEPT !.pc = "keyed", !.seq = seq]
  <2>1. k \in Call /\ CallOK(k)
    BY <1>3, <1>c DEF Snapshot, At, Call, CallOK, Loading, Writing
  <2>2. call' = [call EXCEPT ![c] = k]
    BY <1>3, <1>c DEF Snapshot
  <2> QED
    BY <1>3, <1>d, <2>1, <2>2 DEF Snapshot
<1>4. ASSUME NEW c \in Callers, Lead(c) \/ Join(c) PROVE TypeOK'
  <2>1. PICK p \in {"leading", "waiting"} : call' = [call EXCEPT ![c].pc = p]
    BY <1>4 DEF Lead, Join
  <2> DEFINE k == [call[c] EXCEPT !.pc = p]
  <2>2. k \in Call /\ CallOK(k)
    BY <1>4, <1>c DEF Lead, Join, At, Call, CallOK, Loading, Writing
  <2>3. call' = [call EXCEPT ![c] = k]
    BY <2>1, <1>c
  <2> QED
    BY <1>4, <1>d, <2>2, <2>3 DEF Lead, Join
<1>5. ASSUME NEW c \in Callers, InnerLoad(c) PROVE TypeOK'
  <2>1. call[c].obj \in Objects
    BY <1>5, <1>c DEF InnerLoad, At, CallOK, Loading
  <2>2. PICK r \in {Current(call[c].obj)} \cup Failures :
              call' = [call EXCEPT ![c].pc = "fetched", ![c].got = r]
    BY <1>5 DEF InnerLoad
  <2>3. r \in Copy \cup Fails
    BY <2>1, <2>2, CurrentType DEF Fails
  <2> DEFINE k == [call[c] EXCEPT !.pc = "fetched", !.got = r]
  <2>4. k \in Call /\ CallOK(k)
    BY <1>c, <2>1, <2>3 DEF Call, CallOK, Loading, Writing
  <2>5. call' = [call EXCEPT ![c] = k]
    BY <2>2, <1>c
  <2> QED
    BY <1>5, <1>d, <2>4, <2>5 DEF InnerLoad
<1>6. ASSUME NEW c \in Callers, Land(c) PROVE TypeOK'
  <2>1. call[c].got \in Copy \cup Fails /\ call[c].obj \in Objects
    BY <1>6, <1>c DEF Land, At, CallOK, Call, Loading
  <2>2. cache' \in [Objects -> Entry \cup {None}]
    <3>1. CASE cache' = cache
      BY <1>c, <3>1
    <3>2. CASE call[c].got \notin Fails /\ cache' \in Filling(call[c].obj, call[c].got)
      BY <2>1, <3>2, FillingLemma
    <3> QED
      BY <1>6, <3>1, <3>2 DEF Land
  <2>3. ASSUME NEW d \in Callers
        PROVE  call'[d] \in Call /\ CallOK(call'[d])
    <3>1. call[d] \in Call /\ CallOK(call[d]) /\ call[d].floor \in Nat
      BY <1>c DEF Call
    <3>2. CASE d \notin Lands(c)
      BY <1>6, <3>1, <3>2 DEF Land
    <3>3. CASE d \in Lands(c) /\ call[c].got \in Fails
      <4>1. call'[d] = [call[d] EXCEPT !.pc = "failed", !.got = call[c].got]
        BY <1>6, <3>3 DEF Land
      <4>2. call[d].pc \in Loading
        BY <1>6, <3>3 DEF Land, Lands, At, Loading
      <4> QED
        BY <3>1, <3>3, <4>1, <4>2 DEF Call, CallOK, Loading, Writing
    <3>4. CASE d \in Lands(c) /\ call[c].got \notin Fails
      <4>1. call'[d] = Answered(call[c].got, call[d].floor)
        BY <1>6, <3>4 DEF Land
      <4> QED
        BY <2>1, <3>1, <4>1, AnswerTypes
    <3> QED
      BY <3>2, <3>3, <3>4
  <2>4. call' \in [Callers -> Call]
    BY <1>6, <2>3 DEF Land
  <2> QED
    BY <1>6, <2>2, <2>3, <2>4 DEF Land
<1>7. ASSUME NEW c \in Callers, Fallback(c) PROVE TypeOK'
  <2>1. call[c].obj \in Objects /\ call[c].got \in Fails /\ call[c].floor \in Nat
    BY <1>7, <1>c DEF Fallback, At, CallOK, Call, Loading
  <2> DEFINE r == IF ServesStale(c) THEN cache[call[c].obj].copy ELSE call[c].got
  <2>2. r \in Copy \cup Fails
    BY <1>c, <2>1 DEF ServesStale, Entry
  <2> QED
    BY <1>7, <1>d, <2>1, <2>2, AnswerTypes DEF Fallback
<1>8. ASSUME NEW c \in Callers, Return(c) PROVE TypeOK'
  BY <1>8, <1>d, AnswerTypes DEF Return
<1>9. ASSUME NEW c \in Callers, NEW n \in Names, NEW d \in Data, SaveInner(c, n, d) PROVE TypeOK'
  <2>1. /\ vault' \in [Names -> [val : Data \cup {Absent}, at : Nat]]
        /\ clock' \in Nat /\ vault'[n] \in Copy
    BY <1>9, <1>v DEF SaveInner
  <2> DEFINE k == [Idle EXCEPT !.pc = "saved", !.obj = n, !.got = vault'[n]]
  <2>2. k \in Call /\ CallOK(k)
    BY <1>c, <2>1 DEF Idle, Call, CallOK, Loading, Writing
  <2> QED
    BY <1>9, <1>d, <2>1, <2>2 DEF SaveInner
<1>10. ASSUME NEW c \in Callers, SaveCommit(c) PROVE TypeOK'
  <2> DEFINE n == call[c].obj
             r == call[c].got
  <2>1. n \in Names /\ r \in Copy /\ r.at \in Nat
    BY <1>10, <1>c DEF SaveCommit, At, CallOK, Writing, Copy
  <2>2. Fresh(r) \in Entry
    BY <2>1 DEF Fresh, Entry
  <2>3. PICK m \in Adding(n, Fresh(r)) : cache' = [m EXCEPT ![Listing] = None]
    BY <1>10 DEF SaveCommit, DroppingNames
  <2>4. cache' \in [Objects -> Entry \cup {None}]
    BY <2>1, <2>2, <2>3, AddingLemma
  <2>5. owed' \in [Objects -> Nat]
    BY <1>10, <1>c, <2>1 DEF SaveCommit, Larger
  <2> QED
    BY <1>10, <1>c, <1>d, <2>4, <2>5, AnswerTypes DEF SaveCommit, Bumped
<1>11. ASSUME NEW c \in Callers, NEW n \in Names, DeleteInner(c, n) PROVE TypeOK'
  <2>1. /\ vault' \in [Names -> [val : Data \cup {Absent}, at : Nat]]
        /\ clock' \in Nat /\ vault'[n] \in Copy
    BY <1>11, <1>v DEF DeleteInner, Copy
  <2> DEFINE k == [Idle EXCEPT !.pc = "deleted", !.obj = n, !.got = vault'[n]]
  <2>2. k \in Call /\ CallOK(k)
    BY <1>c, <2>1 DEF Idle, Call, CallOK, Loading, Writing
  <2> QED
    BY <1>11, <1>d, <2>1, <2>2 DEF DeleteInner
<1>12. ASSUME NEW c \in Callers, DeleteRemove(c) PROVE TypeOK'
  <2>1. call[c].obj \in Names /\ call[c].got \in Copy /\ call[c].got.at \in Nat
    BY <1>12, <1>c DEF DeleteRemove, At, CallOK, Writing, Copy
  <2> DEFINE k == [call[c] EXCEPT !.pc = "removed"]
  <2>2. k \in Call /\ CallOK(k)
    BY <1>c, <2>1 DEF Call, CallOK, Loading, Writing
  <2>3. call' = [call EXCEPT ![c] = k]
    BY <1>12, <1>c DEF DeleteRemove
  <2>4. cache' \in [Objects -> Entry \cup {None}] /\ owed' \in [Objects -> Nat] /\ seq' \in Nat
    BY <1>12, <1>c, <2>1 DEF DeleteRemove, Bumped
  <2> QED
    BY <1>12, <1>d, <2>2, <2>3, <2>4 DEF DeleteRemove
<1>13. ASSUME NEW c \in Callers, DeleteNames(c) PROVE TypeOK'
  <2>1. call[c].got \in Copy /\ call[c].got.at \in Nat
    BY <1>13, <1>c DEF DeleteNames, At, CallOK, Writing, Copy
  <2>2. cache' \in [Objects -> Entry \cup {None}] /\ owed' \in [Objects -> Nat]
    BY <1>13, <1>c, <2>1 DEF DeleteNames, DroppingNames, Larger
  <2> QED
    BY <1>13, <1>d, <2>2, AnswerTypes DEF DeleteNames
<1>14. ASSUME NEW n \in Names, Remove(n) PROVE TypeOK'
  BY <1>14, <1>c DEF Remove, Bumped
<1>15. CASE Purge
  <2>1. \A o \in Objects : Current(o).at \in Nat
    BY CurrentType DEF Copy
  <2> QED
    BY <1>15, <1>c, <2>1 DEF Purge, Bumped
<1>16. ASSUME NEW o \in Objects, Expire(o) PROVE TypeOK'
  <2>1. cache[o] \in Entry
    BY <1>16, <1>c DEF Expire, Servable
  <2>2. [cache[o] EXCEPT !.live = FALSE] \in Entry
    BY <2>1 DEF Entry
  <2> QED
    BY <1>16, <1>c, <2>2 DEF Expire
<1>17. ASSUME NEW n \in Names, NEW x \in Data \cup {Absent}, Edit(n, x) PROVE TypeOK'
  BY <1>17, <1>v DEF Edit
<1>18. CASE UNCHANGED vars
  BY <1>18 DEF vars
<1> QED
  BY <1>1, <1>2, <1>3, <1>4, <1>5, <1>6, <1>7, <1>8, <1>9, <1>10, <1>11, <1>12, <1>13, <1>14,
     <1>15, <1>16, <1>17, <1>18
     DEF Next, LoadNext, LoadStep, WriteNext, EnvNext

\* In every reachable state the calls, the cache and the vault are well typed
\* (cache.go Load, Save, List, Delete, Remove, Purge).
THEOREM TypeCorrect == Spec => []TypeOK
<1>1. Init => TypeOK
  BY AnswerTypes DEF Init, TypeOK
<1> QED
  BY <1>1, TypeStep, PTL DEF Spec

----------------------------------------------------------------------------
(* The inductive invariant.  Actions that only move one call are proved by   *)
(* what they do to that call; the others move seq, owed or the vault.        *)

\* Facts about the numbers of a typed state.
LEMMA Numbers ==
    ASSUME TypeOK
    PROVE  /\ seq \in Nat /\ clock \in Nat
           /\ \A o \in Objects : owed[o] \in Nat /\ Current(o) \in Copy /\ Current(o).at \in Nat
           /\ \A n \in Names : n \in Objects /\ Current(n) = vault[n] /\ vault[n].at \in Nat
           /\ Current(Listing).at = clock
           /\ \A o \in Objects : cache[o] # None =>
                  cache[o].copy \in Copy /\ cache[o].copy.at \in Nat
           /\ \A c \in Callers :
                  /\ call[c].seq \in Nat /\ call[c].floor \in Nat
                  /\ call[c].got \in Copy => call[c].got.at \in Nat
                  /\ call[c].pc \in Loading => call[c].obj \in Objects
                  /\ call[c].pc \in Writing => call[c].obj \in Names /\ call[c].got \in Copy
<1>1. \A r \in Copy : r.at \in Nat
  BY DEF Copy
<1>2. \A o \in Objects : Current(o) \in Copy
  BY CurrentType
<1>3. \A o \in Objects : cache[o] # None => cache[o].copy \in Copy
  BY DEF TypeOK, Entry
<1>4. \A c \in Callers : call[c] \in Call /\ CallOK(call[c])
  BY DEF TypeOK
<1>5. \A n \in Names : n \in Objects /\ Current(n) = vault[n]
  BY DEF Objects, Current
<1>6. Current(Listing).at = clock
  BY DEF Current
<1> QED
  BY <1>1, <1>2, <1>3, <1>4, <1>5, <1>6 DEF TypeOK, Call, CallOK

\* Only one call moves, and nothing else does.
Moves(c, k) == /\ call' = [call EXCEPT ![c] = k]
               /\ UNCHANGED <<vault, clock, seq, cache, owed>>

\* A call may move to k when k's own part of the invariant holds.
LEMMA MoveLemma ==
    ASSUME TypeOK, TypeOK', Inductive, NEW c \in Callers, NEW k \in Call, Moves(c, k),
           k.pc \notin Writing,
           k.pc = "done" /\ k.got \in Copy => k.got.at >= k.floor,
           k.pc \in Holding => k.seq <= seq,
           k.pc \in Loading => k.floor <= owed[k.obj],
           k.pc = "fetched" /\ k.got \in Copy => k.got = Current(k.obj),
           k.pc \in Holding => \A d \in Callers :
               HasCopy(d) /\ call[d].obj = k.obj /\ call[d].seq = k.seq
                   => k.floor <= call[d].got.at
    PROVE  Inductive'
<1> USE Numbers DEF Moves
<1>1. /\ call'[c] = k
      /\ \A d \in Callers \ {c} : call'[d] = call[d]
      /\ vault' = vault /\ clock' = clock /\ seq' = seq /\ cache' = cache /\ owed' = owed
  BY DEF TypeOK
<1>2. NeverBehind' /\ OwedIsThere'
  BY <1>1 DEF Inductive, NeverBehind, OwedIsThere, Current
<1>3. ReadAfterWrite'
  BY <1>1 DEF Inductive, ReadAfterWrite, At
<1>4. SnapshotsArePast' /\ FloorsAreOwed'
  BY <1>1 DEF Inductive, SnapshotsArePast, FloorsAreOwed
<1>5. FillsAreFresh'
  <2>1. k.pc = "fetched" => k.obj \in Objects
    BY <1>1 DEF TypeOK, CallOK, Loading
  <2>2. ASSUME NEW d \in Callers, HasCopy(d)', call'[d].seq = seq
        PROVE  owed[call'[d].obj] <= call'[d].got.at
    <3>1. CASE d = c
      BY <1>1, <2>1, <2>2, <3>1 DEF Inductive, HasCopy, At, OwedIsThere
    <3>2. CASE d # c
      BY <1>1, <2>2, <3>2 DEF Inductive, FillsAreFresh, HasCopy, At
    <3> QED
      BY <3>1, <3>2
  <2> QED
    BY <1>1, <2>2 DEF FillsAreFresh
<1>6. FlightsAreFresh'
  <2> SUFFICES ASSUME NEW d \in Callers, NEW e \in Callers, HasCopy(d)',
                      call'[e].pc \in Holding, SameFlight(e, d)'
               PROVE  call'[e].floor <= call'[d].got.at
    BY DEF FlightsAreFresh
  <2>1. CASE d # c /\ e # c
    BY <1>1, <2>1 DEF Inductive, FlightsAreFresh, HasCopy, At, SameFlight
  <2>2. CASE d # c /\ e = c
    BY <1>1, <2>2 DEF HasCopy, At, SameFlight
  <2>3. CASE d = c
    <3>1. call'[d].got = Current(k.obj) /\ k.obj \in Objects /\ k.pc = "fetched"
      BY <1>1, <2>3 DEF HasCopy, At, Loading, TypeOK, CallOK
    <3>2. call'[e].floor <= owed[k.obj]
      BY <1>1, <1>4, <2>3, <3>1 DEF FloorsAreOwed, SameFlight, Holding, Loading
    <3>3. owed[k.obj] <= Current(k.obj).at
      BY <3>1 DEF Inductive, OwedIsThere
    <3>4. call'[e].floor \in Nat /\ owed[k.obj] \in Nat /\ Current(k.obj).at \in Nat
      BY <3>1 DEF TypeOK, Call
    <3> QED
      BY <3>1, <3>2, <3>3, <3>4
  <2> QED
    BY <2>1, <2>2, <2>3
<1>7. OneWriter' /\ WritesAreInVault'
  BY <1>1 DEF Inductive, OneWriter, WritesAreInVault, Writing
<1>8. NamesFollowDeletes'
  <2> SUFFICES ASSUME NEW d \in Callers, NEW e \in Callers, At(d, "removed")', HasCopy(e)',
                      call'[e].obj = Listing, call'[e].seq = seq
               PROVE  call'[d].got.at <= call'[e].got.at
    BY <1>1 DEF NamesFollowDeletes
  <2>1. d # c /\ At(d, "removed") /\ call'[d] = call[d]
    BY <1>1 DEF At, Writing
  <2>2. call[d].got.at <= clock
    BY <2>1 DEF Inductive, WritesAreInVault, At, Writing
  <2>3. CASE e = c
    <3>1. call'[e].got = Current(Listing)
      BY <1>1, <2>3 DEF HasCopy, At
    <3> QED
      BY <2>1, <2>2, <3>1
  <2>4. CASE e # c
    BY <1>1, <2>1, <2>4 DEF Inductive, NamesFollowDeletes, HasCopy, At
  <2> QED
    BY <2>3, <2>4
<1> QED
  BY <1>2, <1>3, <1>4, <1>5, <1>6, <1>7, <1>8 DEF Inductive

\* What a read or a flight is owed may grow as long as the sequence is bumped
\* with it; the readers' part of the invariant is then kept.
LEMMA ShiftLemma ==
    ASSUME TypeOK, TypeOK', Inductive,
           seq' \in {seq, seq + 1},
           \A o \in Objects : owed[o] <= owed'[o],
           OwedIsThere', NeverBehind', OneWriter', WritesAreInVault',
           \A c \in Callers : call'[c] = call[c] \/ call'[c].pc \in {"idle"} \cup Writing,
           seq' = seq => \A c \in Callers :
               /\ call'[c].pc = "removed" => call'[c] = call[c]
               /\ HasCopy(c) /\ call[c].seq = seq => owed'[call[c].obj] <= call[c].got.at
    PROVE  Inductive'
<1> USE Numbers
<1>1. ASSUME NEW c \in Callers, call'[c].pc \in Loading \cup {"done"}
      PROVE  call'[c] = call[c]
  BY <1>1 DEF Loading, Writing
<1>2. ReadAfterWrite'
  BY <1>1 DEF Inductive, ReadAfterWrite, At
<1>3. SnapshotsArePast'
  BY <1>1 DEF Inductive, SnapshotsArePast, Holding, Loading
<1>4. FloorsAreOwed'
  <2> SUFFICES ASSUME NEW c \in Callers, call'[c].pc \in Loading
               PROVE  call'[c].floor <= owed'[call'[c].obj]
    BY DEF FloorsAreOwed
  <2>1. call'[c] = call[c] /\ call[c].pc \in Loading /\ call[c].obj \in Objects
    BY <1>1
  <2>2. call[c].floor <= owed[call[c].obj]
    BY <2>1 DEF Inductive, FloorsAreOwed
  <2>3. owed[call[c].obj] <= owed'[call[c].obj] /\ owed'[call[c].obj] \in Nat
    BY <2>1 DEF TypeOK
  <2> QED
    BY <2>1, <2>2, <2>3
<1>5. FillsAreFresh'
  <2> SUFFICES ASSUME NEW c \in Callers, HasCopy(c)', call'[c].seq = seq'
               PROVE  owed'[call'[c].obj] <= call'[c].got.at
    BY DEF FillsAreFresh
  <2>1. call'[c] = call[c] /\ HasCopy(c)
    BY <1>1 DEF HasCopy, At, Loading
  <2>2. call[c].seq <= seq
    BY <2>1 DEF HasCopy, At, Inductive, SnapshotsArePast, Holding
  <2>3. seq' = seq
    BY <2>1, <2>2
  <2> QED
    BY <2>1, <2>3
<1>6. FlightsAreFresh'
  <2> SUFFICES ASSUME NEW c \in Callers, NEW d \in Callers, HasCopy(c)',
                      call'[d].pc \in Holding, SameFlight(d, c)'
               PROVE  call'[d].floor <= call'[c].got.at
    BY DEF FlightsAreFresh
  <2>1. call'[c] = call[c] /\ call'[d] = call[d] /\ HasCopy(c) /\ SameFlight(d, c)
    BY <1>1 DEF HasCopy, At, Loading, Holding, SameFlight
  <2> QED
    BY <2>1 DEF Inductive, FlightsAreFresh
<1>7. NamesFollowDeletes'
  <2> SUFFICES ASSUME NEW c \in Callers, NEW d \in Callers, At(c, "removed")', HasCopy(d)',
                      call'[d].obj = Listing, call'[d].seq = seq'
               PROVE  call'[c].got.at <= call'[d].got.at
    BY DEF NamesFollowDeletes
  <2>1. call'[d] = call[d] /\ HasCopy(d)
    BY <1>1 DEF HasCopy, At, Loading
  <2>2. call[d].seq <= seq
    BY <2>1 DEF HasCopy, At, Inductive, SnapshotsArePast, Holding
  <2>3. seq' = seq
    BY <2>1, <2>2
  <2>4. call'[c] = call[c] /\ At(c, "removed")
    BY <2>3 DEF At
  <2> QED
    BY <2>1, <2>3, <2>4 DEF Inductive, NamesFollowDeletes
<1> QED
  BY <1>2, <1>3, <1>4, <1>5, <1>6, <1>7 DEF Inductive

\* The steps of a read keep the invariant.
LEMMA ReadStep ==
    ASSUME TypeOK, TypeOK', Inductive, NEW c \in Callers, LoadNext(c)
    PROVE  Inductive'
<1> USE Numbers
<1>0. call \in [Callers -> Call]
  BY DEF TypeOK
<1>a. ASSUME NEW k, call' = [call EXCEPT ![c] = k]
      PROVE  k \in Call
  BY <1>0, <1>a DEF TypeOK
<1>1. ASSUME NEW o \in Objects, Hit(c, o) PROVE Inductive'
  <2> DEFINE k == Answered(cache[o].copy, owed[o])
  <2>1. Moves(c, k) /\ k \in Call
    BY <1>1, <1>a DEF Hit, Moves
  <2>2. k.pc = "done" /\ k.got = cache[o].copy /\ k.floor = owed[o]
    BY <1>1, AnswerTypes DEF Hit, Servable
  <2>3. cache[o].copy.at >= owed[o]
    BY <1>1 DEF Hit, Servable, Inductive, NeverBehind
  <2> HIDE DEF k
  <2> QED
    BY <2>1, <2>2, <2>3, MoveLemma DEF Writing, Holding, Loading
<1>2. ASSUME NEW o \in Objects, NEW f \in BOOLEAN, Miss(c, o, f) PROVE Inductive'
  <2> DEFINE k == [Idle EXCEPT !.pc = "missed", !.obj = o, !.force = f, !.floor = owed[o]]
  <2>1. Moves(c, k) /\ k \in Call
    BY <1>2, <1>a DEF Miss, Moves
  <2>2. k.pc = "missed" /\ k.obj = o /\ k.floor = owed[o]
    BY DEF Idle
  <2> HIDE DEF k
  <2> QED
    BY <2>1, <2>2, MoveLemma DEF Writing, Holding, Loading
<1>3. CASE Snapshot(c)
  <2> DEFINE k == [call[c] EXCEPT !.pc = "keyed", !.seq = seq]
  <2>1. Moves(c, k)
    BY <1>0, <1>3 DEF Snapshot, Moves
  <2>2. k.pc = "keyed" /\ k.obj = call[c].obj /\ k.seq = seq /\ k.floor = call[c].floor /\ k \in Call
    BY <1>0, <1>a, <2>1 DEF Call, Moves
  <2>3. call[c].floor <= owed[call[c].obj] /\ call[c].obj \in Objects
    BY <1>3 DEF Snapshot, At, Loading, Inductive, FloorsAreOwed
  <2>4. ASSUME NEW d \in Callers, HasCopy(d), call[d].obj = k.obj, call[d].seq = k.seq
        PROVE  k.floor <= call[d].got.at
    <3>1. owed[call[d].obj] <= call[d].got.at
      BY <2>2, <2>4 DEF Inductive, FillsAreFresh
    <3>2. call[d].got.at \in Nat
      BY <2>4 DEF HasCopy
    <3> QED
      BY <2>2, <2>3, <2>4, <3>1, <3>2
  <2> HIDE DEF k
  <2> QED
    BY <2>1, <2>2, <2>3, <2>4, MoveLemma DEF Writing, Holding, Loading
<1>4. ASSUME NEW p \in {"leading", "waiting"}, At(c, "keyed"),
             Moves(c, [call[c] EXCEPT !.pc = p])
      PROVE  Inductive'
  <2> DEFINE k == [call[c] EXCEPT !.pc = p]
  <2>1. k.pc = p /\ k.obj = call[c].obj /\ k.seq = call[c].seq /\ k.floor = call[c].floor /\ k \in Call
    BY <1>0, <1>4, <1>a DEF Call, Moves
  <2>2. call[c].pc \in Holding /\ call[c].pc \in Loading
    BY <1>4 DEF At, Holding, Loading
  <2>3. call[c].seq <= seq /\ call[c].floor <= owed[call[c].obj]
    BY <2>2 DEF Inductive, SnapshotsArePast, FloorsAreOwed
  <2>4. \A d \in Callers : HasCopy(d) /\ call[d].obj = k.obj /\ call[d].seq = k.seq
                              => k.floor <= call[d].got.at
    BY <2>1, <2>2 DEF Inductive, FlightsAreFresh, SameFlight
  <2>5. Moves(c, k)
    BY <1>4
  <2> HIDE DEF k
  <2> QED
    BY <2>1, <2>3, <2>4, <2>5, MoveLemma DEF Writing
<1>5. CASE Lead(c) \/ Join(c)
  <2>1. \E p \in {"leading", "waiting"} : At(c, "keyed") /\ Moves(c, [call[c] EXCEPT !.pc = p])
    BY <1>0, <1>5 DEF Lead, Join, Moves
  <2> QED
    BY <1>4, <2>1
<1>6. CASE InnerLoad(c)
  <2>1. PICK r \in {Current(call[c].obj)} \cup Failures :
              call' = [call EXCEPT ![c].pc = "fetched", ![c].got = r]
    BY <1>6 DEF InnerLoad
  <2> DEFINE k == [call[c] EXCEPT !.pc = "fetched", !.got = r]
  <2>2. Moves(c, k)
    BY <1>0, <1>6, <2>1 DEF InnerLoad, Moves
  <2>3. /\ k.pc = "fetched" /\ k.obj = call[c].obj /\ k.seq = call[c].seq
        /\ k.floor = call[c].floor /\ k.got = r /\ k \in Call
    BY <1>0, <1>a, <2>2 DEF Call, Moves
  <2>4. call[c].pc \in Holding /\ call[c].pc \in Loading
    BY <1>6 DEF InnerLoad, At, Holding, Loading
  <2>5. call[c].seq <= seq /\ call[c].floor <= owed[call[c].obj]
    BY <2>4 DEF Inductive, SnapshotsArePast, FloorsAreOwed
  <2>6. \A d \in Callers : HasCopy(d) /\ call[d].obj = k.obj /\ call[d].seq = k.seq
                              => k.floor <= call[d].got.at
    BY <2>3, <2>4 DEF Inductive, FlightsAreFresh, SameFlight
  <2>7. r \in Copy => r = Current(call[c].obj)
    BY DEF Fails
  <2> HIDE DEF k
  <2> QED
    BY <2>2, <2>3, <2>5, <2>6, <2>7, MoveLemma DEF Writing
<1>7. CASE Fallback(c)
  <2> DEFINE r == IF ServesStale(c) THEN cache[call[c].obj].copy ELSE call[c].got
             k == Answered(r, call[c].floor)
  <2>1. Moves(c, k) /\ k \in Call
    BY <1>7, <1>a DEF Fallback, Moves
  <2>2. call[c].obj \in Objects /\ call[c].got \in Fails /\ call[c].floor <= owed[call[c].obj]
    BY <1>7 DEF Fallback, At, Loading, TypeOK, CallOK, Inductive, FloorsAreOwed
  <2>3. r \in Copy => /\ cache[call[c].obj] # None /\ r = cache[call[c].obj].copy
    BY <2>2 DEF ServesStale
  <2>4. r \in Copy \cup Fails
    BY <2>2 DEF ServesStale
  <2>5. k.pc = "done" /\ k.got = r /\ k.floor = call[c].floor
    BY <2>4, AnswerTypes
  <2>6. r \in Copy => r.at >= call[c].floor
    <3> SUFFICES ASSUME r \in Copy PROVE r.at >= call[c].floor
      OBVIOUS
    <3>1. r.at >= owed[call[c].obj] /\ r.at \in Nat
      BY <2>2, <2>3 DEF Inductive, NeverBehind
    <3> QED
      BY <2>2, <3>1
  <2> HIDE DEF k, r
  <2> QED
    BY <2>1, <2>5, <2>6, MoveLemma DEF Writing, Holding, Loading
<1>8. CASE Return(c)
  <2>1. Moves(c, Idle) /\ Idle \in Call /\ Idle.pc = "idle"
    BY <1>8, AnswerTypes DEF Return, Moves, Idle
  <2> QED
    BY <2>1, MoveLemma DEF Writing, Holding, Loading
<1>9. CASE Land(c)
  <2> DEFINE r == call[c].got
             o == call[c].obj
  <2>1. o \in Objects /\ r \in Copy \cup Fails /\ At(c, "fetched")
    BY <1>9 DEF Land, At, Loading, TypeOK, Call, CallOK
  <2>2. UNCHANGED <<vault, clock, seq, owed>>
    BY <1>9 DEF Land
  <2>3. ASSUME NEW d \in Callers, call'[d] # call[d]
        PROVE  /\ call[d].pc \in Holding /\ call[d].pc \in Loading /\ SameFlight(d, c)
               /\ \/ /\ r \in Fails
                     /\ call'[d].pc = "failed" /\ call'[d].obj = call[d].obj
                     /\ call'[d].floor = call[d].floor
                  \/ /\ r \in Copy
                     /\ call'[d].pc = "done" /\ call'[d].got = r /\ call'[d].floor = call[d].floor
    <3>1. d \in Lands(c)
      BY <1>9, <2>3 DEF Land
    <3>2. call[d].pc \in {"fetched", "waiting"} /\ SameFlight(d, c)
      BY <2>1, <3>1 DEF Lands, At, SameFlight
    <3>3. CASE r \in Fails
      <4>1. call'[d] = [call[d] EXCEPT !.pc = "failed", !.got = r]
        BY <1>9, <3>1, <3>3 DEF Land
      <4> QED
        BY <1>0, <3>2, <3>3, <4>1 DEF Call, Holding, Loading
    <3>4. CASE r \notin Fails
      <4>1. call'[d] = Answered(r, call[d].floor)
        BY <1>9, <3>1, <3>4 DEF Land
      <4> QED
        BY <2>1, <3>2, <3>4, <4>1, AnswerTypes DEF Holding, Loading
    <3> QED
      BY <3>3, <3>4
  <2>4. ASSUME NEW d \in Callers, call'[d].pc \notin {"failed", "done"}
        PROVE  call'[d] = call[d]
    BY <2>3, <2>4
  <2>5. NeverBehind'
    <3>1. CASE cache' = cache
      BY <2>2, <3>1 DEF Inductive, NeverBehind
    <3>2. CASE r \notin Fails /\ call[c].seq = seq /\ cache' \in Filling(o, r)
      <4>1. owed[o] <= r.at /\ r \in Copy /\ r.at \in Nat
        BY <2>1, <3>2 DEF Inductive, FillsAreFresh, HasCopy
      <4>2. /\ cache'[o] \in {Fresh(r), None}
            /\ \A p \in Objects \ {o} : cache'[p] \in {cache[p], None}
        BY <2>1, <3>2, <4>1, FillingLemma
      <4>3. Fresh(r).copy = r
        BY DEF Fresh
      <4> QED
        BY <2>1, <2>2, <4>1, <4>2, <4>3 DEF Inductive, NeverBehind
    <3> QED
      BY <1>9, <3>1, <3>2 DEF Land, MayFill
  <2>6. ReadAfterWrite'
    <3> SUFFICES ASSUME NEW d \in Callers, At(d, "done")', call'[d].got \in Copy
                 PROVE  call'[d].got.at >= call'[d].floor
      BY DEF ReadAfterWrite
    <3>1. CASE call'[d] = call[d]
      BY <3>1 DEF Inductive, ReadAfterWrite, At
    <3>2. CASE call'[d] # call[d]
      <4>1. call'[d].got = r /\ r \in Copy /\ call'[d].floor = call[d].floor
        BY <2>3, <3>2 DEF At
      <4>2. call[d].floor <= r.at
        BY <2>1, <2>3, <3>2, <4>1 DEF Inductive, FlightsAreFresh, HasCopy
      <4> QED
        BY <4>1, <4>2
    <3> QED
      BY <3>1, <3>2
  <2>7. OwedIsThere'
    BY <2>2 DEF Inductive, OwedIsThere, Current
  <2>8. SnapshotsArePast'
    BY <2>2, <2>4 DEF Inductive, SnapshotsArePast, Holding
  <2>9. FloorsAreOwed'
    <3> SUFFICES ASSUME NEW d \in Callers, call'[d].pc \in Loading
                 PROVE  call'[d].floor <= owed[call'[d].obj]
      BY <2>2 DEF FloorsAreOwed
    <3>1. call[d].pc \in Loading /\ call'[d].obj = call[d].obj /\ call'[d].floor = call[d].floor
      BY <2>3 DEF Loading
    <3> QED
      BY <3>1 DEF Inductive, FloorsAreOwed
  <2>10. FillsAreFresh' /\ FlightsAreFresh' /\ NamesFollowDeletes'
    <3>1. FillsAreFresh'
      BY <2>2, <2>4 DEF Inductive, FillsAreFresh, HasCopy, At
    <3>2. FlightsAreFresh'
      BY <2>4 DEF Inductive, FlightsAreFresh, HasCopy, At, SameFlight, Holding
    <3>3. NamesFollowDeletes'
      BY <2>2, <2>4 DEF Inductive, NamesFollowDeletes, HasCopy, At
    <3> QED
      BY <3>1, <3>2, <3>3
  <2>11. OneWriter' /\ WritesAreInVault'
    <3>1. \A d \in Callers : call'[d].pc \in Writing => call'[d] = call[d]
      BY <2>4 DEF Writing
    <3> QED
      BY <2>2, <3>1 DEF Inductive, OneWriter, WritesAreInVault, Writing
  <2> QED
    BY <2>5, <2>6, <2>7, <2>8, <2>9, <2>10, <2>11 DEF Inductive
<1> QED
  BY <1>1, <1>2, <1>3, <1>5, <1>6, <1>7, <1>8, <1>9 DEF LoadNext, LoadStep

\* What a change of the vault does to the times.
LEMMA ChangeLemma ==
    ASSUME TypeOK, Inductive, NEW n \in Names, NEW x \in Data \cup {Absent}, Change(n, x)
    PROVE  /\ clock' = clock + 1
           /\ vault'[n].at = clock + 1 /\ vault'[n] \in Copy
           /\ \A m \in Names \ {n} : vault'[m] = vault[m]
           /\ \A m \in Names : vault[m].at <= vault'[m].at /\ vault'[m].at <= clock'
           /\ \A o \in Objects : owed[o] <= Current(o)'.at
<1> USE Numbers
<1>1. vault \in [Names -> [val : Data \cup {Absent}, at : Nat]]
  BY DEF TypeOK
<1>2. clock' = clock + 1 /\ vault'[n] = [val |-> x, at |-> clock + 1]
  BY <1>1 DEF Change
<1>3. \A m \in Names \ {n} : vault'[m] = vault[m]
  BY <1>1 DEF Change
<1>4. \A m \in Names : vault[m].at <= clock
  BY DEF Inductive, OwedIsThere
<1>5. \A m \in Names : vault[m].at <= vault'[m].at /\ vault'[m].at <= clock' /\ vault'[m].at \in Nat
  BY <1>2, <1>3, <1>4
<1>6. ASSUME NEW o \in Objects PROVE owed[o] <= Current(o)'.at
  <2>1. owed[o] <= Current(o).at
    BY DEF Inductive, OwedIsThere
  <2>2. CASE o = Listing
    <3>1. Current(o)'.at = clock' /\ Current(o).at = clock
      BY <2>2 DEF Current
    <3> QED
      BY <1>2, <2>1, <3>1
  <2>3. CASE o # Listing
    <3>1. o \in Names /\ Current(o)' = vault'[o]
      BY <2>3 DEF Objects, Current
    <3> QED
      BY <1>5, <2>1, <3>1
  <2> QED
    BY <2>2, <2>3
<1>7. vault'[n] \in Copy
  BY <1>2 DEF Copy
<1> QED
  BY <1>2, <1>3, <1>5, <1>6, <1>7

\* The steps that no caller asks for keep the invariant.
LEMMA EnvStep ==
    ASSUME TypeOK, TypeOK', Inductive, EnvNext
    PROVE  Inductive'
<1> USE Numbers
<1>0. /\ owed \in [Objects -> Nat] /\ cache \in [Objects -> Entry \cup {None}]
      /\ \A o \in Objects : owed[o] <= Current(o).at
      /\ \A o \in Objects : cache[o] # None => cache[o].copy.at >= owed[o]
  BY DEF TypeOK, Inductive, OwedIsThere, NeverBehind
<1>1. ASSUME NEW n \in Names, Remove(n) PROVE Inductive'
  <2>1. /\ seq' = seq + 1 /\ vault' = vault /\ clock' = clock /\ call' = call
        /\ cache'[n] = None /\ \A o \in Objects \ {n} : cache'[o] = cache[o] /\ owed'[o] = owed[o]
        /\ owed'[n] \in {owed[n], vault[n].at}
        /\ InWrite(n) => owed'[n] = owed[n]
    BY <1>0, <1>1 DEF Remove, Bumped
  <2>2. \A o \in Objects : owed[o] <= owed'[o] /\ owed'[o] <= Current(o)'.at
    <3> TAKE o \in Objects
    <3>1. Current(o)' = Current(o)
      BY <2>1 DEF Current
    <3>2. owed'[o] \in {owed[o], Current(o).at}
      BY <2>1
    <3> QED
      BY <1>0, <3>1, <3>2
  <2>3. OwedIsThere'
    BY <2>1, <2>2 DEF Inductive, OwedIsThere
  <2>4. NeverBehind'
    BY <1>0, <2>1 DEF NeverBehind
  <2>5. OneWriter'
    BY <2>1 DEF Inductive, OneWriter
  <2>6. WritesAreInVault'
    BY <2>1 DEF Inductive, WritesAreInVault, InWrite, Writing
  <2> QED
    BY <2>1, <2>2, <2>3, <2>4, <2>5, <2>6, ShiftLemma
<1>2. CASE Purge
  <2>1. /\ seq' = seq + 1 /\ vault' = vault /\ clock' = clock /\ call' = call
        /\ \A o \in Objects : /\ cache'[o] = None /\ owed'[o] \in {owed[o], Current(o).at}
                              /\ o # Listing /\ InWrite(o) => owed'[o] = owed[o]
    BY <1>0, <1>2 DEF Purge, Bumped
  <2>2. \A o \in Objects : owed[o] <= owed'[o] /\ owed'[o] <= Current(o)'.at
    <3> TAKE o \in Objects
    <3>1. Current(o)' = Current(o)
      BY <2>1 DEF Current
    <3>2. owed'[o] \in {owed[o], Current(o).at}
      BY <2>1
    <3> QED
      BY <1>0, <3>1, <3>2
  <2>3. OwedIsThere'
    BY <2>1, <2>2 DEF Inductive, OwedIsThere
  <2>4. NeverBehind'
    BY <2>1 DEF NeverBehind
  <2>5. OneWriter'
    BY <2>1 DEF Inductive, OneWriter
  <2>6. WritesAreInVault'
    BY <2>1 DEF Inductive, WritesAreInVault, InWrite, Writing
  <2> QED
    BY <2>1, <2>2, <2>3, <2>4, <2>5, <2>6, ShiftLemma
<1>3. ASSUME NEW o \in Objects, Expire(o) PROVE Inductive'
  <2>1. /\ seq' = seq /\ vault' = vault /\ clock' = clock /\ call' = call /\ owed' = owed
        /\ cache[o] # None /\ cache' = [cache EXCEPT ![o].live = FALSE]
    BY <1>3 DEF Expire, Servable
  <2>2. cache[o] \in Entry /\ cache'[o].copy = cache[o].copy
        /\ \A p \in Objects \ {o} : cache'[p] = cache[p]
    BY <1>0, <2>1 DEF Entry
  <2>3. NeverBehind'
    BY <1>0, <2>1, <2>2 DEF NeverBehind
  <2>4. OwedIsThere' /\ OneWriter' /\ WritesAreInVault'
    BY <2>1 DEF Inductive, OwedIsThere, OneWriter, WritesAreInVault, Current
  <2>5. \A c \in Callers : HasCopy(c) /\ call[c].seq = seq => owed'[call[c].obj] <= call[c].got.at
    BY <2>1 DEF Inductive, FillsAreFresh
  <2>6. \A p \in Objects : owed[p] <= owed'[p]
    BY <2>1
  <2> QED
    BY <2>1, <2>3, <2>4, <2>5, <2>6, ShiftLemma
<1>4. ASSUME NEW n \in Names, NEW x \in Data \cup {Absent}, Edit(n, x) PROVE Inductive'
  <2>1. seq' = seq /\ cache' = cache /\ call' = call /\ owed' = owed /\ Change(n, x)
    BY <1>4 DEF Edit
  <2>2. /\ clock' = clock + 1
        /\ \A m \in Names : vault[m].at <= vault'[m].at /\ vault'[m].at <= clock'
        /\ \A o \in Objects : owed[o] <= Current(o)'.at
    BY <2>1, ChangeLemma
  <2>3. OwedIsThere' /\ NeverBehind' /\ OneWriter'
    BY <2>1, <2>2 DEF Inductive, OwedIsThere, NeverBehind, OneWriter
  <2>4. WritesAreInVault'
    <3> SUFFICES ASSUME NEW c \in Callers, call[c].pc \in Writing
                 PROVE  /\ call[c].got.at <= clock'
                        /\ call[c].pc \in {"saved", "deleted"} =>
                              /\ owed[call[c].obj] <= call[c].got.at
                              /\ call[c].got.at <= vault'[call[c].obj].at
      BY <2>1 DEF WritesAreInVault, Writing
    <3>1. call[c].got.at \in Nat /\ call[c].obj \in Names /\ call[c].got.at <= clock
      BY DEF Inductive, WritesAreInVault
    <3>2. call[c].pc \in {"saved", "deleted"} => /\ owed[call[c].obj] <= call[c].got.at
                                                 /\ call[c].got.at <= vault[call[c].obj].at
      BY DEF Inductive, WritesAreInVault
    <3>3. vault'[call[c].obj].at \in Nat
      BY <3>1 DEF TypeOK
    <3> QED
      BY <2>2, <3>1, <3>2, <3>3
  <2>5. \A c \in Callers : HasCopy(c) /\ call[c].seq = seq => owed'[call[c].obj] <= call[c].got.at
    BY <2>1 DEF Inductive, FillsAreFresh
  <2>6. \A p \in Objects : owed[p] <= owed'[p]
    BY <2>1
  <2> QED
    BY <2>1, <2>3, <2>4, <2>5, <2>6, ShiftLemma
<1> QED
  BY <1>1, <1>2, <1>3, <1>4 DEF EnvNext

\* The steps of a write keep the invariant.
LEMMA MutationStep ==
    ASSUME TypeOK, TypeOK', Inductive, NEW c \in Callers, WriteNext(c)
    PROVE  Inductive'
<1> USE Numbers
<1>0. /\ owed \in [Objects -> Nat] /\ cache \in [Objects -> Entry \cup {None}]
      /\ call \in [Callers -> Call]
      /\ \A o \in Objects : owed[o] <= Current(o).at
      /\ \A o \in Objects : cache[o] # None => cache[o].copy.at >= owed[o]
      /\ \A n \in Names : vault[n].at <= clock
      /\ Listing \in Objects /\ Listing \notin Names
  BY DEF TypeOK, Inductive, OwedIsThere, NeverBehind, Objects
<1>f. \A d \in Callers : HasCopy(d) /\ call[d].seq = seq => owed[call[d].obj] <= call[d].got.at
  BY DEF Inductive, FillsAreFresh
<1>w. ASSUME NEW n \in Names, NEW k, NEW p \in {"saved", "deleted"},
             NoWriter, At(c, "idle"), call' = [call EXCEPT ![c] = k],
             k.pc = p, k.obj = n, k.got = vault'[n], vault'[n] \in Copy,
             seq' = seq, cache' = cache, owed' = owed, clock <= clock',
             \A m \in Names : vault'[m].at <= clock',
             \A o \in Objects : owed[o] <= Current(o)'.at
      PROVE  Inductive'
  <2>1. call'[c] = k /\ \A d \in Callers \ {c} : call'[d] = call[d]
    BY <1>0, <1>w
  <2>2. OwedIsThere' /\ NeverBehind'
    BY <1>w DEF Inductive, OwedIsThere, NeverBehind
  <2>3. \A d \in Callers : call'[d].pc \in Writing => d = c
    BY <1>w, <2>1 DEF NoWriter
  <2>4. OneWriter'
    BY <2>3 DEF OneWriter
  <2>5. Current(n)' = vault'[n] /\ n \in Objects
    BY <1>0 DEF Current
  <2>6. vault'[n].at \in Nat
    BY DEF TypeOK
  <2>7. WritesAreInVault'
    BY <1>w, <2>1, <2>3, <2>5, <2>6 DEF WritesAreInVault, Writing
  <2>8. \A d \in Callers : call'[d] = call[d] \/ call'[d].pc \in {"idle"} \cup Writing
    BY <1>w, <2>1 DEF Writing
  <2>9. \A d \in Callers : /\ call'[d].pc = "removed" => call'[d] = call[d]
                           /\ HasCopy(d) /\ call[d].seq = seq => owed'[call[d].obj] <= call[d].got.at
    BY <1>f, <1>w, <2>1
  <2>10. \A o \in Objects : owed[o] <= owed'[o]
    BY <1>w
  <2> QED
    BY <1>w, <2>2, <2>4, <2>7, <2>8, <2>9, <2>10, ShiftLemma
<1>1. ASSUME NEW n \in Names, NEW d \in Data, NoWriter, SaveInner(c, n, d) PROVE Inductive'
  <2> DEFINE k == [Idle EXCEPT !.pc = "saved", !.obj = n, !.got = vault'[n]]
  <2>1. k.pc = "saved" /\ k.obj = n /\ k.got = vault'[n]
    BY DEF Idle
  <2>2. /\ At(c, "idle") /\ call' = [call EXCEPT ![c] = k] /\ Change(n, d)
        /\ seq' = seq /\ cache' = cache /\ owed' = owed
    BY <1>1 DEF SaveInner
  <2> HIDE DEF k
  <2>3. /\ clock' = clock + 1 /\ vault'[n] \in Copy
        /\ \A m \in Names : vault'[m].at <= clock'
        /\ \A o \in Objects : owed[o] <= Current(o)'.at
    BY <2>2, ChangeLemma
  <2>4. clock <= clock'
    BY <2>3
  <2> QED
    BY <1>1, <1>w, <2>1, <2>2, <2>3, <2>4
<1>2. ASSUME NEW n \in Names, NoWriter, DeleteInner(c, n) PROVE Inductive'
  <2> DEFINE k == [Idle EXCEPT !.pc = "deleted", !.obj = n, !.got = vault'[n]]
  <2>1. k.pc = "deleted" /\ k.obj = n /\ k.got = vault'[n]
    BY DEF Idle
  <2>2. /\ At(c, "idle") /\ call' = [call EXCEPT ![c] = k]
        /\ seq' = seq /\ cache' = cache /\ owed' = owed
    BY <1>2 DEF DeleteInner
  <2> HIDE DEF k
  <2>3. CASE Change(n, Absent)
    <3>1. /\ clock' = clock + 1 /\ vault'[n] \in Copy
          /\ \A m \in Names : vault'[m].at <= clock'
          /\ \A o \in Objects : owed[o] <= Current(o)'.at
      BY <2>3, ChangeLemma
    <3>2. clock <= clock'
      BY <3>1
    <3> QED
      BY <1>2, <1>w, <2>1, <2>2, <3>1, <3>2
  <2>4. CASE vault' = vault /\ clock' = clock
    <3>1. \A o \in Objects : Current(o)' = Current(o)
      BY <2>4 DEF Current
    <3>2. vault'[n] \in Copy /\ clock <= clock'
      BY <2>4 DEF TypeOK, Copy
    <3> QED
      BY <1>0, <1>2, <1>w, <2>1, <2>2, <2>4, <3>1, <3>2
  <2> QED
    BY <1>2, <2>3, <2>4 DEF DeleteInner
<1>3. CASE SaveCommit(c)
  <2> DEFINE n == call[c].obj
             t == call[c].got.at
  <2>1. /\ n \in Names /\ call[c].got \in Copy /\ t \in Nat /\ call[c].pc \in Writing
        /\ call[c].pc = "saved"
    BY <1>3 DEF SaveCommit, At, Writing
  <2>2. owed[n] <= t /\ t <= vault[n].at /\ t <= clock
    BY <2>1 DEF Inductive, WritesAreInVault
  <2>3. /\ seq' = seq + 1 /\ vault' = vault /\ clock' = clock
        /\ owed' = [owed EXCEPT ![n] = t, ![Listing] = Larger(owed[Listing], t)]
        /\ call' = [call EXCEPT ![c] = Idle]
    BY <1>3 DEF SaveCommit, Bumped
  <2>4. /\ owed'[n] = t /\ owed'[Listing] = Larger(owed[Listing], t)
        /\ \A o \in Objects \ {n, Listing} : owed'[o] = owed[o]
    BY <1>0, <2>1, <2>3
  <2>5. PICK m \in Adding(n, Fresh(call[c].got)) : cache' = [m EXCEPT ![Listing] = None]
    BY <1>3 DEF SaveCommit, DroppingNames
  <2>6. Fresh(call[c].got) \in Entry /\ Fresh(call[c].got).copy = call[c].got
    BY <2>1 DEF Fresh, Entry
  <2>7. /\ m \in [Objects -> Entry \cup {None}]
        /\ m[n] = Fresh(call[c].got)
        /\ \A o \in Objects \ {n} : m[o] \in {cache[o], None}
    BY <2>1, <2>5, <2>6, AddingLemma
  <2>8. NeverBehind'
    <3> SUFFICES ASSUME NEW o \in Objects, cache'[o] # None PROVE cache'[o].copy.at >= owed'[o]
      BY DEF NeverBehind
    <3>1. o # Listing /\ cache'[o] = m[o]
      BY <1>0, <2>5, <2>7
    <3>2. CASE o = n
      BY <2>1, <2>4, <2>6, <2>7, <3>1, <3>2
    <3>3. CASE o # n
      BY <1>0, <2>4, <2>7, <3>1, <3>3
    <3> QED
      BY <3>2, <3>3
  <2>9. \A o \in Objects : owed[o] <= owed'[o] /\ owed'[o] <= Current(o)'.at
    <3> TAKE o \in Objects
    <3>1. Current(o)' = Current(o)
      BY <2>3 DEF Current
    <3> QED
      BY <1>0, <2>1, <2>2, <2>4, <3>1 DEF Larger
  <2>10. OwedIsThere'
    BY <1>0, <2>3, <2>9 DEF OwedIsThere
  <2>11. call'[c].pc = "idle" /\ \A d \in Callers \ {c} : call'[d] = call[d] /\ call[d].pc \notin Writing
    BY <1>0, <2>1, <2>3 DEF Inductive, OneWriter, Idle
  <2>12. OneWriter' /\ WritesAreInVault'
    BY <2>11 DEF OneWriter, WritesAreInVault, Writing
  <2>13. \A d \in Callers : call'[d] = call[d] \/ call'[d].pc \in {"idle"} \cup Writing
    BY <2>11
  <2>14. \A o \in Objects : owed[o] <= owed'[o]
    BY <2>9
  <2>15. seq' = seq + 1
    BY <2>3
  <2> HIDE DEF n, t
  <2> QED
    BY <2>8, <2>10, <2>12, <2>13, <2>14, <2>15, ShiftLemma
<1>4. CASE DeleteRemove(c)
  <2> DEFINE n == call[c].obj
             t == call[c].got.at
  <2>1. /\ n \in Names /\ call[c].got \in Copy /\ t \in Nat /\ call[c].pc \in Writing
        /\ call[c].pc = "deleted"
    BY <1>4 DEF DeleteRemove, At, Writing
  <2>2. owed[n] <= t /\ t <= vault[n].at /\ t <= clock
    BY <2>1 DEF Inductive, WritesAreInVault
  <2>3. /\ seq' = seq + 1 /\ vault' = vault /\ clock' = clock
        /\ owed' = [owed EXCEPT ![n] = t] /\ cache' = [cache EXCEPT ![n] = None]
        /\ call' = [call EXCEPT ![c].pc = "removed"]
    BY <1>4 DEF DeleteRemove, Bumped
  <2>4. /\ owed'[n] = t /\ \A o \in Objects \ {n} : owed'[o] = owed[o]
        /\ cache'[n] = None /\ \A o \in Objects \ {n} : cache'[o] = cache[o]
    BY <1>0, <2>1, <2>3
  <2>5. NeverBehind'
    BY <1>0, <2>4 DEF NeverBehind
  <2>6. \A o \in Objects : owed[o] <= owed'[o] /\ owed'[o] <= Current(o)'.at
    <3> TAKE o \in Objects
    <3>1. Current(o)' = Current(o)
      BY <2>3 DEF Current
    <3> QED
      BY <1>0, <2>1, <2>2, <2>4, <3>1
  <2>7. OwedIsThere'
    BY <1>0, <2>3, <2>6 DEF OwedIsThere
  <2>8. /\ call'[c].pc = "removed" /\ call'[c].got = call[c].got
        /\ \A d \in Callers \ {c} : call'[d] = call[d] /\ call[d].pc \notin Writing
    BY <1>0, <2>1, <2>3 DEF Inductive, OneWriter, Call
  <2>9. OneWriter'
    BY <2>8 DEF OneWriter
  <2>10. WritesAreInVault'
    BY <2>2, <2>3, <2>8 DEF WritesAreInVault, Writing
  <2>11. \A d \in Callers : call'[d] = call[d] \/ call'[d].pc \in {"idle"} \cup Writing
    BY <2>8 DEF Writing
  <2> QED
    BY <2>3, <2>5, <2>6, <2>7, <2>9, <2>10, <2>11, ShiftLemma
<1>5. CASE DeleteNames(c)
  <2> DEFINE t == call[c].got.at
  <2>1. call[c].got \in Copy /\ t \in Nat /\ call[c].pc \in Writing /\ At(c, "removed")
    BY <1>5 DEF DeleteNames, At, Writing
  <2>2. t <= clock
    BY <2>1 DEF Inductive, WritesAreInVault
  <2>3. /\ seq' = seq /\ vault' = vault /\ clock' = clock
        /\ owed' = [owed EXCEPT ![Listing] = Larger(owed[Listing], t)]
        /\ cache' = [cache EXCEPT ![Listing] = None]
        /\ call' = [call EXCEPT ![c] = Idle]
    BY <1>5 DEF DeleteNames, DroppingNames
  <2>4. /\ owed'[Listing] = Larger(owed[Listing], t)
        /\ \A o \in Objects \ {Listing} : owed'[o] = owed[o]
        /\ cache'[Listing] = None /\ \A o \in Objects \ {Listing} : cache'[o] = cache[o]
    BY <1>0, <2>3
  <2>5. NeverBehind'
    BY <1>0, <2>4 DEF NeverBehind
  <2>6. \A o \in Objects : owed[o] <= owed'[o] /\ owed'[o] <= Current(o)'.at
    <3> TAKE o \in Objects
    <3>1. Current(o)' = Current(o)
      BY <2>3 DEF Current
    <3> QED
      BY <1>0, <2>1, <2>2, <2>4, <3>1 DEF Larger
  <2>7. OwedIsThere'
    BY <1>0, <2>3, <2>6 DEF OwedIsThere
  <2>8. /\ call'[c].pc = "idle"
        /\ \A d \in Callers \ {c} : call'[d] = call[d] /\ call[d].pc \notin Writing
    BY <1>0, <2>1, <2>3 DEF Inductive, OneWriter, Idle
  <2>9. OneWriter' /\ WritesAreInVault'
    BY <2>8 DEF OneWriter, WritesAreInVault, Writing
  <2>10. ASSUME NEW d \in Callers, HasCopy(d), call[d].seq = seq
         PROVE  owed'[call[d].obj] <= call[d].got.at
    <3>1. owed[call[d].obj] <= call[d].got.at /\ call[d].obj \in Objects
      BY <1>f, <2>10 DEF HasCopy, At, Loading
    <3>2. call[d].obj = Listing => t <= call[d].got.at
      BY <2>1, <2>10 DEF Inductive, NamesFollowDeletes
    <3> QED
      BY <2>4, <3>1, <3>2 DEF Larger
  <2>11. \A d \in Callers : call'[d].pc = "removed" => call'[d] = call[d]
    BY <2>8
  <2> QED
    BY <2>3, <2>5, <2>6, <2>7, <2>8, <2>9, <2>10, <2>11, ShiftLemma
<1> QED
  BY <1>1, <1>2, <1>3, <1>4, <1>5 DEF WriteNext

----------------------------------------------------------------------------
\* Inductive holds in every reachable state.
THEOREM InductiveInvariant == Spec => [](TypeOK /\ Inductive)
<1>1. Init => TypeOK /\ Inductive
  <2> SUFFICES ASSUME Init PROVE TypeOK /\ Inductive
    OBVIOUS
  <2>1. TypeOK
    BY AnswerTypes DEF Init, TypeOK
  <2>2. \A c \in Callers : call[c].pc = "idle"
    BY DEF Init, Idle
  <2>3. NeverBehind
    BY DEF Init, NeverBehind
  <2>4. OwedIsThere
    BY DEF Init, OwedIsThere, Current, Objects
  <2>5. ReadAfterWrite /\ SnapshotsArePast /\ FloorsAreOwed /\ OneWriter /\ WritesAreInVault
    BY <2>2 DEF ReadAfterWrite, SnapshotsArePast, FloorsAreOwed, OneWriter, WritesAreInVault,
                At, Holding, Loading, Writing
  <2>6. FillsAreFresh /\ FlightsAreFresh /\ NamesFollowDeletes
    BY <2>2 DEF FillsAreFresh, FlightsAreFresh, NamesFollowDeletes, HasCopy, At
  <2> QED
    BY <2>1, <2>3, <2>4, <2>5, <2>6 DEF Inductive
<1>2. TypeOK /\ TypeOK' /\ Inductive /\ [Next]_vars => Inductive'
  <2> SUFFICES ASSUME TypeOK, TypeOK', Inductive, [Next]_vars PROVE Inductive'
    OBVIOUS
  <2>1. CASE UNCHANGED vars
    BY <2>1 DEF vars, Inductive, NeverBehind, ReadAfterWrite, OwedIsThere, SnapshotsArePast,
                FloorsAreOwed, FillsAreFresh, FlightsAreFresh, OneWriter, WritesAreInVault,
                NamesFollowDeletes, HasCopy, At, Current, SameFlight
  <2>2. CASE Next
    BY <2>2, ReadStep, MutationStep, EnvStep DEF Next
  <2> QED
    BY <2>1, <2>2
<1> QED
  BY <1>1, <1>2, TypeStep, PTL DEF Spec

\* No read that begins after a write, a delete or an eviction has completed is
\* answered with anything older, from the cache, a joined flight or the fallback.
THEOREM ReadsFollowWrites == Spec => []ReadAfterWrite
BY InductiveInvariant, PTL DEF Inductive

\* No fill that was under way replaces what a write, a delete or an eviction put
\* in the cache with something older.
THEOREM CacheNeverFallsBehind == Spec => []NeverBehind
BY InductiveInvariant, PTL DEF Inductive
=============================================================================
