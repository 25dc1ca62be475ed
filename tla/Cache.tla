------------------------------- MODULE Cache -------------------------------
(***************************************************************************)
(* backend/cache: the expiry cache between store.Store and 1Password.      *)
(*                                                                         *)
(* Callers (requests and the warmer) load records and list names; the      *)
(* misses of the same record at the same mutation sequence share one       *)
(* flight.  Writers go through to the inner backend and then bring the     *)
(* cache up to date.  The vault may also change behind the cache's back:   *)
(* by another instance, a human in the 1Password app, or a write whose     *)
(* success was not reported.                                               *)
(*                                                                         *)
(* What the vault holds for a name is a copy: a value and the time of the  *)
(* write that put it there.  The time is a ghost, it only lets properties  *)
(* tell an older copy from a newer one.                                    *)
(***************************************************************************)
EXTENDS Integers, FiniteSets

CONSTANTS Names,        \* secret names
          Data,         \* what a record may hold
          Absent,       \* what the vault holds for a name without an item
          Listing,      \* the cached object that is not a record: the name list
          Reads,        \* the objects that they read
          Callers,      \* goroutines that call the cache
          None,         \* no entry, no answer yet
          Unavailable,  \* an answer: backend.ErrUnavailable
          Broken,       \* an answer: any other error (an unreadable item)
          Failures,     \* the errors that the inner backend may answer
          Expiry,       \* TRUE iff ttl > 0
          MaxEntries,   \* capacity of the record LRU; 0 is unbounded
          MaxClock,     \* bound: changes of the vault
          MaxSeq        \* bound: no eviction, and no delete of nothing, begins at it

Objects == Names \cup {Listing}

ASSUME CacheAssumption == /\ Listing \notin Names
                          /\ Absent \notin Data
                          /\ Reads \subseteq Objects
                          /\ Failures \subseteq {Unavailable, Broken}
                          /\ Expiry \in BOOLEAN
                          /\ MaxEntries \in Nat
                          /\ MaxClock \in Nat
                          /\ MaxSeq \in Nat

VARIABLES vault,  \* the inner backend
          clock,  \* ghost: time of the last change of the vault
          seq,    \* Cache.seq
          cache,  \* Cache.recs and, at Listing, Cache.names
          call,   \* the call each goroutine is in
          owed    \* ghost: the oldest copy a read starting now may return

vars == <<vault, clock, seq, cache, call, owed>>

Copy == [val : Data \cup {Absent} \cup SUBSET Names, at : Nat]

\* An entry past its jittered lifetime stays resident until it is evicted.  A
\* negative is an entry whose copy is Absent.
Entry == [copy : Copy, live : BOOLEAN]

Fails == {Unavailable, Broken}

ASSUME SentinelAssumption == /\ Fails \cap Copy = {}
                             /\ None \notin Copy \cup Entry \cup Fails

Loading == {"missed", "keyed", "leading", "fetched", "waiting", "failed"}
Writing == {"saved", "deleted", "removed"}

Call == [pc    : {"idle", "done"} \cup Loading \cup Writing,
         obj   : Objects \cup {None},
         force : BOOLEAN,
         seq   : Nat,                          \* the snapshot that keys the flight
         got   : Copy \cup Fails \cup {None},
         floor : Nat]                          \* ghost: owed[obj] when the call began

\* A goroutine that is in no call, and one that holds the answer r of its call.
Idle == [pc |-> "idle", obj |-> None, force |-> FALSE, seq |-> 0,
         got |-> None, floor |-> 0]
Answered(r, floor) == [Idle EXCEPT !.pc = "done", !.got = r, !.floor = floor]

\* A call knows its object while it runs, and holds an answer once it has one.
CallOK(k) == /\ k.pc \in Loading => k.obj \in Objects
             /\ k.pc \in {"fetched", "done"} => k.got # None
             /\ k.pc = "failed" => k.got \in Fails
             /\ k.pc \in Writing => k.obj \in Names /\ k.got \in Copy

TypeOK == /\ vault \in [Names -> [val : Data \cup {Absent}, at : Nat]]
          /\ clock \in Nat
          /\ seq \in Nat
          /\ cache \in [Objects -> Entry \cup {None}]
          /\ call \in [Callers -> Call]
          /\ \A c \in Callers : CallOK(call[c])
          /\ owed \in [Objects -> Nat]

Init == /\ vault \in [Names -> [val : Data \cup {Absent}, at : {0}]]
        /\ clock = 0
        /\ seq = 0
        /\ cache = [o \in Objects |-> None]
        /\ call = [c \in Callers |-> Idle]
        /\ owed = [o \in Objects |-> 0]

----------------------------------------------------------------------------
At(c, pc) == call[c].pc = pc

\* What the inner backend answers for an object when it is reached.
Current(o) == IF o = Listing
                THEN [val |-> {n \in Names : vault[n].val # Absent}, at |-> clock]
                ELSE vault[o]

\* A fill or a write starts a new lifetime.
Fresh(copy) == [copy |-> copy, live |-> TRUE]

Servable(o) == cache[o] # None /\ cache[o].live

Resident == {n \in Names : cache[n] # None}

\* expirable.LRU.Add: a new name in a full cache evicts the least recently used
\* one; which one that is, is left open.
Adding(n, e) ==
    IF cache[n] # None \/ MaxEntries = 0 \/ Cardinality(Resident) < MaxEntries
      THEN {[cache EXCEPT ![n] = e]}
      ELSE {[cache EXCEPT ![n] = e, ![m] = None] : m \in Resident}

\* Cache.store, Cache.storeNegative and the fill of List, for a current seq.
Filling(o, copy) ==
    IF o = Listing                            THEN {[cache EXCEPT ![o] = Fresh(copy)]}
    ELSE IF copy.val = Absent /\ ~Expiry      THEN {[cache EXCEPT ![o] = None]}
    ELSE Adding(o, Fresh(copy))

\* Every mutation bumps the sequence; the name list is dropped with it.
NotBumped == seq
Bumped == seq + 1
KeepingNames(m) == m
DroppingNames(m) == [m EXCEPT ![Listing] = None]

----------------------------------------------------------------------------
(* Load and List *)

\* A read that the cache answers.
Hit(c, o) ==
    /\ At(c, "idle")
    /\ Servable(o)
    /\ call' = [call EXCEPT ![c] = Answered(cache[o].copy, owed[o])]
    /\ UNCHANGED <<vault, clock, seq, cache, owed>>

\* A forced read, or one that finds no servable entry.
Miss(c, o, f) ==
    /\ At(c, "idle")
    /\ f \/ ~Servable(o)
    /\ call' = [call EXCEPT ![c] = [Idle EXCEPT !.pc = "missed", !.obj = o, !.force = f,
                                                !.floor = owed[o]]]
    /\ UNCHANGED <<vault, clock, seq, cache, owed>>

\* seq := c.snapshot()
Snapshot(c) ==
    /\ At(c, "missed")
    /\ call' = [call EXCEPT ![c].pc = "keyed", ![c].seq = seq]
    /\ UNCHANGED <<vault, clock, seq, cache, owed>>

\* The flights' keys hold the object and the snapshot, not whether it is forced.
SameFlightAnySeq(c, d) == call[c].obj = call[d].obj
SameFlight(c, d) == call[c].obj = call[d].obj /\ call[c].seq = call[d].seq

Leads(l) == call[l].pc \in {"leading", "fetched"}

\* singleflight.Do of the first caller of a key: it runs the fetch.
Lead(c) ==
    /\ At(c, "keyed")
    /\ \A l \in Callers : Leads(l) => ~SameFlight(c, l)
    /\ call' = [call EXCEPT ![c].pc = "leading"]
    /\ UNCHANGED <<vault, clock, seq, cache, owed>>

\* A later caller of singleflight.Do that goes off with what it has, which is nothing.
JoinEmptyHanded(c) ==
    /\ At(c, "keyed")
    /\ \E l \in Callers : Leads(l) /\ SameFlight(c, l)
    /\ call' = [call EXCEPT ![c] = Answered(call[c].got, call[c].floor)]
    /\ UNCHANGED <<vault, clock, seq, cache, owed>>
\* singleflight.Do of a later caller: it waits for the first one's result.
Join(c) ==
    /\ At(c, "keyed")
    /\ \E l \in Callers : Leads(l) /\ SameFlight(c, l)
    /\ call' = [call EXCEPT ![c].pc = "waiting"]
    /\ UNCHANGED <<vault, clock, seq, cache, owed>>

\* The inner backend's answer, as of the moment it reads the vault.
InnerLoad(c) ==
    /\ At(c, "leading")
    /\ \E r \in {Current(call[c].obj)} \cup Failures :
           call' = [call EXCEPT ![c].pc = "fetched", ![c].got = r]
    /\ UNCHANGED <<vault, clock, seq, cache, owed>>

MayFillAlways(s) == s <= seq
MayFill(s) == s = seq

\* The callers that a flight's result is handed to: its leader and its waiters.
LandsLeaderOnly(l) == {l}
Lands(l) == {l} \cup {w \in Callers : At(w, "waiting") /\ SameFlight(w, l)}

\* The end of a flight: the fill, unless a write intervened, and the result for
\* everyone that waits for it.
Land(c) ==
    /\ At(c, "fetched")
    /\ LET r == call[c].got
           o == call[c].obj
       IN  /\ IF r \in Fails \/ ~MayFill(call[c].seq)
                THEN UNCHANGED cache
                ELSE cache' \in Filling(o, r)
           /\ call' = [d \in Callers |->
                         IF d \in Lands(c)
                           THEN IF r \in Fails THEN [call[d] EXCEPT !.pc = "failed", !.got = r]
                                               ELSE Answered(r, call[d].floor)
                           ELSE call[d]]
    /\ UNCHANGED <<vault, clock, seq, owed>>

\* During an outage an ordinary read is served what is resident, expired or not,
\* except a negative.
ServesStale(c) == LET o == call[c].obj
                  IN  /\ call[c].got = Unavailable
                      /\ ~call[c].force
                      /\ cache[o] # None
                      /\ o # Listing => cache[o].copy.val # Absent

Fallback(c) ==
    /\ At(c, "failed")
    /\ call' = [call EXCEPT ![c] = Answered(IF ServesStale(c) THEN cache[call[c].obj].copy
                                                               ELSE call[c].got, call[c].floor)]
    /\ UNCHANGED <<vault, clock, seq, cache, owed>>

\* The caller takes its answer.
Return(c) ==
    /\ At(c, "done")
    /\ call' = [call EXCEPT ![c] = Idle]
    /\ UNCHANGED <<vault, clock, seq, cache, owed>>

----------------------------------------------------------------------------
(* Save and Delete                                                          *)

\* A change of the vault.
Change(n, x) == /\ clock < MaxClock
                /\ clock' = clock + 1
                /\ vault' = [vault EXCEPT ![n] = [val |-> x, at |-> clock + 1]]

Larger(i, j) == IF i > j THEN i ELSE j

\* inner.Save succeeded.
SaveInner(c, n, d) ==
    /\ At(c, "idle")
    /\ Change(n, d)
    /\ call' = [call EXCEPT ![c] = [Idle EXCEPT !.pc = "saved", !.obj = n, !.got = vault'[n]]]
    /\ UNCHANGED <<seq, cache, owed>>

\* The rest of Save: one critical section, and the caller knows of its write.
SaveCommit(c) ==
    /\ At(c, "saved")
    /\ seq' = Bumped
    /\ LET n == call[c].obj
           t == call[c].got.at
       IN  /\ \E m \in Adding(n, Fresh(call[c].got)) : cache' = DroppingNames(m)
           /\ owed' = [owed EXCEPT ![n] = t, ![Listing] = Larger(@, t)]
    /\ call' = [call EXCEPT ![c] = Idle]
    /\ UNCHANGED <<vault, clock>>

\* inner.Delete succeeded; a missing item is no error.
DeleteInner(c, n) ==
    /\ At(c, "idle")
    /\ IF vault[n].val = Absent THEN seq < MaxSeq /\ UNCHANGED <<vault, clock>>
                             ELSE Change(n, Absent)
    /\ call' = [call EXCEPT ![c] = [Idle EXCEPT !.pc = "deleted", !.obj = n, !.got = vault'[n]]]
    /\ UNCHANGED <<seq, cache, owed>>

\* Cache.Remove, called by Delete.
DeleteRemove(c) ==
    /\ At(c, "deleted")
    /\ seq' = Bumped
    /\ cache' = [cache EXCEPT ![call[c].obj] = None]
    /\ owed' = [owed EXCEPT ![call[c].obj] = call[c].got.at]
    /\ call' = [call EXCEPT ![c].pc = "removed"]
    /\ UNCHANGED <<vault, clock>>

\* Delete drops the name list in a critical section of its own.
DeleteNames(c) ==
    /\ At(c, "removed")
    /\ cache' = DroppingNames(cache)
    /\ owed' = [owed EXCEPT ![Listing] = Larger(@, call[c].got.at)]
    /\ call' = [call EXCEPT ![c] = Idle]
    /\ UNCHANGED <<vault, clock, seq>>

----------------------------------------------------------------------------
(* What the callers do not ask for *)

\* A write of n is between the inner backend and the cache.
InWrite(n) == \E c \in Callers : call[c].pc \in {"saved", "deleted"} /\ call[c].obj = n

\* Cache.Remove by the warmer: afterwards a read owes what the vault now holds,
\* unless a write of the name is about to put its own copy in place.
Remove(n) ==
    /\ seq < MaxSeq
    /\ seq' = Bumped
    /\ cache' = [cache EXCEPT ![n] = None]
    /\ owed' = [owed EXCEPT ![n] = IF InWrite(n) THEN @ ELSE vault[n].at]
    /\ UNCHANGED <<vault, clock, call>>

\* Cache.Purge: /debug/flush-cache.
Purge ==
    /\ seq < MaxSeq
    /\ seq' = Bumped
    /\ cache' = [o \in Objects |-> None]
    /\ owed' = [o \in Objects |-> IF o # Listing /\ InWrite(o) THEN owed[o] ELSE Current(o).at]
    /\ UNCHANGED <<vault, clock, call>>

\* An entry's jittered lifetime ends.
Expire(o) ==
    /\ Expiry
    /\ Servable(o)
    /\ cache' = [cache EXCEPT ![o].live = FALSE]
    /\ UNCHANGED <<vault, clock, seq, call, owed>>

\* The vault changes without the cache: another instance, a human, or a write of
\* this instance that was applied although it was reported as failed.
Edit(n, x) ==
    /\ x = Absent => vault[n].val # Absent
    /\ Change(n, x)
    /\ UNCHANGED <<seq, cache, call, owed>>

----------------------------------------------------------------------------
LoadStep(c) == \/ Snapshot(c) \/ Lead(c) \/ Join(c) \/ InnerLoad(c)
               \/ Land(c) \/ Fallback(c) \/ Return(c)

LoadNext(c) == \/ \E o \in Reads : Hit(c, o)
               \/ \E o \in Reads, f \in BOOLEAN : Miss(c, o, f)
               \/ LoadStep(c)

\* store.Store calls Save and Delete under its mutex, so that at most one write
\* is in the cache at a time.
NoWriter == \A c \in Callers : call[c].pc \notin Writing

WriteNext(c) == \/ NoWriter /\ \E n \in Names, d \in Data : SaveInner(c, n, d)
                \/ SaveCommit(c)
                \/ NoWriter /\ \E n \in Names : DeleteInner(c, n)
                \/ DeleteRemove(c)
                \/ DeleteNames(c)

EnvNext == \/ \E n \in Names : Remove(n)
           \/ Purge
           \/ \E o \in Objects : Expire(o)
           \/ \E n \in Names, x \in Data \cup {Absent} : Edit(n, x)

Next == \/ \E c \in Callers : LoadNext(c) \/ WriteNext(c)
        \/ EnvNext

Spec == Init /\ [][Next]_vars

----------------------------------------------------------------------------
\* A read never answers with a copy older than what the writes, deletes and
\* evictions completed before it began had put in place, whether the cache, a
\* flight that it joined or the stale fallback answers it.
ReadAfterWrite == \A c \in Callers : At(c, "done") /\ call[c].got \in Copy
                                        => call[c].got.at >= call[c].floor

\* No fill that was under way puts back what a write, a delete or an eviction
\* has replaced: nothing resident is older than what is owed.
NeverBehind == \A o \in Objects : cache[o] # None => cache[o].copy.at >= owed[o]

\* Why the two hold.  What is owed is in the vault; every snapshot lies in the
\* past; a flight that may still fill, and the names it fetched while a delete is
\* under way, are not behind; neither is any flight behind the readers it holds.
Holding == {"keyed", "leading", "fetched", "waiting"}
HasCopy(c) == At(c, "fetched") /\ call[c].got \in Copy

OwedIsThere == /\ \A o \in Objects : owed[o] <= Current(o).at
               /\ \A n \in Names : vault[n].at <= clock
SnapshotsArePast == \A c \in Callers : call[c].pc \in Holding => call[c].seq <= seq
FloorsAreOwed == \A c \in Callers : call[c].pc \in Loading => call[c].floor <= owed[call[c].obj]
FillsAreFresh == \A c \in Callers :
    HasCopy(c) /\ call[c].seq = seq => owed[call[c].obj] <= call[c].got.at
FlightsAreFresh == \A c, d \in Callers :
    HasCopy(c) /\ call[d].pc \in Holding /\ SameFlight(d, c) => call[d].floor <= call[c].got.at
OneWriter == \A c, d \in Callers : call[c].pc \in Writing /\ call[d].pc \in Writing => c = d
WritesAreInVault == \A c \in Callers :
    /\ call[c].pc \in Writing => call[c].got.at <= clock
    /\ call[c].pc \in {"saved", "deleted"} => /\ owed[call[c].obj] <= call[c].got.at
                                             /\ call[c].got.at <= vault[call[c].obj].at
NamesFollowDeletes == \A c, d \in Callers :
    At(c, "removed") /\ HasCopy(d) /\ call[d].obj = Listing /\ call[d].seq = seq
        => call[c].got.at <= call[d].got.at

\* The inductive invariant: in every reachable state no read can be on its way
\* to an answer, and no fill on its way to the cache, that is older than owed.
Inductive == /\ NeverBehind /\ ReadAfterWrite
             /\ OwedIsThere /\ SnapshotsArePast /\ FloorsAreOwed /\ FillsAreFresh
             /\ FlightsAreFresh /\ OneWriter /\ WritesAreInVault /\ NamesFollowDeletes

\* Every load ends, the waiters of a flight included (cache.go Load and List).
EveryLoadEnds == \A c \in Callers : call[c].pc \in Loading ~> call[c].pc \notin Loading
=============================================================================
