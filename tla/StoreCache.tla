----------------------------- MODULE StoreCache -----------------------------
(***************************************************************************)
(* store.Store over backend/cache over the vault: how the atomic writes of *)
(* VersionStore come about from a mutex, a forced load, a change of the    *)
(* loaded record and a save, while other requests read through the cache.  *)
(*                                                                         *)
(* One instance of ts1p owns the vault here; what several instances do to  *)
(* each other is left to 1Password by the README (last writer wins).       *)
(***************************************************************************)
EXTENDS Cache, Records

CONSTANTS ConfigNames,  \* names with the prefix _internal/
          Validates,    \* TRUE for 1Password
          Writers,      \* the callers that write; the others only read
          Asked,        \* the writes that each of them is asked for
          Stored,       \* the records in the vault at first (see VersionStore)
          Ambiguous     \* TRUE iff a write may be applied and yet reported as failed

ASSUME StoreCacheAssumption == /\ Data = Record
                               /\ Names \subseteq Reads
                               /\ ConfigNames \subseteq Names
                               /\ Validates \in BOOLEAN
                               /\ Writers \subseteq Callers
                               /\ Stored \in [Names -> Record \cup {Absent}]
                               /\ \A n \in Names : Stored[n] # Absent => RecordOK(Stored[n])
                               /\ Ambiguous \in BOOLEAN

VARIABLES lock,  \* the holder of Store.mu
          op,    \* the write each writer is in
          told   \* ghost: the assignments callers were told of (see VersionStore)

cacheVars == vars
storeVars == <<vars, lock, op, told>>

\* The abstract store, over the values that the vault holds.
VS == INSTANCE VersionStore WITH vault <- [n \in Names |-> vault[n].val]

\* A write that got past the checks made before the mutex is taken.
Request == [kind : {"put"}, name : Names \ ConfigNames, version : {0}, value : Values]
    \cup [kind : {"create"}, name : Names, version : Version \ {0}, value : Values]
    \cup [kind : {"activate", "deleteVersion"}, name : Names \ ConfigNames,
          version : Version \ {0}, value : {NoValue}]
    \cup [kind : {"delete"}, name : Names \ ConfigNames, version : {0}, value : {NoValue}]

ASSUME AskedAssumption == Asked \in [Writers -> SUBSET Request]

\* What a write has decided to save, once it has loaded the record.
Plan == [rec : Record, new : SUBSET VS!Promise]

\* No writer, no request and no plan.
ASSUME StoreSentinelAssumption == None \notin Writers \cup Request \cup Plan

NoOp == [req |-> None, plan |-> None]

StoreTypeOK == /\ TypeOK
               /\ lock \in Writers \cup {None}
               /\ op \in [Writers -> [req : Request \cup {None}, plan : Plan \cup {None}]]
               /\ told \subseteq VS!Promise

StoreInit == /\ vault = [n \in Names |-> [val |-> Stored[n], at |-> 0]]
             /\ Init
             /\ lock = None
             /\ op = [w \in Writers |-> NoOp]
             /\ told = {}

----------------------------------------------------------------------------
MutexIgnored == TRUE
MutexFree == lock = None

\* s.mu.Lock(), and the forced load that every write but Delete starts with.
Begin(w, q) ==
    /\ At(w, "idle")
    /\ op[w] = NoOp
    /\ MutexFree
    /\ lock' = w
    /\ op' = [op EXCEPT ![w].req = q]
    /\ IF q.kind = "delete" THEN UNCHANGED cacheVars ELSE Miss(w, q.name, TRUE)
    /\ UNCHANGED told

\* defer s.mu.Unlock()
Unlock(w) == /\ lock' = None
             /\ op' = [op EXCEPT ![w] = NoOp]

Loaded(w) == call[w].got.val

\* The loaded record is in hand: op w is of one of the kinds ks.
Deciding(w, ks) == /\ At(w, "done")
                   /\ lock = w
                   /\ op[w].req # None
                   /\ op[w].req.kind \in ks
                   /\ Return(w)

\* An early return that leaves the mutex held.
RefuseLocked(w) == op' = [op EXCEPT ![w] = NoOp] /\ UNCHANGED <<lock, told>>
\* The load failed, or a check of the record did.
Refuse(w) == Unlock(w) /\ UNCHANGED told

\* The changed record, to be saved next.
Decide(w, r, new) == /\ op' = [op EXCEPT ![w].plan = [rec |-> r, new |-> new]]
                     /\ UNCHANGED <<lock, told>>

LoadFails(w) == /\ Deciding(w, {"put", "create", "activate", "deleteVersion"})
                /\ call[w].got \in Fails
                /\ Refuse(w)

Put(w) ==
    /\ Deciding(w, {"put"})
    /\ call[w].got \in Copy
    /\ LET n == op[w].req.name
           x == op[w].req.value
           r == Loaded(w)
       IN  \/ /\ r = Absent
              /\ Decide(w, NewRecord(1, x), VS!Assigned(n, 1, x))
           \/ /\ r # Absent
              /\ SameAsLatest(r, x)
              /\ told' = told \cup VS!Assigned(n, r.latest, x)
              /\ Unlock(w)
           \/ /\ r # Absent
              /\ ~SameAsLatest(r, x)
              /\ Decide(w, WithPut(r, x), VS!Assigned(n, NextVersion(r), x))

CreateVersion(w) ==
    /\ Deciding(w, {"create"})
    /\ call[w].got \in Copy
    /\ LET n == op[w].req.name
           v == op[w].req.version
           x == op[w].req.value
           r == Loaded(w)
       IN  \/ /\ r = Absent
              /\ Decide(w, NewRecord(v, x), VS!Assigned(n, v, x))
           \/ /\ r # Absent
              /\ ~IsClaimed(r, v)
              /\ Decide(w, WithVersion(r, v, x), VS!Assigned(n, v, x))
           \/ /\ r # Absent
              /\ IsClaimed(r, v)
              /\ Refuse(w)

\* Activate and DeleteVersion act on a live version that is not the active one.
IsInactive(r, v) == r # Absent /\ v \in Live(r) /\ v # r.active

Activate(w) ==
    /\ Deciding(w, {"activate"})
    /\ call[w].got \in Copy
    /\ LET v == op[w].req.version
           r == Loaded(w)
       IN  \/ /\ ~IsInactive(r, v)
              /\ Refuse(w)
           \/ /\ IsInactive(r, v)
              /\ Decide(w, WithActive(r, v), {})

DeleteVersion(w) ==
    /\ Deciding(w, {"deleteVersion"})
    /\ call[w].got \in Copy
    /\ LET v == op[w].req.version
           r == Loaded(w)
       IN  \/ /\ ~IsInactive(r, v)
              /\ Refuse(w)
           \/ /\ IsInactive(r, v)
              /\ Decide(w, WithoutVersion(r, v), {})

----------------------------------------------------------------------------
(* The save *)

Saving(w) == At(w, "idle") /\ op[w].plan # None

\* What the write does to the promises once it is in the vault.
Forgotten(q) == CASE q.kind = "deleteVersion" -> {t \in told : t.name = q.name /\ t.version = q.version}
                  [] q.kind = "delete"        -> {t \in told : t.name = q.name}
                  [] OTHER                    -> {}

\* inner.Save succeeds: the write has happened.
SaveOK(w) ==
    /\ Saving(w)
    /\ VS!Accepts(op[w].plan.rec)
    /\ SaveInner(w, op[w].req.name, op[w].plan.rec)
    /\ told' = (told \ Forgotten(op[w].req)) \cup op[w].plan.new
    /\ UNCHANGED <<lock, op>>

\* inner.Save fails, and the vault is as before.
SaveFails(w) ==
    /\ Saving(w)
    /\ Failures # {} \/ ~VS!Accepts(op[w].plan.rec)
    /\ Unlock(w)
    /\ UNCHANGED <<cacheVars, told>>

\* inner.Save fails (the client is gone, or the answer came too late), but the
\* vault has the new record.  Cache.Save returns before it touches the cache.
SaveLost(w) ==
    /\ Ambiguous
    /\ Saving(w)
    /\ VS!Accepts(op[w].plan.rec)
    /\ Change(op[w].req.name, op[w].plan.rec)
    /\ told' = told \ Forgotten(op[w].req)
    /\ Unlock(w)
    /\ UNCHANGED <<seq, cache, call, owed>>

\* The rest of Cache.Save, and the return.
SaveReturns(w) == SaveCommit(w) /\ Unlock(w) /\ UNCHANGED told

Deleting(w) == At(w, "idle") /\ op[w].req # None /\ op[w].req.kind = "delete"

DeleteOK(w) ==
    /\ Deleting(w)
    /\ DeleteInner(w, op[w].req.name)
    /\ told' = told \ Forgotten(op[w].req)
    /\ UNCHANGED <<lock, op>>

DeleteFails(w) ==
    /\ Deleting(w)
    /\ Failures # {}
    /\ Unlock(w)
    /\ UNCHANGED <<cacheVars, told>>

DeleteLost(w) ==
    /\ Ambiguous
    /\ Deleting(w)
    /\ vault[op[w].req.name].val # Absent
    /\ Change(op[w].req.name, Absent)
    /\ told' = told \ Forgotten(op[w].req)
    /\ Unlock(w)
    /\ UNCHANGED <<seq, cache, call, owed>>

DeleteEvicts(w) == DeleteRemove(w) /\ UNCHANGED <<lock, op, told>>
DeleteReturns(w) == DeleteNames(w) /\ Unlock(w) /\ UNCHANGED told

----------------------------------------------------------------------------
\* The load inside a write.
LoadGoesOn(w) == \/ Snapshot(w) \/ Lead(w) \/ Join(w) \/ InnerLoad(w)
                 \/ Land(w) \/ Fallback(w)

WriteStep(w) ==  \/ LoadGoesOn(w) /\ UNCHANGED <<lock, op, told>>
                 \/ LoadFails(w)
                 \/ Put(w) \/ CreateVersion(w) \/ Activate(w) \/ DeleteVersion(w)
                 \/ SaveOK(w) \/ SaveFails(w) \/ SaveLost(w) \/ SaveReturns(w)
                 \/ DeleteOK(w) \/ DeleteFails(w) \/ DeleteLost(w)
                 \/ DeleteEvicts(w) \/ DeleteReturns(w)

WriterNext(w) == WriteStep(w) \/ \E q \in Asked[w] : Begin(w, q)

\* Requests that read, the warmer's and /debug/flush-cache's evictions, and time.
OthersNext == \/ \E c \in Callers \ Writers : LoadNext(c)
              \/ \E n \in Names : Remove(n)
              \/ Purge
              \/ \E o \in Objects : Expire(o)

StoreNext == \/ \E w \in Writers : WriterNext(w)
             \/ OthersNext /\ UNCHANGED <<lock, op, told>>

StoreSpec == StoreInit /\ [][StoreNext]_storeVars

\* Goroutines that run are scheduled and the backend's calls end by a deadline.
FairStoreSpec ==
    /\ StoreSpec
    /\ \A w \in Writers : WF_storeVars(WriteStep(w))
    /\ \A c \in Callers \ Writers : WF_storeVars(LoadStep(c) /\ UNCHANGED <<lock, op, told>>)

----------------------------------------------------------------------------
\* The record from which a write computes the next one is the one in the vault:
\* no other write of this instance, and no fetch begun before one, comes between
\* (store.go Store.mu, WithForceRefresh; cache.go snapshot).
WriteStartsFromVault ==
    \A w \in Writers :
        /\ op[w].req # None
        /\ At(w, "done") /\ call[w].got \in Copy
        => call[w].got = vault[op[w].req.name]

\* A write that failed and may have been applied can make the next one start from an
\* older record, and lose what the failed one did (WriteStartsFromVault is then false),
\* but what it saves is a record the API can serve all the same (store.go Put,
\* CreateVersion, DeleteVersion; cache.go Save's early return).
RecordsAreSound == \A n \in Names : vault[n].val # Absent => RecordOK(vault[n].val)

\* The store over its cache implements the atomic store: the callers cannot tell
\* the difference.
Implements == VS!Spec

\* Every write that got the mutex gives it back: it never waits for a flight or a
\* lock that waits for it (store.go Store.mu held across the forced load).
EveryWriteEnds == \A w \in Writers : lock = w ~> lock # w
=============================================================================
