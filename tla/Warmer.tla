------------------------------- MODULE Warmer -------------------------------
(***************************************************************************)
(* backend/cache: the Warmer, which reads every secret again before its    *)
(* cached entry can expire, beside the traffic of the store, changes of    *)
(* the vault that the cache does not see, and /debug/flush-cache.          *)
(*                                                                         *)
(* Time is a count of ticks: deadlines and lifetimes are what is left of   *)
(* them.  Of the cache only what is servable is kept, and whether its      *)
(* sequence moved during the warmer's load (module Cache has the rest).    *)
(***************************************************************************)
EXTENDS Integers, Functions

CONSTANTS Names,
          RefreshAhead, \* warmRefreshFrac of the TTL
          MinLife,      \* the shortest and the longest jittered lifetime of an entry
          MaxLife,
          RetryGap,     \* min(warmRetryGap, refreshAhead/3)
          MaxPause,     \* the longest pause of listBO
          Window,       \* debounce of the flush endpoint
          Slow,         \* bound: ticks that the calls of one round take
          MaxEvents     \* bound: failures of the backend, changes of the vault and flushes

ASSUME WarmerAssumption == /\ {RefreshAhead, RetryGap, Window, Slow} \subseteq Nat
                           /\ RetryGap <= RefreshAhead
                           /\ RefreshAhead < MinLife /\ MinLife \in Nat
                           /\ MinLife <= MaxLife /\ MaxLife \in Nat
                           /\ MaxPause \in Nat \ {0}
                           /\ MaxEvents \in Nat

VARIABLES vault,     \* the names that have an item
          entry,     \* what is left of each name's cached entry; 0 if none is servable
          next,      \* loop's table: what is left until each tracked name is due
          relistIn,  \* what is left until relistAt
          pause,     \* what is left of wait
          pc,        \* where the loop is
          todo,      \* names that the pass over next has not reached
          target,    \* the name that is being loaded, if any
          moved,     \* Cache.seq has moved since that load began
          reprime,   \* the channel of one slot is full
          window,    \* what is left until a flush is accepted
          flush,     \* the flush request: "none", "accepted", "purged"
          cancelled, \* the context of Run
          slow,      \* ticks that this round's calls have taken
          status,    \* ghost: "warm", "failed" once, or "cold" with an excuse
          flushed,   \* ghost: names purged since their last load began
          events     \* bound: those there have been

loopVars == <<next, relistIn, pause, pc, todo, target>>
envVars == <<vault, window, flush, cancelled>>
vars == <<vault, entry, next, relistIn, pause, pc, todo, target, moved, reprime,
          window, flush, cancelled, slow, status, flushed, events>>

TypeOK == /\ vault \subseteq Names
          /\ entry \in [Names -> 0 .. MaxLife]
          /\ DOMAIN next \subseteq Names
          /\ \A n \in DOMAIN next : next[n] \in 0 .. RefreshAhead
          /\ relistIn \in 0 .. RefreshAhead
          /\ pause \in 0 .. MaxPause
          /\ pc \in {"top", "listing", "pass", "loading", "select", "backoff", "done"}
          /\ todo \subseteq DOMAIN next
          /\ IF pc = "loading" THEN \E n \in todo : target = {n} ELSE target = {} /\ ~moved
          /\ {moved, reprime, cancelled} \subseteq BOOLEAN
          /\ window \in 0 .. Window
          /\ flush \in {"none", "accepted", "purged"}
          /\ slow \in 0 .. Slow
          /\ status \in [Names -> {"warm", "failed", "cold"}]
          /\ flushed \subseteq Names

Init == /\ vault \in SUBSET Names
        /\ entry = [n \in Names |-> 0]
        /\ next = [n \in {} |-> 0]
        /\ relistIn = 0 /\ pause = 0
        /\ pc = IF RefreshAhead > 0 THEN "top" ELSE "done"
        /\ todo = {} /\ target = {} /\ moved = FALSE
        /\ reprime = FALSE /\ window = 0 /\ flush = "none" /\ cancelled = FALSE
        /\ slow = 0
        /\ status = [n \in Names |-> "cold"]
        /\ flushed = {}
        /\ events = 0

Event == events < MaxEvents /\ events' = events + 1

Tracked == DOMAIN next
\* The jitter is added to the expiry and never taken off it: randomLifetime without "- delta".
LivesUncentred == {MaxLife, 2 * MaxLife - MinLife}
Lives == {MinLife, MaxLife}

----------------------------------------------------------------------------
(* The loop *)

\* ctx.Err() at the top, before each name and while it waits; never inside a call.
Return == /\ cancelled
          /\ pc \in {"top", "pass", "select", "backoff"}
          /\ pc' = "done"
          /\ next' = [n \in {} |-> 0] /\ relistIn' = 0 /\ pause' = 0 /\ todo' = {}
          /\ UNCHANGED <<envVars, entry, target, moved, reprime, slow, status, flushed, events>>

\* The membership has its own cadence.
Top == /\ pc = "top" /\ ~cancelled
       /\ IF relistIn = 0 THEN pc' = "listing" /\ UNCHANGED todo
                          ELSE pc' = "pass" /\ todo' = Tracked
       /\ UNCHANGED <<envVars, entry, next, relistIn, pause, target, moved, reprime, slow,
                      status, flushed, events>>

\* The loop returns with the error.
AfterFailureDone == "done"
AfterFailure == "backoff"

\* A failed listing ends the round: nothing is warmed until one succeeds.
ListFails == /\ pc = "listing"
             /\ Event
             /\ pc' = AfterFailure
             /\ pause' \in 1 .. MaxPause
             /\ slow' = 0
             /\ status' = [n \in Names |-> "cold"]
             /\ UNCHANGED <<envVars, entry, next, relistIn, todo, target, moved, reprime, flushed>>

Resume == /\ pc = "backoff" /\ pause = 0 /\ ~cancelled
          /\ pc' = "top"
          /\ UNCHANGED <<envVars, entry, next, relistIn, pause, todo, target, moved, reprime,
                         slow, status, flushed, events>>

\* reconcile: new names are due at once, tracked names that are gone are evicted.
Reconcile == /\ pc = "listing"
             /\ next' = [n \in vault |-> IF n \in Tracked THEN next[n] ELSE 0]
             /\ entry' = [n \in Names |-> IF n \in Tracked \ vault THEN 0 ELSE entry[n]]
             /\ status' = [n \in Names |-> IF n \in Tracked \cap vault THEN status[n] ELSE "cold"]
             /\ relistIn' = RefreshAhead
             /\ pc' = "pass" /\ todo' = vault
             /\ UNCHANGED <<envVars, pause, target, moved, reprime, slow, flushed, events>>

Skip(n) == /\ pc = "pass" /\ ~cancelled /\ n \in todo /\ next[n] > 0
           /\ todo' = todo \ {n}
           /\ UNCHANGED <<envVars, entry, next, relistIn, pause, pc, target, moved, reprime,
                          slow, status, flushed, events>>

Warm(n) == /\ pc = "pass" /\ ~cancelled /\ n \in todo /\ next[n] = 0
           /\ pc' = "loading" /\ target' = {n}
           /\ flushed' = flushed \ {n}
           /\ UNCHANGED <<envVars, entry, next, relistIn, pause, todo, moved, reprime,
                          slow, status, events>>

\* The end of a load.
Ends(n) == /\ n \in target
           /\ pc' = "pass" /\ target' = {} /\ moved' = FALSE
           /\ todo' = todo \ {n}

\* ... after which the name is due in d, or not tracked.
Goes(n, d) == /\ Ends(n)
              /\ next' = [next EXCEPT ![n] = d]
              /\ UNCHANGED <<envVars, relistIn, pause, reprime, slow, flushed>>

\* A load that succeeds is a refresh even when its fill is dropped because a
\* write moved the sequence.
WarmOK(n) == /\ n \in vault
             /\ Goes(n, RefreshAhead)
             /\ \E life \in Lives : entry' = IF moved THEN entry ELSE [entry EXCEPT ![n] = life]
             /\ status' = [status EXCEPT ![n] = IF moved THEN "cold" ELSE "warm"]
             /\ UNCHANGED events

\* Cache.storeNegative evicts, with the same condition; the loop forgets the name.
WarmNotFound(n) == /\ n \notin vault
                   /\ Ends(n)
                   /\ next' = Restrict(next, Tracked \ {n})
                   /\ entry' = IF moved THEN entry ELSE [entry EXCEPT ![n] = 0]
                   /\ status' = [status EXCEPT ![n] = "cold"]
                   /\ UNCHANGED <<envVars, relistIn, pause, reprime, slow, flushed, events>>

\* No retry of its own.
RetriesAtCadence == RefreshAhead
RetriesIn == RetryGap

\* backend.ErrUnavailable: again soon.
WarmFails(n) == /\ Event
                /\ Goes(n, RetriesIn)
                /\ status' = [status EXCEPT ![n] = IF @ = "warm" THEN "failed" ELSE "cold"]
                /\ UNCHANGED entry

\* backend.ErrRateLimited and every other error: at the normal cadence.
WarmParks(n) == /\ Event
                /\ Goes(n, RefreshAhead)
                /\ status' = [status EXCEPT ![n] = "cold"]
                /\ UNCHANGED entry

EndPass == /\ pc = "pass" /\ todo = {}
           /\ pc' = "select" /\ slow' = 0
           /\ UNCHANGED <<envVars, entry, next, relistIn, pause, todo, target, moved, reprime,
                          status, flushed, events>>

\* select: a Reprime makes everything due ...
TakeReprime == /\ pc = "select" /\ reprime
               /\ reprime' = FALSE
               /\ next' = [n \in Tracked |-> 0]
               /\ relistIn' = 0
               /\ pc' = "top"
               /\ UNCHANGED <<envVars, entry, pause, todo, target, moved, slow, status, flushed, events>>

\* ... or the earliest deadline has come.
SomethingDue == relistIn = 0 \/ \E n \in Tracked : next[n] = 0
Wake == /\ pc = "select" /\ SomethingDue
        /\ pc' = "top"
        /\ UNCHANGED <<envVars, entry, next, relistIn, pause, todo, target, moved, reprime,
                       slow, status, flushed, events>>

----------------------------------------------------------------------------
(* Time: it passes while the loop waits, and in its calls. *)

Less(t) == IF t = 0 THEN 0 ELSE t - 1

Waiting == \/ pc = "select" /\ ~reprime /\ ~SomethingDue /\ ~cancelled
           \/ pc = "backoff" /\ pause > 0 /\ ~cancelled
           \/ pc = "done"

Tick == /\ \/ Waiting /\ UNCHANGED slow
           \/ pc \in {"listing", "loading"} /\ slow < Slow /\ slow' = slow + 1
        /\ entry' = [n \in Names |-> Less(entry[n])]
        /\ next' = [n \in Tracked |-> Less(next[n])]
        /\ relistIn' = Less(relistIn)
        /\ pause' = Less(pause)
        /\ window' = Less(window)
        /\ UNCHANGED <<vault, flush, cancelled, pc, todo, target, moved, reprime, status,
                       flushed, events>>

----------------------------------------------------------------------------
(* What goes on around it *)

\* An ordinary read of a name that has no servable entry.
Read(n) == /\ entry[n] = 0 /\ n \in vault
           /\ \E life \in Lives : entry' = [entry EXCEPT ![n] = life]
           /\ UNCHANGED <<envVars, loopVars, moved, reprime, slow, status, flushed, events>>

\* Cache.Save and Cache.Delete, by the store.
Save(n) == /\ Event
           /\ vault' = vault \cup {n}
           /\ \E life \in Lives : entry' = [entry EXCEPT ![n] = life]
           /\ moved' = (pc = "loading")
           /\ UNCHANGED <<loopVars, window, flush, cancelled, reprime, slow, status, flushed>>

Delete(n) == /\ Event
             /\ vault' = vault \ {n}
             /\ entry' = [entry EXCEPT ![n] = 0]
             /\ moved' = (pc = "loading")
             /\ status' = [status EXCEPT ![n] = "cold"]
             /\ UNCHANGED <<loopVars, window, flush, cancelled, reprime, slow, flushed>>

\* An item comes or goes behind the cache's back.
Elsewhere(n) == /\ Event
                /\ vault' = IF n \in vault THEN vault \ {n} ELSE vault \cup {n}
                /\ UNCHANGED <<entry, loopVars, window, flush, cancelled, moved, reprime, slow,
                               status, flushed>>

\* FlushCacheHandler: the check and the new time of the last flush, Purge, Reprime.
Accept == /\ flush = "none" /\ window = 0
          /\ Event
          /\ flush' = "accepted" /\ window' = Window
          /\ UNCHANGED <<vault, entry, loopVars, cancelled, moved, reprime, slow, status, flushed>>

Purge == /\ flush = "accepted"
         /\ flush' = "purged"
         /\ entry' = [n \in Names |-> 0]
         /\ moved' = (pc = "loading")
         /\ status' = [n \in Names |-> "cold"]
         /\ flushed' = Names
         /\ UNCHANGED <<vault, loopVars, window, cancelled, reprime, slow, events>>

\* Without a slot in the channel only a waiting loop takes the request.
ReprimedUnbuffered == pc = "select"
Reprimed == TRUE
Primed == /\ flush = "purged"
          /\ flush' = "none"
          /\ reprime' = Reprimed
          /\ UNCHANGED <<vault, entry, loopVars, window, cancelled, moved, slow, status, flushed, events>>

\* serve returns, by a signal or with an error.
Cancel == /\ ~cancelled
          /\ cancelled' = TRUE
          /\ UNCHANGED <<vault, entry, loopVars, window, flush, moved, reprime, slow, status,
                         flushed, events>>

----------------------------------------------------------------------------
Call(n) == WarmOK(n) \/ WarmNotFound(n) \/ WarmFails(n) \/ WarmParks(n)

Loop == \/ Return \/ Top \/ ListFails \/ Resume \/ Reconcile \/ EndPass \/ TakeReprime \/ Wake
        \/ \E n \in Names : Skip(n) \/ Warm(n) \/ Call(n)

Other == \/ \E n \in Names : Read(n) \/ Save(n) \/ Delete(n) \/ Elsewhere(n)
         \/ Accept \/ Purge \/ Primed \/ Cancel

\* Once the loop has returned only time passes: nothing below speaks of the rest.
Around == pc # "done" /\ Other

Next == Loop \/ Tick \/ Around

Spec == Init /\ [][Next]_vars

\* The loop's goroutine runs, its calls end (sdkCallTimeout), and time passes.
FairSpec == Spec /\ WF_vars(Loop) /\ WF_vars(Tick)

----------------------------------------------------------------------------
\* By how much a refresh can be late: its name was passed by in a round whose other
\* calls then take their time, and so do those before it in the next round.
Overrun == 2 * Slow - 1

\* Between a refresh and the shortest lifetime fits one retry, both of them late.
RoomToRetry == /\ Slow > 0 /\ RetryGap > 0
               /\ RefreshAhead + RetryGap + 2 * Overrun < MinLife

\* A tracked secret that was warmed does not become cold without a reason, one
\* failed refresh included: its refresh, and the retry, come before the shortest
\* lifetime has passed, also behind slow rounds, provided that RoomToRetry
\* (warmer.go: warmRefreshFrac, warmRetryGap).  The excuses are in the actions that set "cold".
StaysWarm == \A n \in Tracked : status[n] # "cold" => entry[n] > 0

\* No Reprime is lost, however it falls between a listing, a pass and an earlier
\* Reprime: the loop does not go to wait while a secret that it tracks was purged
\* and has not been read since.
FlushIsRepaired == pc = "select" /\ ~reprime /\ flush = "none"
                       => \A n \in flushed \cap Tracked : next[n] = 0

\* A secret made elsewhere is found, failed listings or not.
EveryNameIsFound == vault \ Tracked # {} ~> vault \subseteq Tracked \/ cancelled

\* reconcile: "a secret deleted out-of-band stops being served at the next relist".
DeletedStopsAtRelist ==
    [][pc = "listing" /\ pc' = "pass" => \A n \in Names \ vault : entry'[n] = 0]_vars
=============================================================================
