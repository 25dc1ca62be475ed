# ts1p in TLA+

ts1p is a server that speaks setec's secrets API over a 1Password vault. These
modules model the parts of it in which order matters: what a write does to a
secret's versions, how writes are kept from losing each other, how the read
cache stays behind nothing it should not be behind and is kept warm, how the SDK
is called over a core that may be broken, and how requests run inside a process
that is stopped. TLC checks the models on small instances; TLAPS proves the main
invariants for every instance.

## The system

| Part | State | Operations | What is hard, and what makes it correct |
|---|---|---|---|
| `backend.Record` | active, latest, live and deleted versions | built and changed by the store | the active version is live, a version number is never reused, `Latest` bounds all claims, on a uint32 |
| `store.Store` | one mutex | `Put`, `CreateVersion`, `Activate`, `DeleteVersion`, `Delete`; lock-free reads | each write is a forced load, a decision and a save under the mutex: it must start from what the vault holds, and act as one atomic step |
| `backend/mem` | a map | the `Backend` interface | none: it is the reference backend, and validates nothing |
| `backend/cache.Cache` | record LRU, name list, mutation sequence, flights | `Load`, `List`, `Save`, `Delete`, `Remove`, `Purge` | fills race writes; misses share flights; errors fall back to stale entries. Nothing may answer with, or put back, what a completed write replaced |
| `cache.Warmer` | a deadline for each name, the relist time, a one-slot channel | `Run`, `Reprime`, `Wait` | every name is re-read before it can expire; names that leave the vault are evicted; retries by class of error |
| `backend/onepassword` | title to ID memo, timeout and fault counters, recycle time | the `Backend` interface over the SDK | titles are not unique, the memo goes stale, SDK calls hang, fault and are applied although they fail; the process exits to reset the core |
| `server` | none but the audit log and its mutex, and the last flush | one handler per API method, `AdminGate`, `/debug/flush-cache` | identity, permission, audit and effect in that order; nothing happens unaudited; the status is true |
| `cmd/ts1p` | the running parts, the defers of `serve` | start-up, the three serve modes, drain, teardown | requests get their grace period; what is closed has no user left; every stop ends |

Requests call the server, which calls the store, which calls the cache, which
calls 1Password. The warmer calls the cache too, in a goroutine of its own, and
`/debug/flush-cache` calls the cache and the warmer. Store and warmer meet only
in the cache: its sequence number, its LRU and its flights are the shared state.
`cmd/dashboard`, `cmd/vendorhash` and the Nix files keep no state and are not
modelled.

## The modules

    Records            one record, and the changes of it
      Records_proofs
      VersionStore     the abstract store: every write is one atomic step
        VersionStore_proofs
    Cache              the cache, its callers and its flights, over the vault
      Cache_proofs
      StoreCache       Cache + Records: mutex, forced load, decision, save;
                       implements VersionStore
        StoreCache_proofs
    Backend            what a backend promises: a map, calls that act at one moment
      OnePassword      items, titles, the memo and the SDK calls of the backend;
                       implements Backend
        OnePassword_proofs
    SdkCall            what surrounds every call of the SDK, and the process
      SdkCall_proofs
    Warmer             the warmer over time, with the flush endpoint
      Warmer_proofs
    Server             one API request, from its arrival to its answer
      Lifecycle        Server + the process around it: start-up, drain, teardown
        Lifecycle_proofs

How they fit: `Server` takes the store's answers as `VersionStore` and
`StoreCache` have them; `StoreCache` and `Cache` take the vault as `OnePassword`
shows it to its callers, which is `Backend` (every call acts at one moment; a
failure, perhaps after it took effect); `OnePassword` takes each SDK call as one step that
may fail before or after its effect, which is what `SdkCall` makes of retries,
deadlines and exits; `Warmer` keeps of the cache what is servable. `Lifecycle`
has the process die in a backend call at any time, as `SdkCall` does.

An `MC...` module gives the constants of a run their values, and each `.cfg` is
one question. `PROJECT.json` lists the runs, the source lines of every
definition, a mutant that breaks each checked property, the hazards and the
theorems.

### Records and VersionStore

A record is total over `Version == 0 .. MaxVersion` with `NoValue` for versions
that are not live: `Live(r)` is the key set of `Record.Versions`. `MaxVersion`
stands for 2^32 - 1, and `NextVersion` wraps as the uint32 does.

`VersionStore` says what clients are promised. Each method of `store.Store` is
one action on `vault`. `Validates` tells 1Password, whose encoding refuses an
inconsistent record, from the mem backend, which does not. Versions 0 and names
under `_internal/` are refused as the code refuses them: `CreateVersion` has no
check of the prefix, so it may create such a name, and nothing but another
`CreateVersion` changes it.

A caller is not always told of its write: `Save` lets `told`, a ghost, grow or
not. `told` holds the assignments (name, version, value) that some caller of
`Put` or `CreateVersion` knows of, less those a delete has since removed. The vault holds `Stored` at first: nothing,
in the run, and any sound records, in the proofs.

### Cache

`call[c]` is where goroutine `c` is in a call. A read goes

    idle -> missed -> keyed -> leading -> fetched -> done        Miss, Snapshot, Lead, InnerLoad, Land
                            \-> waiting ------------^            Join
                                        failed -> done           Fallback

or is a `Hit`. Each arrow is a step between which anything else may happen:
`Snapshot` is a critical section, `Lead` and `Join` are `singleflight.Do`,
`InnerLoad` is the instant at which the inner backend reads the vault, `Land` the
end of the flight (the fill under the mutex and the release of the waiters, merged
into one step: a waiter that is released later only answers later), and
`Fallback` what follows an error. `Load` and `List` have the same steps; they
differ in `Filling` (records go to the LRU, negatives are kept only with expiry
on, the name list has a slot of its own) and in `ServesStale`. A write goes
`idle -> saved -> idle` (`SaveInner`, `SaveCommit`) or `idle -> deleted ->
removed -> idle` (`DeleteInner`, `DeleteRemove`, `DeleteNames`). A write that
fails before the vault changed is no step, and one that fails afterwards is an
`Edit`. `Remove` (the warmer) and `Purge` (the flush endpoint) may come at any
time. Which entry a full LRU evicts is left open, and so is the moment at which
an entry expires: properties hold whatever the recency and the jitter.

What the vault holds for a name is a copy: a value and the time of the change
that put it there. Times exist in the model only. `owed[o]` is the time of the
newest copy of `o` that a completed write, delete or eviction has put in place
or made way for; a read is to answer with nothing older than `owed[o]` when the
read began (its `floor`). A change behind the cache's back (`Edit`) owes nothing:
the cache may serve the old copy until it expires.

### StoreCache

Adds to `Cache` the mutex, the request each writer is in, and the decision that
follows the forced load. A write is `Begin` (lock, start the forced load), the
steps of that load, one of `Put`, `CreateVersion`, `Activate`, `DeleteVersion`
or `LoadFails`, then `SaveOK` and `SaveReturns`, or `SaveFails`. `Delete` has no
load. With `Ambiguous`, a write may be applied and reported as failed
(`SaveLost`, `DeleteLost`): the caller's context ended while the SDK call ran, or
the call's own deadline passed. One instance owns the vault here: there is no
out-of-band edit in `StoreSpec`. `Asked` has the requests that each writer may be
in, `Stored` the records at first.

`Implements` is the refinement: with `vault[n].val` for the abstract vault,
every step is a step of `VersionStore` or changes nothing there. The write takes
effect at `SaveOK` (or where a `Put` finds its value unchanged).

### OnePassword

The vault is a map from item IDs to items, a title and a content: a record, or
what a human made of it (`Foreign` has no `ts1p-meta` field, `Mangled` has an
unreadable one). `op[p]` is where goroutine `p` is in `Load`, `Save`, `Delete`
or `List`:

    idle -> list -> listed -> found -> done            load
             ^                     \-> put -> done      save of an item that is there
             |                     \-> deleted -> done  delete
             |           \-> create -> created -> done  save of a new one
             \----- lost <- found                      the Get failed: forget, look again

`Start` looks in the memo, and goes straight to `found` if it knows the name.
Each SDK call (`ListItems`, `Get`, `Put`, `Create`, `DeleteItem`) is one step,
and so is each critical section of `idmu` (`Start`, the `Resolves...` actions
and `ListReturns` with `Remember`, `Forget`, `RememberCreated`,
`ForgetDeleted`); between any two of them others may change the vault or replace
the memo. With `Failing` a call may fail without effect, and one that changes an
item may be applied and fail (`Applied`). The SDK refuses to act on an item that
is gone; whether it refuses to `Put` over an item that has changed is left open.
`Plant`, `Trash` and `Spoil` are other instances and humans. A second item of a
title is planted only with `Overlap`: without it the answer to duplicate titles
(`ResolvesToMany`) is never needed, and only `onepassword_two` takes that step.

`Overlap` says whether two instances may write at once. Without it, writes are
one at a time, as in the documented way of running two instances: those of one
by the store's mutex, those of the others by routing. `seen[p]`, a ghost, is what the vault
held for the name of `p`'s call at each moment since the call began, and so what
it may answer.

Titles do not change here, and a call that has failed takes no effect later on.

`Backend` is what the callers of a backend go by: the map of `backend/mem`, with
calls that may fail, before their moment or after it, and with others who remove,
spoil or add records. `ActsAtOneMoment` is the refinement. The map has for a title
what a load of its item would return (`Stored`); a call has taken its answer
(`Took`) at the `Get` of a load, at the `Put`, `Create` or `DeleteItem` of a
write, and for a load or a delete of a title that is free at the listing that does
not have it, although the memo is only replaced later. `List` reads all
titles at once in `ListItems`, and is no call of `Backend`.

### SdkCall

`call[c]` is where goroutine `c` is in `Backend.call`:

    idle -> running -> decide -> idle             Begin, Answer, Succeeds | Fails | TimesOut | CallerLeft
              |  ^---- decide (fault of a read)   FaultAgain
              v  |
            backoff (error of a read)             Again

`Timeout` is the deadline of the whole call, in a run or between two; `Exit` is
`os.Exit`, from `Recycle`, `FaultExits` or the last `TimesOut`, and takes every
other goroutine with it. `core` says what a run may end with (`Possible`): a
wedged core only faults, a hung one does not answer. `Patient` callers are those
whose context nobody cancels: the cache detaches the context of its reads, and
the warmer reads for as long as the process is up. `runs` and `seen` are ghosts
of what one call has done; `lost` counts the timeouts of callers that were still
there since the core hung. No durations are kept: a deadline may pass at any
moment.

### Warmer

Time is discrete: `next`, `relistIn`, `pause`, `window` and `entry` are what is
left of a deadline, a pause, the debounce window and a cached entry. `Tick` takes
one off each; it waits while the loop has something to do, and passes in the
loop's calls up to `Slow` ticks a round. The loop is

    top -> listing -> pass -> loading -> pass -> select -> top
              \-> backoff -> top

with one action per branch of its `switch`. The pass visits the due names in any
order, as the range over a Go map does. A listing takes effect at its end. A load
that the sequence overtook (`moved`) leaves the cache alone: the fill, or the
eviction of a name that is gone, is dropped while the loop goes on as if it had
happened. The LRU has room for all names (its bound is off by default), and
nobody else reads with force. Around the loop, traffic reads what is not cached, the store saves and
deletes, items come and go elsewhere, and the flush endpoint does its three
steps. `status` is a ghost: a secret is `warm` once a fill was stored, `failed`
after one failed refresh, and `cold` with an excuse: never loaded, a failed
listing, two failures in a row, a quota or a permanent error, a dropped fill, a
delete, a flush. `MaxEvents` bounds failures, edits, saves, deletes and flushes
together.

### Server and Lifecycle

`req[r]` is what the goroutine of a request is doing:

    idle -> arrived -> known -> auditing -> granted -> (listing) -> done
                         \-> granted -> fresh -> auditing -> done   a conditional get

Each early return is an action that ends in `done` with a status; the operation
`flush` is `AdminGate`. `auditor` holds `auditMu`: the entry is one step inside
it, and fails on a log that was closed meanwhile. `grants` is what the caller's
capabilities allow for the action that this request needs. Whether a caller has
left is asked where the code asks it, when a failure is about to be answered
(`Gone`). Any failure may meet a caller that is there: "cancelled" too, the
`context.Canceled` of somebody else, such as the owner of a shared fetch, which
`serveJSON` answers with 503 since silence would be an empty 200. The store's calls
are one step, but for `store.List`, which loads name by name while others delete:
an outage ends it (`EndsListing`), and a name that fails to load for any other
reason, a cancellation included, is left out of the 200. `applied` and `entry` are ghosts, the effect and the
audit entry of the request; `kept` is what a listing must not leave out: what it set out to load, less what has
been deleted and what failed by itself.

`Lifecycle` adds `phase`, the place in `serve`, and `defers`, what `serve` has
opened and closes in reverse. `drain` is `shutdownOnDone`: `serveTLS` shuts the
server of port 80 down first, and both share the one grace period, after which
requests may go on under the teardown. When the listener fails by itself
(`ListenerFails`) there is no drain, and connections that are still open may bring new requests until tsnet is closed.
`BackendExits` is `SdkCall`'s `Exit`. A process that ended may start again; its
requests are gone, the vault stays, except that of `--dev`.

## The runs

| Run | Instance | Shows |
|---|---|---|
| `versions` | 1 name and 1 under `_internal/`, 2 values, versions to 3 | `TypeOK`, `WellFormed`, `AcknowledgedKept`, `ClaimedForever`, `LatestNeverDecreases` over 1Password |
| `cache` | 2 names that are written, one of them and the name list are read; 2 callers, LRU of 1, expiry on, 1 vault change, one eviction or flush | `ReadAfterWrite`, `NeverBehind` and the inductive invariant: eviction for want of room, negatives, outages, writes of one name during fetches of the other, deletes during listings |
| `store_cache` | 1 name, 2 writers, 1 reader, 2 values, versions to 2, 3 changes, one eviction | `WriteStartsFromVault`, `Implements`, and the cache's invariant under the store's writers |
| `store_cache_live` | the same from a record of versions 1 and 2 with different values, versions to 3, 2 changes; one writer may `Put`, create version 3 and delete, the other activate and delete version 2; ambiguous failures | `RecordsAreSound` (each kind of write saves what it computed from an older record of two versions), `EveryWriteEnds`, `EveryLoadEnds` |
| `onepassword` | 1 title, 3 items, 2 records, 2 goroutines of one instance, failing calls | `AnswersAreCurrent`, `OneItemPerTitle`, the inductive invariant, and `ActsAtOneMoment`: the refinement of `Backend` |
| `sdk_call` | a patient and an impatient goroutine, 2 runs inside a runOp, 1 more runOp after a fault, 3 timeouts, recycling on | `RetriesStayInBudget`, `BrownoutIsBounded`, and `CoreIsReplaced`: a bad or old core ends its process |
| `warmer` | 2 secrets, refresh after 2 ticks, lifetimes of 6 to 7, retry after 1, 1 slow tick a round, 2 events | `StaysWarm`, `FlushIsRepaired`, `EveryNameIsFound` |
| `service` | 2 requests: a listing, flush, conditional get or create beside a delete; 2 secrets; a TLS process with everything and a `--dev` one | `NothingUnaudited`, `StatusTellsTheTruth`, `ListingIsComplete`, `DrainsFirst`, `GraceIsKept`, `WarmerStopsFirst`, `EveryStopEnds` |

Bounds. `MaxClock` bounds the changes of the vault. The hazards of the cache
need a copy, a change that replaces it and a fetch from before it; the store's
need two writes, of which the second starts from the wrong record, over an item
that a third one made; `store_cache_live` has that item at first, so that its two
changes are a write that was applied and reported as failed and the next one, which
computes from the record before it. `MaxSeq` bounds only the steps that could go on without
changing the vault (evictions, deletes of nothing): none begins once the sequence
has reached it, while writes still bump the sequence; one eviction is enough to
come between a fetch and its fill, and the writes add theirs. Three versions
hold a deleted one, an active one and the largest. Three items are one that a
memo or a listing remembers, one that replaced it, and one that a retried save
might add. The changes of the vault that need more than `cache`'s one are those
of `store_cache`, and the proofs bound nothing. `MaxTries`, 4 in the code, and
the fault retries are counters whose limit has to be met, not their size; the
three timeouts are the code's. In `warmer` the distances keep the proportions of
an expiry above some two minutes: between the refresh (0.75 of the TTL) and the
shortest lifetime (0.8) fit one retry and two refreshes that are late by up to two
slow rounds each (`RoomToRetry`); with one tick less the code does not keep a
secret warm through a failure. Two events are a failure and a
change, or a flush and a failure, at every moment. `service` asks of each
goroutine the operations that differ in their steps: `get`, `get-version`,
`info`, `put`, `activate` and `delete-version` take the steps of those it asks.
Callers are
interchangeable, as are names and values, which is what the symmetry sets say;
the liveness runs use none. Deadlock is checked in every run: it would be a goroutine that cannot move on,
and no other that can.

Fairness. A goroutine that runs is scheduled, and the inner backend ends every
call by a deadline of its own (`sdkCallTimeout`), so each load's steps are weakly
fair, and so are each write's (`FairStoreSpec`). In `SdkCall` the steps of a
call are fair, and `Patient` callers call again and again, as the warmer does;
`CoreIsReplaced` ends with the end of the process, so that nothing is assumed of
systemd, which gives up after 5 starts in 10 minutes (`module.nix`). In `Warmer` the loop and
time go on; `EveryNameIsFound` needs no success of any call beyond the bound on
events. In `Lifecycle` the teardown, the warmer's return and a start-up whose
context was cancelled go on; requests need not: a stop ends whatever they do. No
fairness is assumed of callers, of expiry or of edits. A mutex that several wait for is
not assumed to be fair: `EveryWriteEnds` is about the holder.

### Where the code and its words part

Four runs are expected to fail; each checks what a comment of the repository
says against what the code does. `PROJECT.json` quotes the lines.

- `warmer_gone`: a relist evicts the names of the warmer's own table that are
  gone. A secret that was created, read and deleted between two relists never was
  in the table, and one whose not-found load could not evict it (the sequence,
  which all names share, had moved) no longer is: both are served until they
  expire, although the deleted ones are to stop at the next relist.
- `store_cache_lost`: after a write that was applied but reported as failed the
  sequence is unchanged, so that the next write's forced load can join a fetch
  from before it. That next write then undoes the first.
- `onepassword_two`: two instances that save a new secret at once each find the
  title free and create an item. The README promises last-writer-wins; instead
  the secret has two items, and each operation that lists the vault refuses it.
- `onepassword_delete`: a delete by a memoized ID fails if the item was removed
  elsewhere, and goes on failing, since only a successful delete forgets the ID
  (a load or a listing repairs it). `backend.Backend` says that deleting a missing
  secret is not an error.

Seen while modelling, and in no run: over the mem backend `Latest` wraps to 0 by a
`Put` after `CreateVersion` of the largest version (1Password refuses that record,
so the secret takes no further `Put` there). A forced read may join a flight that
has its answer already, and return what the vault held before the read began, for
the same reason as in `store_cache_lost`. A call that the core answered for a
caller that has left does not reset the count of consecutive timeouts, which is
documented as reset by any success.

## The proofs

`Records_proofs` (for any values and `MaxVersion`) has the lemmas on the changes of
a record that `VersionStore_proofs` and `StoreCache_proofs` cite: each write of the
store keeps `RecordOK`. The crux is `ValidPutDoesNotWrap`: a `Put` that wraps
yields a record in which the active version exceeds `Latest`, so the backend
refuses it.

`VersionStore_proofs` (for any names, values and `MaxVersion`):

- `TypeCorrect`: `TypeOK`, with `Validates` either way.
- `RecordsStayWellFormed`, `AcknowledgedWritesAreKept`, `ClaimsAreForever`,
  `LatestIsMonotone`, assuming `Validates` (without it a `Put` that wraps refutes the
  last). `TypeOK /\ WellFormed /\ AcknowledgedKept` is inductive: an assignment
  is kept because the new version is above `Latest` or unclaimed, and every live
  version is claimed and at most `Latest`. One lemma per write shows that it keeps
  the records and the claims; `Step` joins them.

`Cache_proofs` (for any names, callers, capacity, errors and bounds, under
`CacheAssumption` and `SentinelAssumption`):

- `TypeCorrect`: `TypeOK`.
- `InductiveInvariant`, and from it `ReadsFollowWrites` (`ReadAfterWrite`) and
  `CacheNeverFallsBehind` (`NeverBehind`). Neither is inductive alone, since
  both speak of what has arrived and the danger is on its way. `Inductive` adds
  that what is owed is in the vault (`OwedIsThere`), that snapshots are past
  (`SnapshotsArePast`), that a fetched copy whose flight may still fill is not
  behind (`FillsAreFresh`), nor behind the floor of any goroutine with the key of
  that flight (`FlightsAreFresh`), and what a write between its two halves
  guarantees (`WritesAreInVault`, `NamesFollowDeletes`). Everything that raises
  `owed` bumps the sequence first or in the same step, so that older flights can
  neither fill nor be joined. The exception is `DeleteNames`, which raises what
  is owed of the list after the bump of `DeleteRemove`: hence
  `NamesFollowDeletes`, a listing keyed after the bump has seen the delete. The
  proof has one lemma for the steps of reads, one for those of writes, one for
  the rest; `ShiftLemma` and `MoveLemma` say what an unchanged part keeps.

`StoreCache_proofs` (for any writers, readers, secrets and bounds, under the
assumptions of `Records`, `Cache` and `StoreCache`):

- `StoreTypeCorrect` (`StoreTypeOK`), `StoreUsesTheCache` (the store is a caller
  that `Cache` allows: `StoreSpec => Spec`) and `StoreKeepsTheCache`, so that
  what is proved of `Cache` holds under the store. The invariant, `Typed`, is that
  only the holder of the mutex is in a write (`MutexInv`), and that a flight of a
  name brings a record or nothing (`RecordsAreLoaded`).
- `WritesStartFromVault` (`WriteStartsFromVault`) and `StoreIsAtomic`
  (`Implements`), assuming `~Ambiguous`: with ambiguous failures
  `store_cache_lost` refutes the first. A forced load may join a flight, so
  `Serial` speaks of flights before it speaks of writes: one that a writer may
  still join, or has joined, has the copy that is in the vault
  (`FlightsAreTrue`, `JoinsAreTrue`), because the sequence moves in the step that
  changes the vault or before the mutex is given back; what a writer loaded is then
  the record in the vault, and so is what its plan was computed from
  (`PlansAreTrue`). `ToldExist` adds that every promise is of a secret that
  exists. From that, `SaveOK` and `DeleteOK` are the abstract writes, a decision
  that answers at once is the abstract refusal or the abstract no-op, and every
  other step is a stutter. Out-of-band edits are no steps of `StoreSpec`.
- `StoreKeepsWhatItAcknowledged`, `StoreKeepsClaims` and `StoreKeepsLatest`,
  assuming `Validates` too: what `VersionStore` promises holds of the store over
  its cache. They need no new invariant: the refinement carries the theorems of
  `VersionStore_proofs` down. `StoreReadsFollowWrites` does the same with
  `ReadAfterWrite` of `Cache`.
- `StoreKeepsRecordsSound` (`RecordsAreSound`), assuming `Validates` only: also
  with ambiguous failures, when a write may start from an old record and undo
  another, the vault never holds an unsound record if it held none at first. The refinement is of no use
  here, so `CopiesAreSound` is an invariant of its own: every copy that a
  call has in hand on its way from the vault to a decision is sound, however old,
  and so is what a writer is about to save, or the backend refuses it.

`OnePassword_proofs` (for any titles, records, items, instances and goroutines,
under `OnePasswordAssumption`; all but the first also under `~Overlap`, without
which `onepassword_two` refutes them):

- `TypeCorrect`: `TypeOK`, which says too what a call has in hand at each of its
  steps.
- `InductiveInvariant`, and from it `TitlesStayUnique` (`OneItemPerTitle`) and
  `CallsAnswerAsTheVault` (`AnswersAreCurrent`). `Inductive` adds that an ID in a
  memo, a call or a listing is `Right`: its item had that title and still has it
  unless it is gone, which no step undoes (`RightStays`); that a listing without
  the name, or with two of it, was seen (`ListingIsRight`); and that a save's
  listing stays complete, since nobody creates an item while a save is under way
  (`SaveKnowsTheVault`, `OneWriter`). The proof has a lemma for each step of the
  goroutine that moves (`...Right`), `OtherCall` for those that do not,
  `VaultMoves` for the vault and `MemoRight` for the memo.
- `CallsActAtOneMoment` (`ActsAtOneMoment`): `OnePassword` implements `Backend`.
  `Inductive` says that the item a call acts on is the one of its title, so that a
  change of it changes the map there and nowhere else (`StoredChange`). A step of a
  call is then its moment (`LoadMoment`, `ChangeMoment`, `FailMoment`), or one that
  takes nothing (`Stutters`); there is a lemma for each action (`...Steps`).

`SdkCall_proofs` (for any finite set of callers, any `MaxTries`, `FaultRetries`
and `MaxTimeouts`, under `SdkCallAssumption`):

- `TypeCorrect`: `TypeOK`; and `RetriesStay` (`RetriesStayInBudget`), from
  `CallOK`: the runs of a call are at most `attempt * MaxTries + tries`, a write
  never backs off, and an outcome that forbids a retry is the last one seen.
- `BrownoutStaysBounded` (`BrownoutIsBounded`). The count is shared, and a
  goroutine with a success in hand from before the core hung may still reset it,
  once; the others (`Free`) can only time out. So every goroutine that becomes
  free wipes out at most `MaxTimeouts - 1` timeouts, and `CostInv` bounds `lost`
  by the count plus that much for each free goroutine but one.

`Warmer_proofs` (for lifetimes, gaps and cadences of any length, under
`WarmerAssumption`):

- `TypeCorrect`, and `NoFlushIsLost` (`FlushIsRepaired`), from
  `InductiveInvariant`. `FlushIsRepaired` speaks of the select only; `Repaired`
  extends it to the whole loop: a flushed name is due, or the `Reprime` is in the
  channel or still to be sent, also for the name that a load has in hand when the
  purge comes.
- `SecretsStayWarm` (`StaysWarm`), assuming `RoomToRetry`:
  `RefreshAhead + RetryGap + 2 * (2 * Slow - 1) < MinLife`. The invariant compares
  the two clocks of a name: what is left of its entry is at least what is still
  `Ahead` of it, its deadline and what the current round may add, plus, while no
  refresh has failed, the `Allowance` for one retry and the rounds it may be late.
  Without the room TLC refutes `StaysWarm`, and the code promises no more: its
  retry gap is capped at 5 s whatever the expiry.

`Lifecycle_proofs` (for any requests, names and secrets, under the assumptions of
`Server` and `Lifecycle`): from `InductiveInvariant`, `TypeCorrect`,
`EverythingIsAudited` (`NothingUnaudited`), `StatusesAreTrue`
(`StatusTellsTheTruth`), `ListingsAreComplete` (`ListingIsComplete`),
`RequestsAreDrained` (`DrainsFirst`), `GraceIsNotCutShort` (`GraceIsKept`) and
`WarmerIsStopped` (`WarmerStopsFirst`). `DrainsFirst` is about the exits after a
signal: a listener that fails takes `serve` down at once, with requests inside it,
and nothing in the code waits for them. `GraceIsKept` bounds that exception:
it is open only while the server of the requests still accepts, so that no error
cuts a drain of it short, that of `http.ErrServerClosed` least of all.
`Inductive` has one conjunct for a request, `RequestOK` (what it has in hand at
each step, its entry before its effect), and two for the process: `StackInv`,
the stack of defers is a prefix of what `serve` opens and says what is open, and
`DrainInv`, no request is left when `serve` closes, or its grace is over. In
`RequestOK`, what a listing owes (`kept`) is within what it has and what it has still
to load, and one that ends with names to load was not ended by an unreadable record.

The assumptions only say that the sentinels (`None`, `Absent`, the errors, the
list's key) are not records or copies, that bounds are in range, and that the records
which the store finds at first (`Stored`) are sound; `WarmerAssumption` says too
that a retry comes no later than the refresh it stands for, as `warmRetryGap` is cut
down to a third of it. TLC evaluates them in every run.

Only model-checked: the liveness properties (`EveryWriteEnds`, `EveryLoadEnds`,
`CoreIsReplaced`, `EveryNameIsFound`, `EveryStopEnds`), since fairness and ENABLED
are out of the prover's reach. Every other property of a passing run is a theorem.

## Not modelled, and why

- Values, encodings, sizes (the 1 MiB limit of `ts1p-meta`), the human-readable
  field and the merging of foreign fields: data that no property here tells apart.
- `Clone`: TLA+ values are not shared, so that aliasing cannot be seen.
- Time in `Cache`: an entry may expire at any moment (`Warmer` has the clock).
- Two flushes at once, which the debounce of the endpoint all but excludes, and
  the warmer as a caller of `Cache` step by step: `Warmer` keeps of its loads
  whether the sequence moved.
- A call of the SDK that takes effect after `call` gave it up, and items that a
  human renames (see the plan).
- How the text of an error is classified (`classify`, `isWASMFault`): the models
  take the class.
- Metrics, logs, JSON, TLS, tsnet, flags, the dashboard, the vendor hash, Nix.

## Plan

What is left, in this order:

1. `OnePassword` with items that a human renames, and calls that take effect
   after they were given up: a retried `Create` may then make a second item.
2. `Warmer` with lifetimes too short for a retry, and two flushes at once.
