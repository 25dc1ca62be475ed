---------------------------- MODULE VersionStore ----------------------------
(***************************************************************************)
(* What ts1p promises of its secrets, whatever the caches, locks and       *)
(* retries below do: every write of store.Store takes effect at once on    *)
(* the vault, or not at all.                                               *)
(*                                                                         *)
(* A write that fails after it took effect (the caller is told of an error *)
(* although the backend applied it) is a step that changes the vault and   *)
(* promises nothing; one that fails before is no step.                     *)
(***************************************************************************)
EXTENDS Records

CONSTANTS Names,        \* secret names
          ConfigNames,  \* those with the prefix _internal/
          Absent,       \* what the vault holds for a name without an item
          Stored,       \* what it holds when ts1p starts: what ts1p left there before
          Validates     \* TRUE for 1Password, FALSE for the mem backend of --dev

ASSUME StoreAssumption == /\ ConfigNames \subseteq Names
                          /\ Absent \notin Record
                          /\ Stored \in [Names -> Record \cup {Absent}]
                          /\ \A n \in Names : Stored[n] # Absent => RecordOK(Stored[n])
                          /\ Validates \in BOOLEAN

VARIABLES vault,   \* the backend's records
          told     \* ghost: the assignments a caller was told of and may still read

vars == <<vault, told>>

Promise == [name : Names, version : Version, value : Values]

TypeOK == /\ vault \in [Names -> Record \cup {Absent}]
          /\ told \subseteq Promise

Init == /\ vault = Stored
        /\ told = {}

----------------------------------------------------------------------------
Exists(n) == vault[n] # Absent

\* What Backend.Save accepts: 1Password encodes and therefore validates.
Accepts(r) == Validates => ValidRecord(r)

\* Backend.Save of a write that assigns the promises in new.
Save(n, r, new) == /\ Accepts(r)
                   /\ vault' = [vault EXCEPT ![n] = r]
                   /\ told' \in {told, told \cup new}

Assigned(n, v, x) == {[name |-> n, version |-> v, value |-> x]}

\* Store.Put: 1 for a new name, the latest version for an unchanged value,
\* else a new version that is not active.
Put(n, x) ==
    /\ n \notin ConfigNames
    /\ \/ /\ ~Exists(n)
          /\ Save(n, NewRecord(1, x), Assigned(n, 1, x))
       \/ /\ Exists(n)
          /\ SameAsLatest(vault[n], x)
          /\ told' = told \cup Assigned(n, vault[n].latest, x)
          /\ UNCHANGED vault
       \/ /\ Exists(n)
          /\ ~SameAsLatest(vault[n], x)
          /\ Save(n, WithPut(vault[n], x), Assigned(n, NextVersion(vault[n]), x))

\* Store.CreateVersion's check of a version against an existing record.
MayCreate(r, v) == ~IsClaimed(r, v)

\* Store.CreateVersion does not refuse the names under _internal/.
CreateVersion(n, v, x) ==
    /\ v # 0
    /\ \/ /\ ~Exists(n)
          /\ Save(n, NewRecord(v, x), Assigned(n, v, x))
       \/ /\ Exists(n)
          /\ MayCreate(vault[n], v)
          /\ Save(n, WithVersion(vault[n], v, x), Assigned(n, v, x))

Activate(n, v) ==
    /\ n \notin ConfigNames
    /\ Exists(n)
    /\ v \in Live(vault[n]) \ {0, vault[n].active}
    /\ Save(n, WithActive(vault[n], v), {})

\* Store.DeleteVersion's checks; the active version cannot be deleted.
MayDeleteAnyLive(r, v) == v \in Live(r)
MayDelete(r, v) == v \in Live(r) \ {0, r.active}

DeleteVersion(n, v) ==
    /\ n \notin ConfigNames
    /\ Exists(n)
    /\ MayDelete(vault[n], v)
    /\ Accepts(WithoutVersion(vault[n], v))
    /\ vault' = [vault EXCEPT ![n] = WithoutVersion(@, v)]
    /\ told' = {t \in told : ~(t.name = n /\ t.version = v)}

\* Store.Delete: every version goes, and the name starts afresh at version 1.
Delete(n) ==
    /\ n \notin ConfigNames
    /\ Exists(n)
    /\ vault' = [vault EXCEPT ![n] = Absent]
    /\ told' = {t \in told : t.name # n}

Next == \E n \in Names :
            \/ \E x \in Values : Put(n, x)
            \/ \E v \in Version, x \in Values : CreateVersion(n, v, x)
            \/ \E v \in Version : Activate(n, v)
            \/ \E v \in Version : DeleteVersion(n, v)
            \/ Delete(n)

Spec == Init /\ [][Next]_vars

----------------------------------------------------------------------------
\* Every stored record is one the API can serve: its active version is live,
\* version 0 is never assigned, no version is both live and deleted, and Latest
\* is the highest version ever claimed (store.go Put, CreateVersion, DeleteVersion).
WellFormed == \A n \in Names : Exists(n) => RecordOK(vault[n])

\* An assignment that a caller of Put or CreateVersion was told of stays
\* readable with that very value until the version or the secret is deleted: a
\* version number is never given to a second value (store.go Put's return value).
AcknowledgedKept == \A t \in told : /\ Exists(t.name)
                                    /\ vault[t.name].versions[t.version] = t.value

\* A version that was ever assigned stays claimed, and keeps its value while it
\* is live, as long as the secret itself is not deleted (backend.Record.Deleted:
\* "they may never be recreated").
KeepsClaims(r, s) ==
    \A v \in Version : /\ IsClaimed(r, v) => IsClaimed(s, v)
                       /\ v \in Live(r) => s.versions[v] \in {r.versions[v], NoValue}
                       /\ v \in r.deleted => v \notin Live(s)

ClaimedForever ==
    [][\A n \in Names : Exists(n) /\ Exists(n)' => KeepsClaims(vault[n], vault'[n])]_vars

\* backend.Record.Latest, "the highest version ever assigned", never decreases
\* while the secret exists.
LatestNeverDecreases ==
    [][\A n \in Names : Exists(n) /\ Exists(n)' => vault'[n].latest >= vault[n].latest]_vars
=============================================================================
