------------------------------ MODULE Records ------------------------------
(***************************************************************************)
(* One secret across all of its versions: backend.Record and the changes   *)
(* that store.Store makes to it between the Load and the Save of a write.  *)
(*                                                                         *)
(* A version is a uint32 (setec's api.SecretVersion).  Its width is kept:  *)
(* MaxVersion stands for 2^32 - 1 and the increment of Put wraps at it.    *)
(***************************************************************************)
EXTENDS Integers

CONSTANTS Values,      \* the secret values a client may write
          NoValue,     \* what a version that is not live holds
          MaxVersion   \* the largest api.SecretVersion

ASSUME RecordAssumption == /\ MaxVersion \in Nat \ {0}
                           /\ NoValue \notin Values

Version == 0 .. MaxVersion

\* Record.Versions is a map from the live versions only; here it is total and
\* NoValue marks the versions that are not its keys.
Record == [active   : Version,
           latest   : Version,
           versions : [Version -> Values \cup {NoValue}],
           deleted  : SUBSET Version]

\* The keys of Record.Versions.
Live(r) == {v \in Version : r.versions[v] # NoValue}

\* Record.IsClaimed: v was assigned once, whether it is live or deleted.
IsClaimed(r, v) == v \in Live(r) \cup r.deleted

\* onepassword.validateRecord, run on every encode and every decode.
ValidRecord(r) ==
    \/ Live(r) = {}
    \/ /\ r.active \in Live(r)
       /\ \A v \in Live(r) : v <= r.latest

\* A record the API can serve, as store_test.go's checkRecord and the field comments
\* of backend.Record have it: its active version is live, version 0 is never claimed,
\* no version is both live and deleted, and latest is the highest version claimed.
RecordOK(r) == /\ r.active \in Live(r)
               /\ ~IsClaimed(r, 0)
               /\ Live(r) \cap r.deleted = {}
               /\ IsClaimed(r, r.latest)
               /\ \A v \in Version : IsClaimed(r, v) => v <= r.latest

----------------------------------------------------------------------------
\* The record Put and CreateVersion build for a name that has none.
NewRecord(v, x) ==
    [active   |-> v,
     latest   |-> v,
     versions |-> [u \in Version |-> IF u = v THEN x ELSE NoValue],
     deleted  |-> {}]

\* r.Latest++ on a uint32.
NextVersionUnbounded(r) == r.latest + 1
NextVersion(r) == (r.latest + 1) % (MaxVersion + 1)

\* Put on an existing record: a new version that is not made active.
WithPut(r, x) == [r EXCEPT !.latest = NextVersion(r),
                           !.versions[NextVersion(r)] = x]

\* A Put that compares against the zero value when the latest version is gone.
SameAsLatestOrGone(r, x) == r.latest \in Live(r) => r.versions[r.latest] = x
\* Put writes nothing when x is the value of a live latest version.
SameAsLatest(r, x) == r.latest \in Live(r) /\ r.versions[r.latest] = x

\* A CreateVersion that forgets the max over the versions before it.
WithVersionAsLatest(r, v, x) ==
    [r EXCEPT !.versions[v] = x, !.latest = v, !.active = v]
\* CreateVersion on an existing record, for a version it has not claimed.
WithVersion(r, v, x) ==
    [r EXCEPT !.versions[v] = x,
              !.latest = IF v > @ THEN v ELSE @,
              !.active = v]

\* Activate of a live version.
WithActive(r, v) == [r EXCEPT !.active = v]

\* A DeleteVersion that only removes the map entry.
WithoutVersionOrClaim(r, v) == [r EXCEPT !.versions[v] = NoValue]
\* DeleteVersion of a live version: it stays claimed.
WithoutVersion(r, v) == [r EXCEPT !.versions[v] = NoValue,
                                  !.deleted = @ \cup {v}]
=============================================================================
