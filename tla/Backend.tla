------------------------------ MODULE Backend ------------------------------
(***************************************************************************)
(* What a backend.Backend is to its callers: a map from names to records,  *)
(* as backend/mem keeps it, on which every Load, Save and Delete acts at   *)
(* one moment between its call and its answer.                             *)
(*                                                                         *)
(* Over the network two things are added to mem: a call may fail, before   *)
(* its moment or after it, and others use the same vault.  Cache and       *)
(* VersionStore take their backend to be like this.                        *)
(***************************************************************************)
CONSTANTS Names, Values, Procs,
          Mangled,  \* the content that cannot be read as a record
          Absent,   \* no record of the name; the answer ErrNotFound
          OK,       \* the answer of a Save or a Delete
          Failed,   \* any other error
          None

VARIABLES vault,  \* the map
          call    \* the call each goroutine is in, and what it took from its moment

vars == <<vault, call>>

Idle == [kind |-> "none", name |-> None, val |-> None, took |-> None]

Init == /\ vault = [n \in Names |-> Absent]
        /\ call = [p \in Procs |-> Idle]

----------------------------------------------------------------------------
Calls == [kind : {"save"}, name : Names, val : Values, took : {None}]
            \cup [kind : {"load", "delete"}, name : Names, val : {None}, took : {None}]

Invoke(p) == /\ call[p] = Idle
             /\ \E k \in Calls : call' = [call EXCEPT ![p] = k]
             /\ UNCHANGED vault

\* The call is under way, and its moment has not come.
Pending(p, kind) == call[p].kind = kind /\ call[p].took = None

Takes(p, r) == call' = [call EXCEPT ![p].took = r]

Load(p) == /\ Pending(p, "load")
           /\ Takes(p, vault[call[p].name])
           /\ UNCHANGED vault

\* The answer to a call that changed the vault may be lost.
Changes(p, x) == /\ vault' = [vault EXCEPT ![call[p].name] = x]
                 /\ Takes(p, OK) \/ Takes(p, Failed)

Save(p) == Pending(p, "save") /\ Changes(p, call[p].val)

\* Deleting what is not there is no error.
Delete(p) == Pending(p, "delete") /\ Changes(p, Absent)

Fails(p) == /\ call[p] # Idle /\ call[p].took = None
            /\ Takes(p, Failed)
            /\ UNCHANGED vault

Answers(p) == /\ call[p].took # None
              /\ call' = [call EXCEPT ![p] = Idle]
              /\ UNCHANGED vault

\* Others remove a record, spoil one, leave it as it is, or add one under a free name.
Elsewhere == /\ UNCHANGED call
             /\ \E n \in Names :
                   \E x \in {vault[n], Mangled, Absent} \cup {y \in Values : vault[n] = Absent} :
                      vault' = [vault EXCEPT ![n] = x]

Next == \/ Elsewhere
        \/ \E p \in Procs : Invoke(p) \/ Load(p) \/ Save(p) \/ Delete(p) \/ Fails(p) \/ Answers(p)

Spec == Init /\ [][Next]_vars
=============================================================================
