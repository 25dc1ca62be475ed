---------------------------- MODULE MCStoreCache ----------------------------
(* One secret, two values, two writers and a reader.  Either the vault is   *)
(* empty and every write is asked for, or it holds a record of two versions *)
(* and each of the five writes is asked for once.                           *)
EXTENDS StoreCache, TLC

CONSTANTS n1, w1, w2, r1, a, b

MCNames == {n1}
MCCallers == {w1, w2, r1}
MCWriters == {w1, w2}
MCValues == {a, b}
MCEmpty == [n \in MCNames |-> Absent]
MCAllWrites == [w \in MCWriters |-> Request]
MCData == Record
MCNoConfig == {}
MCFailures == {Unavailable}
Symmetry == Permutations(MCValues) \cup Permutations(MCWriters)

\* Versions 1 and 2, with the values a and b; 1 is active.
MCTwoVersions ==
    [n \in MCNames |-> [active |-> 1, latest |-> 2, deleted |-> {},
                       versions |-> [v \in Version |-> CASE v = 1 -> a [] v = 2 -> b [] OTHER -> NoValue]]]
Ask(kind, version, value) == [kind |-> kind, name |-> n1, version |-> version, value |-> value]
MCOneOfEach == (w1 :> {Ask("put", 0, a), Ask("create", 3, b), Ask("delete", 0, NoValue)})
               @@ (w2 :> {Ask("activate", 2, NoValue), Ask("deleteVersion", 2, NoValue)})
=============================================================================
