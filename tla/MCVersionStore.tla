--------------------------- MODULE MCVersionStore ---------------------------
(* One ordinary name, one under _internal/, two values and a version space *)
(* whose top is reached by CreateVersion, so that Put wraps.               *)
EXTENDS VersionStore, TLC

CONSTANTS n1, cfg1, a, b

MCNames == {n1, cfg1}
MCConfigNames == {cfg1}
MCValues == {a, b}
MCEmpty == [n \in MCNames |-> Absent]
Symmetry == Permutations(MCValues)
=============================================================================
